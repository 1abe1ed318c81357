------------------------------- MODULE ObncBuild -------------------------------
(***************************************************************************)
(* obnc: builds the executable of a root module. It visits the modules     *)
(* depth first along their imports (Traverse1), and on the way back brings *)
(* the object file of each up to date (UpdateObjectFile) by running        *)
(* obnc-compile and the C compiler, then links (Build). What it knows of   *)
(* earlier builds is what it finds in the files; that a module's exported  *)
(* declarations changed is learned from M.sym.bak and kept in memory only. *)
(*                                                                         *)
(* path is nodePath, the chain of imports from the module being visited to *)
(* the root; discovered is discoveredModules, and changed the modules of   *)
(* it whose field stale was set. listed holds the result of                *)
(* GetImportedFiles for the modules visited so far.                        *)
(***************************************************************************)
EXTENDS ObncCompile, FiniteSets

CONSTANTS
    Root,   \* the modules obnc is run for
    Mode    \* subset of BOOLEAN: TRUE for obnc -x (buildUnified)

ASSUME RootAssumption == Root \subseteq Module
ASSUME ModeAssumption == Mode \subseteq BOOLEAN

VARIABLES pc, root, unified, path, listed, discovered, changed

buildVars == <<root, unified, path, listed, discovered, changed>>
vars == <<fileVars, job, pc, buildVars>>

PC == {"idle", "visit", "imports", "update", "obnc-compile", "cc", "dir",
       "compare", "link", "done"}

Running == pc \notin {"idle", "done"}
Current == Head(path)
OnPath == {path[k] : k \in 1 .. Len(path)}
IsRoot == Len(path) = 1

-----------------------------------------------------------------------------
(* What the decisions of obnc read.                                        *)

(* Mutant of ImportedFiles: the times are not compared.                    *)
ImportedFilesUntimed(m) ==
    IF imp[m] /= NoFile THEN imp[m].imports ELSE obn[m].text.imports

(* GetImportedFiles: the import file if it is as new as the source, else   *)
(* what obnc-compile -l finds in the source.                               *)
ImportedFiles(m) ==
    IF imp[m] /= NoFile /\ imp[m].time >= obn[m].time
    THEN imp[m].imports
    ELSE obn[m].text.imports

Stale(m) == listed[m] \cap changed /= {}

DirFileUpToDate(m) == dirFile[m] = dirName

(* Mutants of OberonCompilationNeeded: a module that was an import before  *)
(* is not compiled again as an entry point; only the C file is looked at.  *)
OberonCompilationNeededAnyRole(m, stale, isEntryPoint) ==
    \/ stale
    \/ Older(gen[m], obn[m].time)
    \/ /\ ~isEntryPoint
       /\ \/ Older(sym[m], obn[m].time)
          \/ Older(hdr[m], obn[m].time)
          \/ ~DirFileUpToDate(m)

OberonCompilationNeededOnlyC(m, stale, isEntryPoint) ==
    \/ stale
    \/ Older(gen[m], obn[m].time)
    \/ isEntryPoint /\ sym[m] /= NoFile

OberonCompilationNeeded(m, stale, isEntryPoint) ==
    \/ stale
    \/ Older(gen[m], obn[m].time)
    \/ isEntryPoint /\ sym[m] /= NoFile
    \/ /\ ~isEntryPoint
       /\ \/ Older(sym[m], obn[m].time)
          \/ Older(hdr[m], obn[m].time)
          \/ ~DirFileUpToDate(m)

(* Mutant of CCompilationNeeded: the environment file is forgotten.        *)
CCompilationNeededNoEnv(m) ==
    /\ ~unified
    /\ \/ obj[m] = NoFile
       \/ hand[m] = NoFile /\ obj[m].time < gen[m].time
       \/ hand[m] /= NoFile /\ obj[m].time < hand[m]

(* UpdateObjectFile looks at this only when gen[m] exists.                 *)
CCompilationNeeded(m) ==
    /\ ~unified
    /\ \/ obj[m] = NoFile
       \/ hand[m] = NoFile /\ obj[m].time < gen[m].time
       \/ hand[m] /= NoFile /\ obj[m].time < hand[m]
       \/ env[m] /= NoFile /\ obj[m].time < env[m]

(* Mutants of SymFileIsSubset: the files are swapped; they must be equal.  *)
SymFileIsSubsetSwapped(oldSym, newSym) == newSym \subseteq oldSym
SymFileIsSubsetEqual(oldSym, newSym) == oldSym = newSym

SymFileIsSubset(oldSym, newSym) == oldSym \subseteq newSym

FaceOf(m) == IF hdr[m] = NoFile THEN NoFile ELSE hdr[m].face

(* What the C compiler makes of the C file of m and the headers it         *)
(* includes, as they are now.                                              *)
ObjectCode(m) ==
    [src |-> gen[m].text, hand |-> hand[m], env |-> env[m],
     entry |-> gen[m].entry, syms |-> gen[m].syms,
     own |-> FaceOf(m),
     faces |-> [i \in Module |-> IF i \in gen[m].text.imports THEN FaceOf(i)
                                 ELSE NoFile]]

(* What the linker is given for m: CCInputFile.                            *)
LinkInput(m) == IF unified THEN ObjectCode(m) ELSE obj[m].code

(* The linker finds one main function, the init function of every import   *)
(* and, under the prefixed name the client knows, what the import exports. *)
Linkable ==
    \A m \in discovered :
        LET code == LinkInput(m) IN
        /\ code.entry = (m = root)
        /\ \A i \in code.src.imports :
              /\ i \in discovered
              /\ LinkInput(i).own /= NoFile
              /\ LinkInput(i).own.dir = code.faces[i].dir

(* Mutant of LinkNeeded: only the object file of the root is looked at.    *)
LinkNeededRoot ==
    ~unified /\ exe[root] /= NoFile => exe[root].time < obj[root].time

LinkNeeded ==
    ~unified /\ exe[root] /= NoFile =>
        \E m \in discovered : exe[root].time < obj[m].time

-----------------------------------------------------------------------------
Init ==
    /\ FilesInit
    /\ job = NoJob
    /\ pc = "idle"
    /\ root \in Root
    /\ unified \in Mode
    /\ path = <<>>
    /\ listed = [m \in Module |-> {}]
    /\ discovered = {}
    /\ changed = {}

Owner ==
    /\ Running => "concurrent edit" \in Disturbance
    /\ OwnerStep
    /\ pc' = IF pc = "done" THEN "idle" ELSE pc
    /\ UNCHANGED <<job, buildVars>>

Clock ==
    /\ Running => "slow build" \in Disturbance
    /\ Tick
    /\ UNCHANGED <<job, pc, buildVars>>

(* main, Build and Traverse: a new process.                                *)
Start(r, u) ==
    /\ ~Running
    /\ pc' = "visit"
    /\ root' = r
    /\ unified' = u
    /\ path' = <<r>>
    /\ listed' = [m \in Module |-> {}]
    /\ discovered' = {r}
    /\ changed' = {}
    /\ UNCHANGED <<fileVars, job>>

Visit ==
    /\ pc = "visit"
    /\ listed' = [listed EXCEPT ![Current] = ImportedFiles(Current)]
    /\ pc' = "imports"
    /\ UNCHANGED <<fileVars, job, root, unified, path, discovered, changed>>

(* Mutant of Descend: only the modules on the path count as discovered.    *)
DescendOffPath ==
    /\ pc = "imports"
    /\ \E i \in listed[Current] \ OnPath :
          /\ path' = <<i>> \o path
          /\ discovered' = discovered \union {i}
    /\ pc' = "visit"
    /\ UNCHANGED <<fileVars, job, root, unified, listed, changed>>

Descend ==
    /\ pc = "imports"
    /\ \E i \in listed[Current] \ discovered :
          /\ path' = <<i>> \o path
          /\ discovered' = discovered \union {i}
    /\ pc' = "visit"
    /\ UNCHANGED <<fileVars, job, root, unified, listed, changed>>

(* Mutant of ImportCycle: imports are compared with the root only.         *)
ImportCycleRoot == pc = "imports" /\ root \in listed[Current]

(* An import that is being visited already: DetectImportCycle.             *)
ImportCycle == pc = "imports" /\ listed[Current] \cap OnPath /= {}

ImportsDone ==
    /\ pc = "imports"
    /\ listed[Current] \subseteq discovered
    /\ ~ImportCycle
    /\ pc' = "update"
    /\ UNCHANGED <<fileVars, job, buildVars>>

(* UpdateObjectFile with CompileOberon: the symbol file is moved to        *)
(* M.sym.bak before obnc-compile is run.                                   *)
UpdateObjectFile ==
    /\ pc = "update"
    /\ LET m == Current IN
       IF OberonCompilationNeeded(m, Stale(m), IsRoot)
       THEN /\ bak' = IF sym[m] = NoFile THEN bak
                      ELSE [bak EXCEPT ![m] = Lines(sym[m])]
            /\ sym' = [sym EXCEPT ![m] = NoFile]
            /\ job' = NewJob(m, IsRoot)
            /\ pc' = "obnc-compile"
       ELSE /\ pc' = IF CCompilationNeeded(m) THEN "cc" ELSE "dir"
            /\ UNCHANGED <<bak, sym, job>>
    /\ UNCHANGED <<clock, written, imp, gen, hdr, obj, dirFile, exe, buildVars>>

RunObncCompile ==
    /\ pc = "obnc-compile"
    /\ CompileStep
    /\ UNCHANGED <<pc, buildVars>>

(* Mutant of ObncCompileDone: new C is not a reason to compile C.          *)
ObncCompileDoneNoC ==
    /\ pc = "obnc-compile"
    /\ At("exit")
    /\ job' = NoJob
    /\ pc' = "dir"
    /\ UNCHANGED <<fileVars, buildVars>>

ObncCompileDone ==
    /\ pc = "obnc-compile"
    /\ At("exit")
    /\ job' = NoJob
    /\ pc' = IF unified THEN "dir" ELSE "cc"
    /\ UNCHANGED <<fileVars, buildVars>>

CompileC ==
    /\ pc = "cc"
    /\ obj' = [obj EXCEPT ![Current] = [code |-> ObjectCode(Current), time |-> clock]]
    /\ pc' = "dir"
    /\ UNCHANGED <<clock, written, imp, gen, hdr, sym, bak, dirFile, exe, job, buildVars>>

(* The end of UpdateObjectFile: the directory name is written down, or     *)
(* forgotten for the root.                                                 *)
WriteDirFile ==
    /\ pc = "dir"
    /\ dirFile' = [dirFile EXCEPT ![Current] = IF IsRoot THEN NoFile ELSE dirName]
    /\ pc' = "compare"
    /\ UNCHANGED <<clock, written, imp, gen, hdr, sym, bak, obj, exe, job, buildVars>>

(* Mutant of CompareSymFiles: a compatible old symbol file is kept.        *)
CompareSymFilesKeeping ==
    /\ pc = "compare"
    /\ LET m == Current IN
       IF sym[m] /= NoFile /\ bak[m] /= NoFile /\ ~SymFileIsSubset(bak[m], Lines(sym[m]))
       THEN /\ changed' = changed \union {m}
            /\ bak' = [bak EXCEPT ![m] = NoFile]
       ELSE UNCHANGED <<changed, bak>>
    /\ path' = Tail(path)
    /\ pc' = IF IsRoot THEN "link" ELSE "imports"
    /\ UNCHANGED <<clock, written, imp, gen, hdr, sym, obj, dirFile, exe, job,
                   root, unified, listed, discovered>>

(* The end of Traverse1: the old and the new symbol file are compared, the *)
(* old one is removed, and the traversal returns to the importing module.  *)
CompareSymFiles ==
    /\ pc = "compare"
    /\ LET m == Current IN
       IF sym[m] /= NoFile /\ bak[m] /= NoFile
       THEN /\ changed' = IF SymFileIsSubset(bak[m], Lines(sym[m]))
                          THEN changed ELSE changed \union {m}
            /\ bak' = [bak EXCEPT ![m] = NoFile]
       ELSE UNCHANGED <<changed, bak>>
    /\ path' = Tail(path)
    /\ pc' = IF IsRoot THEN "link" ELSE "imports"
    /\ UNCHANGED <<clock, written, imp, gen, hdr, sym, obj, dirFile, exe, job,
                   root, unified, listed, discovered>>

CreateExecutable ==
    /\ pc = "link"
    /\ LinkNeeded
    /\ Linkable
    /\ exe' = [exe EXCEPT ![root] =
                   [code |-> [m \in Module |-> IF m \in discovered THEN LinkInput(m)
                                              ELSE NoFile],
                    time |-> clock]]
    /\ pc' = "done"
    /\ UNCHANGED <<clock, written, imp, gen, hdr, sym, bak, obj, dirFile, job, buildVars>>

ExecutableUpToDate ==
    /\ pc = "link"
    /\ ~LinkNeeded
    /\ pc' = "done"
    /\ UNCHANGED <<fileVars, job, buildVars>>

(* Error_Handle: the build stops where it is, what is in memory is lost    *)
(* and the files stay as they are.                                         *)
Abandon ==
    /\ job' = NoJob
    /\ pc' = "idle"
    /\ path' = <<>>
    /\ listed' = [m \in Module |-> {}]
    /\ discovered' = {}
    /\ changed' = {}
    /\ UNCHANGED <<fileVars, root, unified>>

BuildError ==
    /\ \/ ImportCycle
       \/ pc = "obnc-compile" /\ SymbolFileNotFound
       \/ pc = "link" /\ LinkNeeded /\ ~Linkable
    /\ Abandon

(* A tool fails for a reason of its own (an error in the source, a full    *)
(* disk) or the build is killed.                                           *)
Interrupt == "interrupt" \in Disturbance /\ Running /\ Abandon

BuildStep ==
    \/ Visit \/ Descend \/ ImportsDone \/ UpdateObjectFile
    \/ RunObncCompile \/ ObncCompileDone \/ CompileC \/ WriteDirFile
    \/ CompareSymFiles \/ CreateExecutable \/ ExecutableUpToDate \/ BuildError

Next ==
    \/ Owner
    \/ Clock
    \/ \E r \in Root, u \in Mode : Start(r, u)
    \/ BuildStep
    \/ Interrupt

Spec == Init /\ [][Next]_vars

-----------------------------------------------------------------------------
(* Every variable has its type: no operation is applied to a missing file. *)
TypeOK ==
    /\ FilesTypeOK
    /\ job \in Job \union {NoJob}
    /\ pc \in PC
    /\ root \in Root
    /\ unified \in Mode
    /\ path \in Seq(Module)
    /\ listed \in [Module -> SUBSET Module]
    /\ discovered \subseteq Module
    /\ changed \subseteq Module

(* A started build goes on: its steps are those of one sequential process  *)
(* and the tools it waits for end.                                         *)
FairSpec == Spec /\ WF_vars(BuildStep)

(* The owner also runs obnc again and again.                               *)
RetrySpec == FairSpec /\ WF_vars(\E r \in Root, u \in Mode : Start(r, u))

-----------------------------------------------------------------------------
(* The properties.                                                         *)

(* What a step of a build relies on having been done by earlier steps, and *)
(* nobody can undo while the build runs: with TypeOK it is inductive.      *)
(* A module the traversal has left has its C file, and unless -x is given  *)
(* its object file, so CCInputFile always finds something to link.         *)
Compiled(m) == gen[m] /= NoFile /\ (unified \/ obj[m] /= NoFile)

JobInv ==
    /\ job = NoJob <=> pc /= "obnc-compile"
    /\ job /= NoJob =>
          /\ job.module = Current
          /\ job.at \in {"c", "h", "sym"} =>
                \A i \in job.text.imports : job.syms[i] \in SUBSET Decl
          /\ job.at \in {"h", "sym", "exit"} => gen[Current] /= NoFile

TraversalInv ==
    /\ pc \notin {"idle", "link", "done"} => path /= <<>>
    /\ pc = "link" => path = <<>>
    /\ pc = "cc" => gen[Current] /= NoFile
    /\ pc \in {"dir", "compare"} => Compiled(Current)
    /\ Running => \A m \in discovered \ OnPath : Compiled(m)

BuildInv == TypeOK /\ JobInv /\ TraversalInv

(* A generated file that looks new enough really comes from the present    *)
(* source: the comparison of times in UpdateObjectFile and                 *)
(* GetImportedFiles never takes an old text for the new one, whatever      *)
(* build was stopped halfway. (An import file without any import may be    *)
(* one that obnc-compile created and had no time to fill.) A running       *)
(* obnc-compile works on the present source.                               *)
FreshFile(m) ==
    /\ ~Older(gen[m], obn[m].time) => gen[m].text = obn[m].text
    /\ ~Older(hdr[m], obn[m].time) => /\ hdr[m].face.exports = obn[m].text.exports
                                      /\ hdr[m].face.shape = obn[m].text.shape
    /\ ~Older(sym[m], obn[m].time) => sym[m].exports = obn[m].text.exports
    /\ ~Older(imp[m], obn[m].time) => imp[m].imports \in {obn[m].text.imports, {}}

FreshFiles ==
    /\ \A m \in Module : FreshFile(m)
    /\ job /= NoJob => job.text = obn[job.module].text

(* After a successful build nothing is left to do: run again at once, obnc *)
(* would compile no module, find no changed symbol file and keep the       *)
(* executable.                                                             *)
Settled ==
    pc = "done" =>
        /\ \A m \in discovered :
              /\ ~OberonCompilationNeeded(m, FALSE, m = root)
              /\ ~CCompilationNeeded(m)
              /\ sym[m] = NoFile \/ bak[m] = NoFile
        /\ exe[root] /= NoFile
        /\ ~unified => ~LinkNeeded

(* Every call between modules of an executable agrees with the interface   *)
(* of the module called: what obnc-compile read in its symbol file is      *)
(* still exported, and the C compiler saw the header it was compiled with. *)
ClientsAgree ==
    pc = "done" =>
        LET code == exe[root].code IN
        \A m \in discovered : \A i \in code[m].src.imports :
            /\ code[m].syms[i] \subseteq Lines(code[i].own)
            /\ Lines(code[m].faces[i]) \subseteq Lines(code[i].own)
            /\ code[m].faces[i].shape = code[i].own.shape

(* Where it holds: the directory holds one program, all modules of which   *)
(* stay in reach of its root and never import each other in a circle, and  *)
(* what a header says besides the symbol file does not change.             *)
OneProgram ==
    \E r \in Module :
        /\ Root = {r}
        /\ \A text \in FirstDrafts :
              /\ \A S \in SUBSET Module :
                    r \in S /\ (\A m \in S : text[m].imports \subseteq S) => S = Module
              /\ \A S \in (SUBSET Module) \ {{}} :
                    \E m \in S : text[m].imports \cap S = {}

FixedLayout == \A m \in Module : \A t, u \in Draft[m] : t.shape = u.shape

(* Object files of the imports are brought up to date before a module is   *)
(* compiled: when obnc-compile reads the import list of a module, obnc has *)
(* been through each of the imports.                                       *)
ImportsFirst ==
    At("imports") =>
        \A i \in job.text.imports :
            i \in discovered \ OnPath /\ ~Older(obj[i], obn[i].time)

(* A client is recompiled for a changed import only when a declaration the *)
(* import exported is gone: where owners only add declarations, no module  *)
(* is ever marked as changed, whatever else is done to builds and files.   *)
ClientsSpared == "delete export" \notin Disturbance => changed = {}

(* Where it holds: a text that keeps every declaration another exports     *)
(* makes them with what the other made them with, from the same imports.   *)
GrowingMentions ==
    \A m \in Module : \A t, u \in Draft[m] :
        t.exports \subseteq u.exports =>
            /\ t.mentions \subseteq u.mentions
            /\ t.mentions /= {} => t.imports \subseteq u.imports

(* What was compiled can be linked: no main function is missing or defined *)
(* twice, no import is missing, and clients use the names their imports    *)
(* define.                                                                 *)
LinksClean == pc = "link" => Linkable

(* A build that nobody stops ends with an error only where modules import  *)
(* each other in a circle: obnc reports an error of its own for nothing    *)
(* that earlier builds left behind.                                        *)
FailsForCycles == [][BuildError => ImportCycle]_vars

(* The C compiler finds every header it is told to include, also when only *)
(* C is compiled after an earlier build was stopped.                       *)
HeadersFound ==
    pc = "cc" => /\ hdr[Current] = NoFile <=> IsRoot
                 /\ \A i \in gen[Current].text.imports : hdr[i] /= NoFile

(* The executable that a finished build leaves is what BuildPromise says:  *)
(* made of the present inputs of exactly the modules in reach.             *)
Inputs == [m \in Module |-> [src |-> obn[m].text, hand |-> hand[m], env |-> env[m]]]
Linked(file) ==
    IF file = NoFile THEN NoFile
    ELSE [m \in {k \in Module : file.code[k] /= NoFile} |->
             [src |-> file.code[m].src, hand |-> file.code[m].hand,
              env |-> file.code[m].env]]

Promise == INSTANCE BuildPromise WITH
    Input <- [src : Source, hand : Optional(Time), env : Optional(Time)],
    None <- NoFile,
    input <- Inputs,
    program <- [r \in Module |-> Linked(exe[r])],
    built <- IF pc = "done" THEN root ELSE NoFile
PromiseKept == Promise!Spec

(* A build does not succeed while modules in reach of the root import each *)
(* other in a cycle: DetectImportCycle sees every import list in time.     *)
NoImportCycle == pc = "done" => Promise!Acyclic(root)

(* The same as a predicate on states: the executable of a finished build   *)
(* is made of the present source, handwritten C and flags of every module  *)
(* in reach of the root, and of no other module.                           *)
MadeOfPresentInputs ==
    pc = "done" =>
        Linked(exe[root]) = [m \in Promise!Reach(root) |-> Inputs[m]]

(* A started build comes to an end.                                        *)
Terminates == Running ~> ~Running

(* Whatever builds were stopped before, retrying is enough: if from some   *)
(* time on the owner leaves the files alone and only repeats obnc for one  *)
(* root, a build succeeds.                                                 *)
RetrySucceeds ==
    \A r \in Root :
        <>[][BuildStep \/ \E u \in Mode : Start(r, u)]_vars
            => []<>(pc = "done")
==============================================================================
