------------------------------ MODULE BuildFiles ------------------------------
(***************************************************************************)
(* The files that obnc, obnc-compile and the C compiler keep for the       *)
(* modules of one source directory, and what its owner may do to them.     *)
(*                                                                         *)
(* A file is NoFile or a record of what its text says that another step    *)
(* can depend on, with its modification time in whole seconds: Files.c     *)
(* reads st_mtime, and every decision of obnc compares two such numbers.   *)
(* Two texts of a module differ when a client, the C compiler or the       *)
(* linker could tell them apart:                                           *)
(*   imports  the modules named in the import list                         *)
(*   exports  the lines of the symbol file, one per exported declaration;  *)
(*            changing a declaration deletes one line and adds another     *)
(*   mentions the lines of imported symbol files that the exported         *)
(*            declarations are made with (a base type, the type of a       *)
(*            parameter): the symbol file repeats them (Table_Export)      *)
(*   shape    what the C header says and the symbol file does not, such as *)
(*            the unexported fields of an exported record                  *)
(*   body     everything else                                              *)
(***************************************************************************)
EXTENDS Integers, Sequences

CONSTANTS
    Module,       \* the modules of the directory
    Decl,         \* lines a symbol file may have
    Shape,        \* layouts a header may describe
    Body,         \* statement sequences
    Draft,        \* Draft[m]: the texts M.obn may be given
    CModules,     \* modules for which a file M.c may be written by hand
    EnvModules,   \* modules for which a file M.env may be written
    DirName,      \* names of the directory
    Disturbance,  \* which of AllDisturbances may happen
    MaxClock,     \* bound: the last second
    NoFile

(* What the owner and the machine may do besides adding to sources in a    *)
(* later second than the last build: delete or change an exported          *)
(* declaration, edit within the same second, edit while a build is         *)
(* running, let seconds pass during a build, stop a build, delete a        *)
(* handwritten C file, rename the directory.                               *)
AllDisturbances ==
    {"delete export", "same second", "concurrent edit", "slow build",
     "interrupt", "remove C", "rename"}

Source == [imports : SUBSET Module, exports : SUBSET Decl, mentions : SUBSET Decl,
           shape : Shape, body : Body]
ASSUME DraftAssumption == Draft \in [Module -> SUBSET Source]
ASSUME DisturbanceAssumption == Disturbance \subseteq AllDisturbances
ASSUME MaxClockAssumption == MaxClock \in Nat

Time == 0 .. MaxClock
Optional(S) == S \union {NoFile}

VARIABLES
    clock,    \* the current second
    dirName,  \* the name of the directory
    obn,      \* M.obn         the Oberon source
    hand,     \* M.c           C written by hand, or its time only
    env,      \* M.env         flags of the module, its time only
    imp,      \* .obnc/M.imp   the imports of the last compilation
    gen,      \* .obnc/M.c     generated C
    hdr,      \* .obnc/M.h     generated header
    sym,      \* .obnc/M.sym   exported declarations
    bak,      \* .obnc/M.sym.bak  the symbol file before the last compilation
    obj,      \* .obnc/M.o     object code
    dirFile,  \* .obnc/M.dir   the directory name the object code is for
    exe       \* the executable of a root module

generated == <<imp, gen, hdr, sym, bak, obj, dirFile, exe>>
written == <<dirName, obn, hand, env>>
fileVars == <<clock, written, generated>>

(* What a header tells the C compiler: names with the directory as prefix  *)
(* and layouts.                                                            *)
Face == [exports : SUBSET Decl, mentions : SUBSET Decl, shape : Shape, dir : DirName]

(* A table over the modules, with NoFile for those it does not mention.    *)
Table(S) == [Module -> Optional(S)]

(* The contents of the generated files.                                    *)
ImpFile == [imports : SUBSET Module, time : Time]
GenFile == [text : Source, entry : BOOLEAN, syms : Table(SUBSET Decl), time : Time]
HdrFile == [face : Face, time : Time]
SymFile == [exports : SUBSET Decl, mentions : SUBSET Decl, time : Time]

(* The declarations that a symbol file or a header gives to a client.      *)
Lines(file) == file.exports \union file.mentions

(* What object code was made of: the Oberon text, the handwritten C and    *)
(* the flags (told apart by their times), whether it defines main or an    *)
(* init function, the symbol files obnc-compile read, the module's own     *)
(* header and the headers of its imports.                                  *)
Code == [src : Source, hand : Optional(Time), env : Optional(Time),
         entry : BOOLEAN, syms : Table(SUBSET Decl),
         own : Optional(Face), faces : Table(Face)]
ObjFile == [code : Code, time : Time]
ExeFile == [code : Table(Code), time : Time]

ASSUME NoFileAssumption ==
    /\ NoFile \notin GenFile \union HdrFile \union SymFile \union ObjFile \union Code
              \union ExeFile \union Time \union Face
    /\ \A lines \in SUBSET Decl : lines /= NoFile

-----------------------------------------------------------------------------
FirstDrafts ==
    {first \in [Module -> UNION {Draft[m] : m \in Module}] :
        \A m \in Module : first[m] \in Draft[m]}

FilesInit ==
    /\ clock = 0
    /\ dirName \in DirName
    /\ obn \in {[m \in Module |-> [text |-> first[m], time |-> 0]] : first \in FirstDrafts}
    /\ hand = [m \in Module |-> NoFile]
    /\ env = [m \in Module |-> NoFile]
    /\ imp = [m \in Module |-> NoFile]
    /\ gen = [m \in Module |-> NoFile]
    /\ hdr = [m \in Module |-> NoFile]
    /\ sym = [m \in Module |-> NoFile]
    /\ bak = [m \in Module |-> NoFile]
    /\ obj = [m \in Module |-> NoFile]
    /\ dirFile = [m \in Module |-> NoFile]
    /\ exe = [m \in Module |-> NoFile]

Older(file, t) == file /= NoFile => file.time < t

(* Every generated file dates from an earlier second, so an edit made now  *)
(* gives the edited file a strictly later time than all of them.           *)
Aged ==
    "same second" \notin Disturbance =>
        \A m \in Module : /\ Older(imp[m], clock) /\ Older(gen[m], clock)
                          /\ Older(hdr[m], clock) /\ Older(sym[m], clock)
                          /\ Older(obj[m], clock) /\ Older(exe[m], clock)

Tick ==
    /\ clock < MaxClock
    /\ clock' = clock + 1
    /\ UNCHANGED <<written, generated>>

(* The owner's actions: save a source, write or delete a handwritten C     *)
(* file, save an environment file, rename the directory.                   *)
SaveSource(m) ==
    \E text \in Draft[m] :
        /\ text /= obn[m].text
        /\ "delete export" \notin Disturbance => obn[m].text.exports \subseteq text.exports
        /\ obn' = [obn EXCEPT ![m] = [text |-> text, time |-> clock]]
        /\ UNCHANGED <<dirName, hand, env>>

SaveC(m) ==
    /\ m \in CModules
    /\ hand' = [hand EXCEPT ![m] = clock]
    /\ UNCHANGED <<dirName, obn, env>>

RemoveC(m) ==
    /\ "remove C" \in Disturbance
    /\ hand[m] /= NoFile
    /\ hand' = [hand EXCEPT ![m] = NoFile]
    /\ UNCHANGED <<dirName, obn, env>>

SaveEnv(m) ==
    /\ m \in EnvModules
    /\ env' = [env EXCEPT ![m] = clock]
    /\ UNCHANGED <<dirName, obn, hand>>

Rename ==
    /\ "rename" \in Disturbance
    /\ dirName' \in DirName \ {dirName}
    /\ UNCHANGED <<obn, hand, env>>

OwnerStep ==
    /\ Aged
    /\ \/ \E m \in Module : SaveSource(m) \/ SaveC(m) \/ RemoveC(m) \/ SaveEnv(m)
       \/ Rename
    /\ UNCHANGED <<clock, generated>>

-----------------------------------------------------------------------------
FilesTypeOK ==
    /\ clock \in Time
    /\ dirName \in DirName
    /\ obn \in [Module -> [text : Source, time : Time]]
    /\ hand \in Table(Time)
    /\ env \in Table(Time)
    /\ imp \in Table(ImpFile)
    /\ gen \in Table(GenFile)
    /\ hdr \in Table(HdrFile)
    /\ sym \in Table(SymFile)
    /\ bak \in Table(SUBSET Decl)
    /\ obj \in Table(ObjFile)
    /\ dirFile \in Table(DirName)
    /\ exe \in Table(ExeFile)
==============================================================================
