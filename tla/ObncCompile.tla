------------------------------ MODULE ObncCompile ------------------------------
(***************************************************************************)
(* obnc-compile: one process that translates M.obn into .obnc/M.c and      *)
(* .obnc/M.h and writes .obnc/M.imp and .obnc/M.sym, with the option -e    *)
(* for the entry point of a program (a main function instead of a header,  *)
(* an import file and a symbol file). The files appear one after another:  *)
(* each is a step, and the process may be stopped between any two.         *)
(*                                                                         *)
(* Text that is first collected in .obnc/M.c.PID, .obnc/M.h.PID or a       *)
(* temporary symbol file is visible to nobody until it is moved in place,  *)
(* so the step that moves it writes the file.                              *)
(***************************************************************************)
EXTENDS BuildFiles

CONSTANT NoJob

VARIABLE job   \* the running obnc-compile, or NoJob

JobStep == {"open", "imports", "c", "h", "sym", "exit"}
(* syms: what Table_Import has read in the symbol files of the imports.    *)
Job == [module : Module, entry : BOOLEAN, text : Source,
        syms : Table(SUBSET Decl), at : JobStep]

ASSUME NoJobAssumption == NoJob \notin Job

NewJob(m, entry) ==
    [module |-> m, entry |-> entry, text |-> obn[m].text,
     syms |-> [i \in Module |-> NoFile], at |-> "open"]

At(step) == job /= NoJob /\ job.at = step
GoTo(step) == job' = [job EXCEPT !.at = step]

(* The symbol table of the importing module, and the part of it that its   *)
(* own exported declarations are made with.                                *)
ImportedSymbols(imports) ==
    [i \in Module |-> IF i \in imports THEN Lines(sym[i]) ELSE NoFile]
Mentioned(j) == j.text.mentions \cap UNION {j.syms[i] : i \in j.text.imports}

-----------------------------------------------------------------------------
(* Mutant of OpenSource: an existing import file is opened for writing,    *)
(* which sets its time.                                                    *)
OpenSourceTouching ==
    /\ At("open")
    /\ LET m == job.module
           old == IF imp[m] = NoFile THEN {} ELSE imp[m].imports IN
       imp' = [imp EXCEPT ![m] = IF job.entry THEN NoFile
                                 ELSE [imports |-> old, time |-> clock]]
    /\ job' = [job EXCEPT !.at = "imports", !.text = obn[job.module].text]
    /\ UNCHANGED <<clock, written, gen, hdr, sym, bak, obj, dirFile, exe>>

(* Oberon_Parse opens the source and makes sure an import file exists (it  *)
(* is empty when it is new), or with -e that none exists.                  *)
OpenSource ==
    /\ At("open")
    /\ LET m == job.module IN
       IF job.entry
       THEN imp' = [imp EXCEPT ![m] = NoFile]
       ELSE imp' = IF imp[m] = NoFile
                   THEN [imp EXCEPT ![m] = [imports |-> {}, time |-> clock]]
                   ELSE imp
    /\ job' = [job EXCEPT !.at = "imports", !.text = obn[job.module].text]
    /\ UNCHANGED <<clock, written, gen, hdr, sym, bak, obj, dirFile, exe>>

(* Mutant of ImportList: the names are not written when there already is   *)
(* an import file.                                                         *)
ImportListOnce ==
    /\ At("imports")
    /\ \A i \in job.text.imports : sym[i] /= NoFile
    /\ job' = [job EXCEPT !.at = "c", !.syms = ImportedSymbols(job.text.imports)]
    /\ UNCHANGED <<clock, written, imp, gen, hdr, sym, bak, obj, dirFile, exe>>

(* The rules import and ImportList: every import needs its symbol file;    *)
(* then the names are written to the import file, unless there are none.   *)
ImportList ==
    /\ At("imports")
    /\ \A i \in job.text.imports : sym[i] /= NoFile
    /\ imp' = IF job.entry \/ job.text.imports = {}
              THEN imp
              ELSE [imp EXCEPT ![job.module] =
                        [imports |-> job.text.imports, time |-> clock]]
    /\ job' = [job EXCEPT !.at = "c", !.syms = ImportedSymbols(job.text.imports)]
    /\ UNCHANGED <<clock, written, gen, hdr, sym, bak, obj, dirFile, exe>>

SymbolFileNotFound ==
    /\ At("imports")
    /\ \E i \in job.text.imports : sym[i] = NoFile

(* Generate_Close moves the C file in place, then the header, or deletes   *)
(* the header of an entry point.                                           *)
CloseCFile ==
    /\ At("c")
    /\ gen' = [gen EXCEPT ![job.module] =
                   [text |-> job.text, entry |-> job.entry, syms |-> job.syms,
                    time |-> clock]]
    /\ GoTo("h")
    /\ UNCHANGED <<clock, written, imp, hdr, sym, bak, obj, dirFile, exe>>

CloseHeader ==
    /\ At("h")
    /\ hdr' = [hdr EXCEPT ![job.module] =
                   IF job.entry THEN NoFile
                   ELSE [face |-> [exports |-> job.text.exports,
                                   mentions |-> Mentioned(job),
                                   shape |-> job.text.shape,
                                   dir |-> dirName],
                         time |-> clock]]
    /\ GoTo("sym")
    /\ UNCHANGED <<clock, written, imp, gen, sym, bak, obj, dirFile, exe>>

(* The rule module ends with ExportSymbolTable, or deletes the symbol file *)
(* of an entry point.                                                      *)
ExportSymbolTable ==
    /\ At("sym")
    /\ sym' = [sym EXCEPT ![job.module] =
                   IF job.entry THEN NoFile
                   ELSE [exports |-> job.text.exports, mentions |-> Mentioned(job),
                         time |-> clock]]
    /\ GoTo("exit")
    /\ UNCHANGED <<clock, written, imp, gen, hdr, bak, obj, dirFile, exe>>

CompileStep ==
    OpenSource \/ ImportList \/ CloseCFile \/ CloseHeader \/ ExportSymbolTable
==============================================================================
