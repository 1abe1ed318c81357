---------------------------- MODULE ObncBuildProofs ----------------------------
(***************************************************************************)
(* Proofs about ObncBuild for every set of modules, drafts and files.      *)
(*                                                                         *)
(* BuildInv is an inductive invariant of Spec, whatever happens.           *)
(*                                                                         *)
(* What obnc knows from the files: where no source is saved in the second  *)
(* of a build or during a build, obnc is never deceived by a time, with    *)
(* builds stopped anywhere: FreshFiles is an invariant of Spec. It is      *)
(* inductive together with BuildInv, which tells that no obnc-compile runs *)
(* when the owner acts.                                                    *)
(*                                                                         *)
(* Where, besides, nobody stops a build, obnc knows the import list of     *)
(* every module it has met: no build ends with an import cycle, and        *)
(* obnc-compile finds the symbol file of every import.                     *)
(***************************************************************************)
EXTENDS ObncBuild, SequenceTheorems, TLAPS

(* Entering a module makes it the head of the path and keeps the others.   *)
LEMMA PathPush ==
    ASSUME NEW S, NEW s \in Seq(S), NEW i \in S
    PROVE  /\ <<i>> \o s \in Seq(S)
           /\ <<i>> \o s /= <<>>
           /\ Head(<<i>> \o s) = i
           /\ \A k \in 1 .. Len(s) : /\ k + 1 \in 1 .. Len(<<i>> \o s)
                                     /\ (<<i>> \o s)[k + 1] = s[k]
           /\ 1 \in 1 .. Len(<<i>> \o s)
           /\ (<<i>> \o s)[1] = i
  <1>1. <<i>> \in Seq(S) /\ Len(<<i>>) = 1 /\ <<i>>[1] = i
    OBVIOUS
  <1>2. Len(<<i>> \o s) = 1 + Len(s)
    BY <1>1
  <1>3. <<i>> \o s \in Seq(S)
    BY <1>1
  <1>4. (<<i>> \o s)[1] = i
    BY <1>1, <1>2
  <1>5. \A k \in 1 .. Len(s) : (<<i>> \o s)[k + 1] = s[k]
    BY <1>1
  <1> QED
    BY <1>2, <1>3, <1>4, <1>5

(* Leaving a module takes only the head from the path.                     *)
LEMMA PathPop ==
    ASSUME NEW S, NEW s \in Seq(S), s /= <<>>
    PROVE  /\ Head(s) \in S
           /\ Tail(s) \in Seq(S)
           /\ Len(s) = 1 <=> Tail(s) = <<>>
           /\ \A k \in 1 .. Len(s) :
                 s[k] = Head(s) \/ \E j \in 1 .. Len(Tail(s)) : Tail(s)[j] = s[k]
  <1>1. Len(s) \in Nat \ {0} /\ Head(s) = s[1] /\ Len(Tail(s)) = Len(s) - 1
    BY EmptySeq
  <1>2. Head(s) \in S /\ Tail(s) \in Seq(S)
    OBVIOUS
  <1>3. Len(s) = 1 <=> Tail(s) = <<>>
    <2>1. Tail(s) /= <<>> => Len(Tail(s)) \in Nat \ {0}
      BY <1>2, EmptySeq
    <2>2. Tail(s) = <<>> => Len(Tail(s)) = 0
      BY EmptySeq
    <2> QED
      BY <1>1, <2>1, <2>2
  <1>4. ASSUME NEW k \in 1 .. Len(s), s[k] /= Head(s)
        PROVE  \E j \in 1 .. Len(Tail(s)) : Tail(s)[j] = s[k]
    <2>1. k - 1 \in 1 .. Len(Tail(s)) /\ Tail(s)[k - 1] = s[k]
      BY <1>1, <1>4
    <2> QED
      BY <2>1
  <1> QED
    BY <1>2, <1>3, <1>4

-----------------------------------------------------------------------------
(* The initial states satisfy the invariant.                               *)
LEMMA InitInv == Init => BuildInv
  <1> SUFFICES ASSUME Init PROVE BuildInv
    OBVIOUS
  <1> USE DEF Init, FilesInit
  <1>1. PICK first \in FirstDrafts :
            obn = [m \in Module |-> [text |-> first[m], time |-> 0]]
    OBVIOUS
  <1>2. \A m \in Module : first[m] \in Source
    BY <1>1, DraftAssumption DEF FirstDrafts
  <1>3. 0 \in Time
    BY MaxClockAssumption DEF Time
  <1>4. obn \in [Module -> [text : Source, time : Time]]
    BY <1>1, <1>2, <1>3
  <1>5. FilesTypeOK
    BY <1>3, <1>4 DEF FilesTypeOK, Table, Optional
  <1>6. TypeOK
    BY <1>5 DEF TypeOK, PC
  <1>7. JobInv
    BY DEF JobInv
  <1>8. TraversalInv
    BY DEF TraversalInv, Running
  <1> QED
    BY <1>6, <1>7, <1>8 DEF BuildInv

(* The module being visited is a module.                                   *)
LEMMA CurrentInModule ==
    ASSUME BuildInv, pc \notin {"idle", "link", "done"}
    PROVE  Current \in Module /\ path \in Seq(Module) /\ path /= <<>>
  BY PathPop DEF BuildInv, TypeOK, TraversalInv, Current

(* What depends on nothing but unchanged variables stays true.             *)
LEMMA SameFiles == FilesTypeOK /\ UNCHANGED fileVars => FilesTypeOK'
  BY DEF FilesTypeOK, fileVars, written, generated

(* The owner and the clock change no file a build has made.                *)
LEMMA OwnerInv == BuildInv /\ Owner => BuildInv'
  <1> SUFFICES ASSUME BuildInv, Owner PROVE BuildInv'
    OBVIOUS
  <1>0. FilesTypeOK /\ TypeOK /\ JobInv /\ TraversalInv
    BY DEF BuildInv, TypeOK
  <1>1. obn' \in [Module -> [text : Source, time : Time]] /\ hand' \in Table(Time)
        /\ env' \in Table(Time) /\ dirName' \in DirName
    <2>1. ASSUME NEW m \in Module, SaveSource(m)
          PROVE  obn' \in [Module -> [text : Source, time : Time]] /\ UNCHANGED <<hand, env, dirName>>
      <3>1. PICK text \in Draft[m] :
                /\ obn' = [obn EXCEPT ![m] = [text |-> text, time |-> clock]]
                /\ UNCHANGED <<dirName, hand, env>>
        BY <2>1 DEF SaveSource
      <3>2. text \in Source
        BY DraftAssumption
      <3>3. clock \in Time /\ obn \in [Module -> [text : Source, time : Time]]
        BY <1>0 DEF FilesTypeOK
      <3>4. [text |-> text, time |-> clock] \in [text : Source, time : Time]
        BY <3>2, <3>3
      <3> QED
        BY <3>1, <3>3, <3>4
    <2>2. ASSUME NEW m \in Module, SaveC(m) \/ RemoveC(m)
          PROVE  hand' \in Table(Time) /\ UNCHANGED <<obn, env, dirName>>
      BY <1>0, <2>2 DEF SaveC, RemoveC, FilesTypeOK, Table, Optional
    <2>3. ASSUME NEW m \in Module, SaveEnv(m)
          PROVE  env' \in Table(Time) /\ UNCHANGED <<obn, hand, dirName>>
      BY <1>0, <2>3 DEF SaveEnv, FilesTypeOK, Table, Optional
    <2>4. ASSUME Rename
          PROVE  dirName' \in DirName /\ UNCHANGED <<obn, hand, env>>
      BY <2>4 DEF Rename
    <2> QED
      BY <1>0, <2>1, <2>2, <2>3, <2>4 DEF FilesTypeOK, Owner, OwnerStep
  <1>2. UNCHANGED <<clock, generated, job, buildVars>>
        /\ pc' = IF pc = "done" THEN "idle" ELSE pc
    BY DEF Owner, OwnerStep
  <1>3. FilesTypeOK'
    BY <1>0, <1>1, <1>2 DEF FilesTypeOK, generated
  <1>4. TypeOK'
    BY <1>0, <1>2, <1>3 DEF TypeOK, PC, buildVars
  <1>5. JobInv'
    BY <1>0, <1>2 DEF JobInv, generated, buildVars, Current
  <1>6. TraversalInv'
    <2>1. path' = path /\ discovered' = discovered /\ unified' = unified
          /\ gen' = gen /\ obj' = obj
      BY <1>2 DEF generated, buildVars
    <2>2. OnPath' = OnPath /\ Current' = Current /\ \A m : Compiled(m)' <=> Compiled(m)
      BY <2>1 DEF OnPath, Current, Compiled
    <2> QED
      BY <1>0, <1>2, <2>1, <2>2 DEF TraversalInv, Running
  <1> QED
    BY <1>4, <1>5, <1>6 DEF BuildInv

(* The clock stays within its bound.                                       *)
LEMMA NextSecond ==
    ASSUME NEW t \in Time, t < MaxClock PROVE t + 1 \in Time
  BY MaxClockAssumption DEF Time

(* The clock changes no file.                                              *)
LEMMA ClockInv == BuildInv /\ Clock => BuildInv'
  <1> SUFFICES ASSUME BuildInv, Clock PROVE BuildInv'
    OBVIOUS
  <1>1. UNCHANGED <<written, generated, job, pc, buildVars>>
    BY DEF Clock, Tick
  <1>2. clock' \in Time
    BY NextSecond DEF Clock, Tick, BuildInv, TypeOK, FilesTypeOK
  <1>3. FilesTypeOK'
    BY <1>1, <1>2 DEF BuildInv, TypeOK, FilesTypeOK, written, generated
  <1>4. TypeOK'
    BY <1>1, <1>3 DEF BuildInv, TypeOK, buildVars
  <1>5. JobInv' /\ TraversalInv'
    BY <1>1 DEF BuildInv, JobInv, TraversalInv, generated, buildVars,
                Current, Running, OnPath, Compiled
  <1> QED
    BY <1>4, <1>5 DEF BuildInv

(* A new build has one module on its path, and has left none.              *)
LEMMA StartInv ==
    ASSUME BuildInv, NEW r \in Root, NEW u \in Mode, Start(r, u)
    PROVE  BuildInv'
  <1> USE DEF BuildInv, TypeOK, Start
  <1>1. FilesTypeOK'
    BY SameFiles
  <1>2. r \in Module
    BY RootAssumption
  <1>3. path' \in Seq(Module) /\ path' /= <<>> /\ OnPath' = {r}
    BY <1>2 DEF OnPath
  <1>4. TypeOK'
    BY <1>1, <1>2, <1>3 DEF PC
  <1>5. JobInv'
    BY DEF JobInv, Running
  <1>6. TraversalInv'
    BY <1>3 DEF TraversalInv
  <1> QED
    BY <1>4, <1>5, <1>6

(* A build that stops keeps the files and nothing else.                    *)
LEMMA AbandonInv == BuildInv /\ Abandon => BuildInv'
  <1> SUFFICES ASSUME BuildInv, Abandon PROVE BuildInv'
    OBVIOUS
  <1>1. FilesTypeOK'
    BY SameFiles DEF Abandon, BuildInv, TypeOK
  <1>2. path' \in Seq(Module)
    BY EmptySeq DEF Abandon
  <1>3. TypeOK'
    BY <1>1, <1>2 DEF Abandon, BuildInv, TypeOK, PC
  <1>4. JobInv' /\ TraversalInv'
    BY DEF Abandon, JobInv, TraversalInv, Running
  <1> QED
    BY <1>3, <1>4 DEF BuildInv

(* Reading an import list touches no file; it lists modules only.          *)
LEMMA VisitInv == BuildInv /\ Visit => BuildInv'
  <1> SUFFICES ASSUME BuildInv, Visit PROVE BuildInv'
    OBVIOUS
  <1>1. FilesTypeOK'
    BY SameFiles DEF Visit, BuildInv, TypeOK
  <1>2. Current \in Module
    BY CurrentInModule DEF Visit
  <1>3. ImportedFiles(Current) \subseteq Module
    BY <1>2 DEF ImportedFiles, BuildInv, TypeOK, FilesTypeOK, Table, Optional,
                ImpFile, Source
  <1>4. TypeOK'
    BY <1>1, <1>3 DEF Visit, BuildInv, TypeOK, PC
  <1>5. JobInv' /\ TraversalInv'
    BY DEF Visit, BuildInv, JobInv, TraversalInv, fileVars, generated,
           Current, Running, OnPath, Compiled
  <1> QED
    BY <1>4, <1>5 DEF BuildInv

(* Going on to an import puts it on the path, so the modules that the      *)
(* traversal has left are the same.                                        *)
LEMMA DescendInv == BuildInv /\ Descend => BuildInv'
  <1> SUFFICES ASSUME BuildInv, Descend PROVE BuildInv'
    OBVIOUS
  <1>1. FilesTypeOK'
    BY SameFiles DEF Descend, BuildInv, TypeOK
  <1>2. PICK i \in listed[Current] \ discovered :
            path' = <<i>> \o path /\ discovered' = discovered \union {i}
    BY DEF Descend
  <1>3. Current \in Module /\ path \in Seq(Module)
    BY CurrentInModule DEF Descend
  <1>4. i \in Module
    BY <1>3 DEF BuildInv, TypeOK
  <1>5. path' \in Seq(Module) /\ path' /= <<>>
    BY <1>2, <1>3, <1>4, PathPush
  <1>6. OnPath \union {i} \subseteq OnPath'
    BY <1>2, <1>3, <1>4, PathPush DEF OnPath
  <1>7. TypeOK'
    BY <1>1, <1>2, <1>4, <1>5 DEF Descend, BuildInv, TypeOK, PC
  <1>8. JobInv'
    BY DEF Descend, BuildInv, JobInv
  <1>9. TraversalInv'
    BY <1>2, <1>5, <1>6 DEF Descend, BuildInv, TraversalInv, fileVars, generated,
                            Running, Compiled
  <1> QED
    BY <1>7, <1>8, <1>9 DEF BuildInv

(* Nothing but the place in the traversal changes.                         *)
LEMMA ImportsDoneInv == BuildInv /\ ImportsDone => BuildInv'
  <1> SUFFICES ASSUME BuildInv, ImportsDone PROVE BuildInv'
    OBVIOUS
  <1>1. FilesTypeOK'
    BY SameFiles DEF ImportsDone, BuildInv, TypeOK
  <1>2. TypeOK'
    BY <1>1 DEF ImportsDone, BuildInv, TypeOK, PC, buildVars
  <1>3. JobInv' /\ TraversalInv'
    BY DEF ImportsDone, BuildInv, JobInv, TraversalInv, fileVars, generated, buildVars,
           Current, Running, OnPath, Compiled
  <1> QED
    BY <1>2, <1>3 DEF BuildInv

(* If obnc-compile is not needed the C file exists, and if the C compiler  *)
(* is not needed either the object file does.                              *)
LEMMA UpdateObjectFileInv == BuildInv /\ UpdateObjectFile => BuildInv'
  <1> SUFFICES ASSUME BuildInv, UpdateObjectFile PROVE BuildInv'
    OBVIOUS
  <1> DEFINE m == Current
  <1>1. m \in Module /\ pc = "update"
    BY CurrentInModule DEF UpdateObjectFile
  <1>2. UNCHANGED <<clock, written, imp, gen, hdr, obj, dirFile, exe, buildVars>>
    BY DEF UpdateObjectFile
  <1>3. job = NoJob /\ job \in Job \union {NoJob}
    BY <1>1 DEF BuildInv, JobInv, TypeOK
  <1>4. CASE OberonCompilationNeeded(m, Stale(m), IsRoot)
    <2>1. /\ bak' = IF sym[m] = NoFile THEN bak ELSE [bak EXCEPT ![m] = Lines(sym[m])]
          /\ sym' = [sym EXCEPT ![m] = NoFile]
          /\ job' = NewJob(m, IsRoot)
          /\ pc' = "obnc-compile"
      BY <1>4 DEF UpdateObjectFile
    <2>2. sym' \in Table(SymFile) /\ bak' \in Table(SUBSET Decl)
      BY <2>1, <1>1 DEF BuildInv, TypeOK, FilesTypeOK, Table, Optional, SymFile, Lines
    <2>3. FilesTypeOK'
      BY <1>2, <2>2 DEF BuildInv, TypeOK, FilesTypeOK, written
    <2>4. obn[m].text \in Source /\ IsRoot \in BOOLEAN
      BY <1>1 DEF BuildInv, TypeOK, FilesTypeOK, IsRoot
    <2>5. job' \in Job /\ job'.module = m /\ job'.at = "open"
      BY <1>1, <2>1, <2>4 DEF NewJob, Job, JobStep, Table, Optional
    <2>6. TypeOK'
      BY <1>2, <2>1, <2>3, <2>5 DEF BuildInv, TypeOK, PC, buildVars
    <2>7. JobInv'
      BY <1>2, <2>1, <2>5, NoJobAssumption DEF JobInv, buildVars, Current
    <2>8. TraversalInv'
      BY <1>1, <1>2, <2>1 DEF BuildInv, TraversalInv, buildVars, Current, Running,
                              OnPath, Compiled
    <2> QED
      BY <2>6, <2>7, <2>8 DEF BuildInv
  <1>5. CASE ~OberonCompilationNeeded(m, Stale(m), IsRoot)
    <2>1. /\ pc' = IF CCompilationNeeded(m) THEN "cc" ELSE "dir"
          /\ UNCHANGED <<bak, sym, job>>
      BY <1>5 DEF UpdateObjectFile
    <2>2. FilesTypeOK'
      BY SameFiles, <1>2, <2>1 DEF fileVars, generated, BuildInv, TypeOK
    <2>3. TypeOK'
      BY <1>2, <2>1, <2>2 DEF BuildInv, TypeOK, PC, buildVars
    <2>4. JobInv'
      BY <1>1, <1>3, <2>1 DEF JobInv
    <2>5. gen[m] /= NoFile
      BY <1>5 DEF OberonCompilationNeeded, Older
    <2>6. ~CCompilationNeeded(m) => Compiled(m)
      BY <2>5 DEF CCompilationNeeded, Compiled
    <2>7. TraversalInv'
      BY <1>1, <1>2, <2>1, <2>5, <2>6
         DEF BuildInv, TraversalInv, buildVars, Current, Running, OnPath, Compiled
    <2> QED
      BY <2>3, <2>4, <2>7 DEF BuildInv
  <1> QED
    BY <1>4, <1>5

(* obnc-compile has left a C file; with -x nothing else is asked for.      *)
LEMMA ObncCompileDoneInv == BuildInv /\ ObncCompileDone => BuildInv'
  <1> SUFFICES ASSUME BuildInv, ObncCompileDone PROVE BuildInv'
    OBVIOUS
  <1>1. FilesTypeOK'
    BY SameFiles DEF ObncCompileDone, BuildInv, TypeOK
  <1>2. gen[Current] /= NoFile
    BY DEF ObncCompileDone, At, BuildInv, JobInv
  <1>3. TypeOK'
    BY <1>1 DEF ObncCompileDone, BuildInv, TypeOK, PC, buildVars
  <1>4. JobInv'
    BY DEF ObncCompileDone, JobInv
  <1>5. TraversalInv'
    BY <1>2 DEF ObncCompileDone, BuildInv, TraversalInv, fileVars, generated, buildVars,
                Current, Running, OnPath, Compiled
  <1> QED
    BY <1>3, <1>4, <1>5 DEF BuildInv

-----------------------------------------------------------------------------
(* While obnc-compile runs its module is the one obnc is visiting.         *)
LEMMA RunningJob ==
    ASSUME BuildInv, RunObncCompile
    PROVE  /\ pc = "obnc-compile" /\ pc' = pc /\ UNCHANGED buildVars
           /\ job \in Job /\ job.module \in Module /\ job.module = Current
           /\ job.text \in Source /\ job.entry \in BOOLEAN
           /\ clock \in Time
  BY CurrentInModule
     DEF RunObncCompile, BuildInv, JobInv, TypeOK, FilesTypeOK, Job

(* A step of the job to another place of the program keeps its type.       *)
LEMMA GoToJob ==
    ASSUME job \in Job, NEW step \in JobStep, GoTo(step)
    PROVE  /\ job' \in Job /\ job' /= NoJob /\ job'.at = step
           /\ job'.module = job.module /\ job'.text = job.text
           /\ job'.entry = job.entry /\ job'.syms = job.syms
  BY NoJobAssumption DEF GoTo, Job

(* obnc-compile changes neither the path nor any object file, and removes  *)
(* no C file.                                                              *)
LEMMA CompileStepTraversal ==
    ASSUME BuildInv, RunObncCompile, UNCHANGED obj,
           \A m \in Module : gen[m] /= NoFile => gen'[m] /= NoFile
    PROVE  TraversalInv'
  <1>1. pc = "obnc-compile" /\ pc' = pc /\ UNCHANGED buildVars
    BY RunningJob
  <1>2. discovered \subseteq Module
    BY DEF BuildInv, TypeOK
  <1> QED
    BY <1>1, <1>2 DEF BuildInv, TraversalInv, buildVars, Running, OnPath, Compiled

(* Opening the source writes at most an import file.                       *)
LEMMA OpenSourceInv == BuildInv /\ RunObncCompile /\ OpenSource => BuildInv'
  <1> SUFFICES ASSUME BuildInv, RunObncCompile, OpenSource PROVE BuildInv'
    OBVIOUS
  <1>1. /\ pc = "obnc-compile" /\ pc' = pc /\ UNCHANGED buildVars
        /\ job \in Job /\ job.module \in Module /\ clock \in Time
    BY RunningJob
  <1>2. /\ job' \in Job /\ job' /= NoJob /\ job'.at = "imports"
        /\ job'.module = job.module
    <2>1. job' = [job EXCEPT !.at = "imports", !.text = obn[job.module].text]
      BY DEF OpenSource
    <2>2. obn[job.module].text \in Source
      BY <1>1 DEF BuildInv, TypeOK, FilesTypeOK
    <2>3. job' \in Job /\ job'.at = "imports" /\ job'.module = job.module
      BY <1>1, <2>1, <2>2 DEF Job, JobStep
    <2> QED
      BY <2>3, NoJobAssumption
  <1>3. imp' \in Table(ImpFile)
    <2>1. [imports |-> {}, time |-> clock] \in ImpFile
      BY <1>1 DEF ImpFile
    <2>2. imp \in [Module -> Optional(ImpFile)] /\ job.module \in Module
      BY <1>1 DEF BuildInv, TypeOK, FilesTypeOK, Table
    <2>3. PICK file \in Optional(ImpFile) : imp' \in {imp, [imp EXCEPT ![job.module] = file]}
      BY <2>1 DEF OpenSource, Optional
    <2> QED
      BY <2>2, <2>3 DEF Table
  <1>4. FilesTypeOK'
    BY <1>3 DEF OpenSource, BuildInv, TypeOK, FilesTypeOK, written
  <1>5. TypeOK'
    BY <1>1, <1>2, <1>4 DEF BuildInv, TypeOK, buildVars
  <1>6. JobInv'
    BY <1>1, <1>2 DEF BuildInv, JobInv, buildVars, Current
  <1>7. TraversalInv'
    BY CompileStepTraversal DEF OpenSource
  <1> QED
    BY <1>5, <1>6, <1>7 DEF BuildInv

(* After the import list every import has been read: the symbol files were *)
(* there.                                                                  *)
LEMMA ImportListInv == BuildInv /\ RunObncCompile /\ ImportList => BuildInv'
  <1> SUFFICES ASSUME BuildInv, RunObncCompile, ImportList PROVE BuildInv'
    OBVIOUS
  <1>1. /\ pc = "obnc-compile" /\ pc' = pc /\ UNCHANGED buildVars
        /\ job \in Job /\ job.module \in Module /\ job.text \in Source
        /\ clock \in Time
    BY RunningJob
  <1> DEFINE syms == ImportedSymbols(job.text.imports)
  <1>a. \A i \in job.text.imports : syms[i] \in SUBSET Decl
    BY <1>1 DEF ImportList, ImportedSymbols, BuildInv, TypeOK, FilesTypeOK, Table,
                Optional, SymFile, Lines, Source
  <1>b. syms \in Table(SUBSET Decl)
    BY <1>a DEF ImportedSymbols, Table, Optional
  <1>2. /\ job' \in Job /\ job' /= NoJob /\ job'.at = "c"
        /\ job'.module = job.module /\ job'.text = job.text /\ job'.syms = syms
    <2>1. job' = [job EXCEPT !.at = "c", !.syms = syms]
      BY DEF ImportList
    <2>2. /\ job' \in Job /\ job'.at = "c" /\ job'.syms = syms
          /\ job'.module = job.module /\ job'.text = job.text
      BY <1>1, <1>b, <2>1 DEF Job, JobStep
    <2> QED
      BY <2>2, NoJobAssumption
  <1>3. imp' \in Table(ImpFile)
    <2>1. [imports |-> job.text.imports, time |-> clock] \in ImpFile
      BY <1>1 DEF ImpFile, Source
    <2> QED
      BY <1>1, <2>1 DEF ImportList, BuildInv, TypeOK, FilesTypeOK, Table, Optional
  <1>4. FilesTypeOK'
    BY <1>3 DEF ImportList, BuildInv, TypeOK, FilesTypeOK, written
  <1>5. TypeOK'
    BY <1>1, <1>2, <1>4 DEF BuildInv, TypeOK, buildVars
  <1>6. JobInv'
    <2>1. job /= NoJob /\ job.module = Current
      BY <1>1, NoJobAssumption DEF BuildInv, JobInv
    <2>2. pc' = "obnc-compile" /\ Current' = Current
      BY <1>1 DEF buildVars, Current
    <2>3. \A i \in job'.text.imports : job'.syms[i] \in SUBSET Decl
      BY <1>2, <1>a
    <2> QED
      BY <1>2, <2>1, <2>2, <2>3 DEF JobInv
  <1>7. TraversalInv'
    BY CompileStepTraversal DEF ImportList
  <1> QED
    BY <1>5, <1>6, <1>7 DEF BuildInv

(* The C file exists from here on.                                         *)
LEMMA CloseCFileInv == BuildInv /\ RunObncCompile /\ CloseCFile => BuildInv'
  <1> SUFFICES ASSUME BuildInv, RunObncCompile, CloseCFile PROVE BuildInv'
    OBVIOUS
  <1>1. /\ pc = "obnc-compile" /\ pc' = pc /\ UNCHANGED buildVars
        /\ job \in Job /\ job.module \in Module /\ job.module = Current
        /\ job.text \in Source /\ job.entry \in BOOLEAN /\ clock \in Time
    BY RunningJob
  <1>2. /\ job' \in Job /\ job' /= NoJob /\ job'.at = "h"
        /\ job'.module = job.module /\ job'.text = job.text /\ job'.syms = job.syms
    BY <1>1, GoToJob DEF CloseCFile, JobStep
  <1> DEFINE file == [text |-> job.text, entry |-> job.entry, syms |-> job.syms,
                      time |-> clock]
  <1>3. \A i \in job.text.imports : job.syms[i] \in SUBSET Decl
    BY <1>1 DEF CloseCFile, At, BuildInv, JobInv
  <1>4. job.syms \in Table(SUBSET Decl)
    BY <1>1 DEF Job
  <1>5. file \in GenFile
    BY <1>1, <1>4 DEF GenFile
  <1>6. file /= NoFile
    BY <1>5, NoFileAssumption
  <1>7. gen' = [gen EXCEPT ![Current] = file]
    BY <1>1 DEF CloseCFile
  <1>8. gen \in Table(GenFile)
    BY DEF BuildInv, TypeOK, FilesTypeOK
  <1>9. gen' \in Table(GenFile) /\ gen'[Current] = file
        /\ \A m \in Module : gen[m] /= NoFile => gen'[m] /= NoFile
    BY <1>1, <1>5, <1>6, <1>7, <1>8 DEF Table, Optional
  <1>10. FilesTypeOK'
    BY <1>9 DEF CloseCFile, BuildInv, TypeOK, FilesTypeOK, written
  <1>11. TypeOK'
    BY <1>1, <1>2, <1>10 DEF BuildInv, TypeOK, buildVars
  <1>12. JobInv'
    BY <1>1, <1>2, <1>3, <1>6, <1>9 DEF JobInv, buildVars, Current
  <1>13. TraversalInv'
    BY <1>9, CompileStepTraversal DEF CloseCFile
  <1> QED
    BY <1>11, <1>12, <1>13 DEF BuildInv

(* The header is written or removed, and the C file stays.                 *)
LEMMA CloseHeaderInv == BuildInv /\ RunObncCompile /\ CloseHeader => BuildInv'
  <1> SUFFICES ASSUME BuildInv, RunObncCompile, CloseHeader PROVE BuildInv'
    OBVIOUS
  <1>1. /\ pc = "obnc-compile" /\ pc' = pc /\ UNCHANGED buildVars
        /\ job \in Job /\ job.module \in Module /\ job.module = Current
        /\ job.text \in Source /\ clock \in Time
    BY RunningJob
  <1>2. /\ job' \in Job /\ job' /= NoJob /\ job'.at = "sym"
        /\ job'.module = job.module /\ job'.text = job.text /\ job'.syms = job.syms
    BY <1>1, GoToJob DEF CloseHeader, JobStep
  <1>3. hdr' \in Table(HdrFile)
    <2>1. [face |-> [exports |-> job.text.exports, mentions |-> Mentioned(job),
                     shape |-> job.text.shape, dir |-> dirName],
           time |-> clock] \in HdrFile
      BY <1>1 DEF HdrFile, Face, Source, Mentioned, BuildInv, TypeOK, FilesTypeOK
    <2> QED
      BY <1>1, <2>1 DEF CloseHeader, BuildInv, TypeOK, FilesTypeOK, Table, Optional
  <1>4. FilesTypeOK'
    BY <1>3 DEF CloseHeader, BuildInv, TypeOK, FilesTypeOK, written
  <1>5. TypeOK'
    BY <1>1, <1>2, <1>4 DEF BuildInv, TypeOK, buildVars
  <1>6. /\ gen[Current] /= NoFile
        /\ \A i \in job.text.imports : job.syms[i] \in SUBSET Decl
    BY <1>1 DEF CloseHeader, At, BuildInv, JobInv
  <1>7. JobInv'
    BY <1>1, <1>2, <1>6 DEF CloseHeader, JobInv, buildVars, Current
  <1>8. TraversalInv'
    BY CompileStepTraversal DEF CloseHeader
  <1> QED
    BY <1>5, <1>7, <1>8 DEF BuildInv

(* The symbol file is written or removed, and the C file stays.            *)
LEMMA ExportSymbolTableInv == BuildInv /\ RunObncCompile /\ ExportSymbolTable => BuildInv'
  <1> SUFFICES ASSUME BuildInv, RunObncCompile, ExportSymbolTable PROVE BuildInv'
    OBVIOUS
  <1>1. /\ pc = "obnc-compile" /\ pc' = pc /\ UNCHANGED buildVars
        /\ job \in Job /\ job.module \in Module /\ job.module = Current
        /\ job.text \in Source /\ clock \in Time
    BY RunningJob
  <1>2. /\ job' \in Job /\ job' /= NoJob /\ job'.at = "exit"
        /\ job'.module = job.module
    BY <1>1, GoToJob DEF ExportSymbolTable, JobStep
  <1>3. sym' \in Table(SymFile)
    <2>1. [exports |-> job.text.exports, mentions |-> Mentioned(job),
           time |-> clock] \in SymFile
      BY <1>1 DEF SymFile, Source, Mentioned
    <2> QED
      BY <1>1, <2>1 DEF ExportSymbolTable, BuildInv, TypeOK, FilesTypeOK, Table, Optional
  <1>4. FilesTypeOK'
    BY <1>3 DEF ExportSymbolTable, BuildInv, TypeOK, FilesTypeOK, written
  <1>5. TypeOK'
    BY <1>1, <1>2, <1>4 DEF BuildInv, TypeOK, buildVars
  <1>6. gen[Current] /= NoFile
    BY <1>1, NoJobAssumption DEF ExportSymbolTable, At, BuildInv, JobInv
  <1>7. JobInv'
    BY <1>1, <1>2, <1>6 DEF ExportSymbolTable, JobInv, buildVars, Current
  <1>8. TraversalInv'
    BY CompileStepTraversal DEF ExportSymbolTable
  <1> QED
    BY <1>5, <1>7, <1>8 DEF BuildInv

-----------------------------------------------------------------------------
(* Object code of a module with a C file is well formed.                   *)
LEMMA ObjectCodeType ==
    ASSUME BuildInv, NEW m \in Module, gen[m] /= NoFile
    PROVE  ObjectCode(m) \in Code
  <1>1. gen[m] \in GenFile
    BY DEF BuildInv, TypeOK, FilesTypeOK, Table, Optional
  <1>2. \A i \in Module : FaceOf(i) \in Optional(Face)
    BY DEF FaceOf, BuildInv, TypeOK, FilesTypeOK, Table, Optional, HdrFile
  <1>3. hand[m] \in Optional(Time) /\ env[m] \in Optional(Time)
    BY DEF BuildInv, TypeOK, FilesTypeOK, Table
  <1>4. [i \in Module |-> IF i \in gen[m].text.imports THEN FaceOf(i) ELSE NoFile]
            \in Table(Face)
    BY <1>2 DEF Table, Optional
  <1> QED
    BY <1>1, <1>2, <1>3, <1>4 DEF ObjectCode, Code, GenFile

(* The C compiler is run on an existing C file and leaves an object file.  *)
LEMMA CompileCInv == BuildInv /\ CompileC => BuildInv'
  <1> SUFFICES ASSUME BuildInv, CompileC PROVE BuildInv'
    OBVIOUS
  <1>1. Current \in Module /\ pc = "cc" /\ pc' = "dir"
    BY CurrentInModule DEF CompileC
  <1>2. gen[Current] /= NoFile
    BY <1>1 DEF BuildInv, TraversalInv
  <1> DEFINE file == [code |-> ObjectCode(Current), time |-> clock]
  <1>3. file \in ObjFile
    BY <1>1, <1>2, ObjectCodeType DEF ObjFile, BuildInv, TypeOK, FilesTypeOK
  <1>4. file /= NoFile
    BY <1>3, NoFileAssumption
  <1>5. obj' = [obj EXCEPT ![Current] = file] /\ obj \in Table(ObjFile)
    BY DEF CompileC, BuildInv, TypeOK, FilesTypeOK
  <1>6. /\ obj' \in Table(ObjFile) /\ obj'[Current] /= NoFile
        /\ \A m \in Module : obj[m] /= NoFile => obj'[m] /= NoFile
    BY <1>1, <1>3, <1>4, <1>5 DEF Table, Optional
  <1>7. FilesTypeOK'
    BY <1>6 DEF CompileC, BuildInv, TypeOK, FilesTypeOK, written
  <1>8. TypeOK'
    BY <1>7 DEF CompileC, BuildInv, TypeOK, PC, buildVars
  <1>9. JobInv'
    BY DEF CompileC, BuildInv, JobInv
  <1>10. TraversalInv'
    BY <1>1, <1>2, <1>6 DEF CompileC, BuildInv, TypeOK, TraversalInv, buildVars,
                            Current, Running, OnPath, Compiled
  <1> QED
    BY <1>8, <1>9, <1>10 DEF BuildInv

(* The directory name is written after the object file is up to date.      *)
LEMMA WriteDirFileInv == BuildInv /\ WriteDirFile => BuildInv'
  <1> SUFFICES ASSUME BuildInv, WriteDirFile PROVE BuildInv'
    OBVIOUS
  <1>1. Current \in Module
    BY CurrentInModule DEF WriteDirFile
  <1>2. dirFile' \in Table(DirName)
    BY <1>1 DEF WriteDirFile, BuildInv, TypeOK, FilesTypeOK, Table, Optional
  <1>3. FilesTypeOK'
    BY <1>2 DEF WriteDirFile, BuildInv, TypeOK, FilesTypeOK, written
  <1>4. TypeOK'
    BY <1>3 DEF WriteDirFile, BuildInv, TypeOK, PC, buildVars
  <1>5. JobInv' /\ TraversalInv'
    BY DEF WriteDirFile, BuildInv, JobInv, TraversalInv, buildVars,
           Current, Running, OnPath, Compiled
  <1> QED
    BY <1>4, <1>5 DEF BuildInv

(* The module left behind joins those that are compiled.                   *)
LEMMA CompareSymFilesInv == BuildInv /\ CompareSymFiles => BuildInv'
  <1> SUFFICES ASSUME BuildInv, CompareSymFiles PROVE BuildInv'
    OBVIOUS
  <1>1. /\ pc = "compare" /\ Current \in Module
        /\ path \in Seq(Module) /\ path /= <<>>
    BY CurrentInModule DEF CompareSymFiles
  <1>2. path' = Tail(path) /\ pc' = IF IsRoot THEN "link" ELSE "imports"
    BY DEF CompareSymFiles
  <1>3. bak' \in Table(SUBSET Decl) /\ changed' \subseteq Module
    BY <1>1 DEF CompareSymFiles, BuildInv, TypeOK, FilesTypeOK, Table, Optional
  <1>4. FilesTypeOK'
    BY <1>3 DEF CompareSymFiles, BuildInv, TypeOK, FilesTypeOK, written
  <1>5. path' \in Seq(Module) /\ (path' = <<>> <=> IsRoot)
    BY <1>1, <1>2, PathPop DEF IsRoot
  <1>6. TypeOK'
    BY <1>2, <1>3, <1>4, <1>5 DEF CompareSymFiles, BuildInv, TypeOK, PC
  <1>7. JobInv'
    BY <1>1, <1>2 DEF CompareSymFiles, BuildInv, JobInv
  <1>8. OnPath \subseteq OnPath' \union {Current}
    BY <1>1, <1>2, PathPop DEF OnPath, Current
  <1>9. Compiled(Current) /\ \A m \in discovered \ OnPath : Compiled(m)
    BY <1>1 DEF BuildInv, TraversalInv, Running
  <1>10. TraversalInv'
    BY <1>2, <1>5, <1>8, <1>9 DEF CompareSymFiles, TraversalInv, Running, Compiled
  <1> QED
    BY <1>6, <1>7, <1>10 DEF BuildInv

(* Every module discovered has something to link.                          *)
LEMMA CreateExecutableInv == BuildInv /\ CreateExecutable => BuildInv'
  <1> SUFFICES ASSUME BuildInv, CreateExecutable PROVE BuildInv'
    OBVIOUS
  <1>1. pc = "link" /\ path = <<>> /\ discovered \subseteq Module
    BY DEF CreateExecutable, BuildInv, TypeOK, TraversalInv
  <1>2. \A m \in discovered : Compiled(m)
    BY <1>1 DEF BuildInv, TraversalInv, Running, OnPath
  <1>3. \A m \in discovered : LinkInput(m) \in Code
    <2>1. TAKE m \in discovered
    <2>2. m \in Module /\ gen[m] /= NoFile /\ (unified \/ obj[m] /= NoFile)
      BY <1>1, <1>2 DEF Compiled
    <2>3. CASE unified
      BY <2>2, <2>3, ObjectCodeType DEF LinkInput
    <2>4. CASE ~unified
      BY <2>2, <2>4 DEF LinkInput, BuildInv, TypeOK, FilesTypeOK, Table, Optional, ObjFile
    <2> QED
      BY <2>3, <2>4
  <1> DEFINE code == [m \in Module |-> IF m \in discovered THEN LinkInput(m) ELSE NoFile]
  <1>4. code \in Table(Code)
    BY <1>3 DEF Table, Optional
  <1>5. [code |-> code, time |-> clock] \in ExeFile
    BY <1>4 DEF ExeFile, BuildInv, TypeOK, FilesTypeOK
  <1>6. exe' \in Table(ExeFile)
    BY <1>5, RootAssumption
       DEF CreateExecutable, BuildInv, TypeOK, FilesTypeOK, Table, Optional
  <1>7. FilesTypeOK'
    BY <1>6 DEF CreateExecutable, BuildInv, TypeOK, FilesTypeOK, written
  <1>8. TypeOK'
    BY <1>7 DEF CreateExecutable, BuildInv, TypeOK, PC, buildVars
  <1>9. JobInv' /\ TraversalInv'
    BY <1>1 DEF CreateExecutable, BuildInv, JobInv, TraversalInv, Running
  <1> QED
    BY <1>8, <1>9 DEF BuildInv

(* Keeping the executable changes no file.                                 *)
LEMMA ExecutableUpToDateInv == BuildInv /\ ExecutableUpToDate => BuildInv'
  <1> SUFFICES ASSUME BuildInv, ExecutableUpToDate PROVE BuildInv'
    OBVIOUS
  <1>1. FilesTypeOK'
    BY SameFiles DEF ExecutableUpToDate, BuildInv, TypeOK
  <1>2. TypeOK'
    BY <1>1 DEF ExecutableUpToDate, BuildInv, TypeOK, PC, buildVars
  <1>3. JobInv' /\ TraversalInv'
    BY DEF ExecutableUpToDate, BuildInv, JobInv, TraversalInv, Running
  <1> QED
    BY <1>2, <1>3 DEF BuildInv

-----------------------------------------------------------------------------
(* Every step keeps the invariant, one case for each action.               *)
LEMMA NextInv == BuildInv /\ [Next]_vars => BuildInv'
  <1> SUFFICES ASSUME BuildInv, [Next]_vars PROVE BuildInv'
    OBVIOUS
  <1>1. CASE Owner
    BY <1>1, OwnerInv
  <1>2. CASE Clock
    BY <1>2, ClockInv
  <1>3. ASSUME NEW r \in Root, NEW u \in Mode, Start(r, u) PROVE BuildInv'
    BY <1>3, StartInv
  <1>4. CASE Visit
    BY <1>4, VisitInv
  <1>5. CASE Descend
    BY <1>5, DescendInv
  <1>6. CASE ImportsDone
    BY <1>6, ImportsDoneInv
  <1>7. CASE UpdateObjectFile
    BY <1>7, UpdateObjectFileInv
  <1>8. CASE RunObncCompile
    BY <1>8, OpenSourceInv, ImportListInv, CloseCFileInv, CloseHeaderInv,
       ExportSymbolTableInv DEF RunObncCompile, CompileStep
  <1>9. CASE ObncCompileDone
    BY <1>9, ObncCompileDoneInv
  <1>10. CASE CompileC
    BY <1>10, CompileCInv
  <1>11. CASE WriteDirFile
    BY <1>11, WriteDirFileInv
  <1>12. CASE CompareSymFiles
    BY <1>12, CompareSymFilesInv
  <1>13. CASE CreateExecutable
    BY <1>13, CreateExecutableInv
  <1>14. CASE ExecutableUpToDate
    BY <1>14, ExecutableUpToDateInv
  <1>15. CASE BuildError \/ Interrupt
    BY <1>15, AbandonInv DEF BuildError, Interrupt
  <1>16. CASE UNCHANGED vars
    BY <1>16 DEF vars, fileVars, written, generated, buildVars, BuildInv, TypeOK,
                 FilesTypeOK, JobInv, TraversalInv, Current, Running, OnPath, Compiled
  <1> QED
    BY <1>1, <1>2, <1>3, <1>4, <1>5, <1>6, <1>7, <1>8, <1>9, <1>10, <1>11, <1>12,
       <1>13, <1>14, <1>15, <1>16 DEF Next, BuildStep

(* Every variable keeps its type, and every step finds the files it reads: *)
(* the symbol files while obnc-compile translates, the C file when it is   *)
(* compiled, something to link for every module.                           *)
THEOREM BuildInvariant == Spec => []BuildInv
  <1> QED
    BY InitInv, NextInv, PTL DEF Spec

(* No operation of obnc or obnc-compile takes a variable out of its type.  *)
COROLLARY TypeCorrect == Spec => []TypeOK
  <1>1. BuildInv => TypeOK
    BY DEF BuildInv
  <1> QED
    BY <1>1, BuildInvariant, PTL

-----------------------------------------------------------------------------
(* What obnc knows from the files.                                         *)

(* The owner respects the resolution of the times.                         *)
Orderly == "same second" \notin Disturbance /\ "concurrent edit" \notin Disturbance

(* A step that writes none of the files compared with a source, and starts *)
(* no obnc-compile, leaves them as fresh as they are.                      *)
LEMMA SameFresh ==
    ASSUME FreshFiles, UNCHANGED <<obn, imp, gen, hdr, sym>>,
           job' = job \/ job' = NoJob
    PROVE  FreshFiles'
  BY DEF FreshFiles, FreshFile

(* Nothing is generated at first.                                          *)
LEMMA InitFresh == Init => FreshFiles
  BY DEF Init, FilesInit, FreshFiles, FreshFile, Older

(* A saved source is younger than every file generated from it, so none of *)
(* them looks new enough, and no obnc-compile has read the text before.    *)
LEMMA OwnerFresh == Orderly /\ BuildInv /\ FreshFiles /\ Owner => FreshFiles'
  <1> SUFFICES ASSUME Orderly, BuildInv, FreshFiles, Owner PROVE FreshFiles'
    OBVIOUS
  <1>1. UNCHANGED <<imp, gen, hdr, sym, job>> /\ Aged
    BY DEF Owner, OwnerStep, generated
  <1>2. job = NoJob
    BY DEF Orderly, Owner, Running, BuildInv, JobInv
  <1>3. ASSUME NEW m \in Module, SaveSource(m) PROVE FreshFiles'
    <2>1. PICK text \in Draft[m] : obn' = [obn EXCEPT ![m] = [text |-> text, time |-> clock]]
      BY <1>3 DEF SaveSource
    <2>2. obn \in [Module -> [text : Source, time : Time]]
      BY DEF BuildInv, TypeOK, FilesTypeOK
    <2>3. obn'[m].time = clock /\ \A k \in Module \ {m} : obn'[k] = obn[k]
      BY <2>1, <2>2
    <2>4. /\ Older(gen[m], obn'[m].time) /\ Older(hdr[m], obn'[m].time)
          /\ Older(sym[m], obn'[m].time) /\ Older(imp[m], obn'[m].time)
      BY <1>1, <2>3 DEF Aged, Orderly
    <2>5. FreshFile(m)'
      BY <1>1, <2>4 DEF FreshFile
    <2>6. \A k \in Module \ {m} : FreshFile(k)'
      BY <1>1, <2>3 DEF FreshFiles, FreshFile
    <2> QED
      BY <1>1, <1>2, <2>5, <2>6 DEF FreshFiles
  <1>4. CASE UNCHANGED obn
    BY <1>1, <1>4, SameFresh
  <1> QED
    BY <1>3, <1>4 DEF Owner, OwnerStep, SaveC, RemoveC, SaveEnv, Rename

(* obnc-compile is started on the present text, and the symbol file it     *)
(* will write again is moved away.                                         *)
LEMMA UpdateObjectFileFresh == BuildInv /\ FreshFiles /\ UpdateObjectFile => FreshFiles'
  <1> SUFFICES ASSUME BuildInv, FreshFiles, UpdateObjectFile PROVE FreshFiles'
    OBVIOUS
  <1>1. Current \in Module /\ UNCHANGED <<obn, imp, gen, hdr>>
    BY CurrentInModule DEF UpdateObjectFile, written
  <1>2. CASE UNCHANGED <<sym, job>>
    BY <1>1, <1>2, SameFresh
  <1>3. CASE sym' = [sym EXCEPT ![Current] = NoFile] /\ job' = NewJob(Current, IsRoot)
    <2>1. job'.text = obn'[job'.module].text
      BY <1>1, <1>3 DEF NewJob
    <2>2. \A m \in Module : sym'[m] = sym[m] \/ sym'[m] = NoFile
      BY <1>1, <1>3 DEF BuildInv, TypeOK, FilesTypeOK, Table
    <2>3. \A m \in Module : FreshFile(m)'
      BY <1>1, <2>2 DEF FreshFiles, FreshFile, Older
    <2> QED
      BY <2>1, <2>3 DEF FreshFiles
  <1> QED
    BY <1>2, <1>3 DEF UpdateObjectFile

(* Each file that obnc-compile writes is made from the text it has read.   *)
LEMMA CompileFresh == BuildInv /\ FreshFiles /\ RunObncCompile => FreshFiles'
  <1> SUFFICES ASSUME BuildInv, FreshFiles, RunObncCompile PROVE FreshFiles'
    OBVIOUS
  <1> DEFINE m == job.module
  <1>1. job \in Job /\ m \in Module /\ job /= NoJob
    BY RunningJob, NoJobAssumption
  <1>2. job.text = obn[m].text
    BY <1>1 DEF FreshFiles
  <1>3. /\ imp \in Table(ImpFile) /\ gen \in Table(GenFile)
        /\ hdr \in Table(HdrFile) /\ sym \in Table(SymFile)
    BY DEF BuildInv, TypeOK, FilesTypeOK
  <1>4. UNCHANGED obn
    BY DEF RunObncCompile, CompileStep, OpenSource, ImportList, CloseCFile,
           CloseHeader, ExportSymbolTable, written
  <1>5. job'.text = obn'[job'.module].text
    BY <1>1, <1>2, <1>4 DEF RunObncCompile, CompileStep, OpenSource, ImportList, CloseCFile,
           CloseHeader, ExportSymbolTable, GoTo, Job
  <1>6. CASE OpenSource
    <2>1. UNCHANGED <<gen, hdr, sym>>
      BY <1>6 DEF OpenSource
    <2>2. \A k \in Module : \/ imp'[k] = imp[k] \/ imp'[k] = NoFile
                            \/ imp'[k] = [imports |-> {}, time |-> clock]
      BY <1>1, <1>3, <1>6 DEF OpenSource, Table
    <2>3. \A k \in Module : FreshFile(k)'
      BY <1>4, <2>1, <2>2 DEF FreshFiles, FreshFile, Older
    <2> QED
      BY <1>5, <2>3 DEF FreshFiles
  <1>7. CASE ImportList
    <2>1. UNCHANGED <<gen, hdr, sym>>
      BY <1>7 DEF ImportList
    <2>2. \A k \in Module : \/ imp'[k] = imp[k]
                            \/ k = m /\ imp'[k] = [imports |-> job.text.imports, time |-> clock]
      BY <1>1, <1>3, <1>7 DEF ImportList, Table
    <2>3. \A k \in Module : FreshFile(k)'
      BY <1>2, <1>4, <2>1, <2>2 DEF FreshFiles, FreshFile, Older
    <2> QED
      BY <1>5, <2>3 DEF FreshFiles
  <1>8. CASE CloseCFile
    <2>1. UNCHANGED <<imp, hdr, sym>>
      BY <1>8 DEF CloseCFile
    <2>2. \A k \in Module : gen'[k] = gen[k] \/ (k = m /\ gen'[k].text = job.text)
      BY <1>1, <1>3, <1>8 DEF CloseCFile, Table
    <2>3. \A k \in Module : FreshFile(k)'
      BY <1>2, <1>4, <2>1, <2>2 DEF FreshFiles, FreshFile, Older
    <2> QED
      BY <1>5, <2>3 DEF FreshFiles
  <1>9. CASE CloseHeader
    <2>1. UNCHANGED <<imp, gen, sym>>
      BY <1>9 DEF CloseHeader
    <2>2. \A k \in Module : \/ hdr'[k] = hdr[k] \/ hdr'[k] = NoFile
                            \/ /\ k = m
                               /\ hdr'[k].face.exports = job.text.exports
                               /\ hdr'[k].face.shape = job.text.shape
      BY <1>1, <1>3, <1>9 DEF CloseHeader, Table
    <2>3. \A k \in Module : FreshFile(k)'
      BY <1>2, <1>4, <2>1, <2>2 DEF FreshFiles, FreshFile, Older
    <2> QED
      BY <1>5, <2>3 DEF FreshFiles
  <1>10. CASE ExportSymbolTable
    <2>1. UNCHANGED <<imp, gen, hdr>>
      BY <1>10 DEF ExportSymbolTable
    <2>2. \A k \in Module : \/ sym'[k] = sym[k] \/ sym'[k] = NoFile
                            \/ k = m /\ sym'[k].exports = job.text.exports
      BY <1>1, <1>3, <1>10 DEF ExportSymbolTable, Table
    <2>3. \A k \in Module : FreshFile(k)'
      BY <1>2, <1>4, <2>1, <2>2 DEF FreshFiles, FreshFile, Older
    <2> QED
      BY <1>5, <2>3 DEF FreshFiles
  <1> QED
    BY <1>6, <1>7, <1>8, <1>9, <1>10 DEF RunObncCompile, CompileStep

(* Only the owner and obnc-compile write what FreshFiles is about.         *)
LEMMA NextFresh == Orderly /\ BuildInv /\ FreshFiles /\ [Next]_vars => FreshFiles'
  <1> SUFFICES ASSUME Orderly, BuildInv, FreshFiles, [Next]_vars PROVE FreshFiles'
    OBVIOUS
  <1>1. CASE Owner
    BY <1>1, OwnerFresh
  <1>2. CASE UpdateObjectFile
    BY <1>2, UpdateObjectFileFresh
  <1>3. CASE RunObncCompile
    BY <1>3, CompileFresh
  <1>4. CASE /\ UNCHANGED <<obn, imp, gen, hdr, sym>>
             /\ job' = job \/ job' = NoJob
    BY <1>4, SameFresh
  <1>5. CASE Clock
    BY <1>4, <1>5 DEF Clock, Tick, written, generated
  <1>6. ASSUME NEW r \in Root, NEW u \in Mode, Start(r, u) PROVE FreshFiles'
    BY <1>4, <1>6 DEF Start, fileVars, written, generated
  <1>7. CASE Visit \/ Descend \/ ImportsDone \/ ObncCompileDone
    BY <1>4, <1>7 DEF Visit, Descend, ImportsDone, ObncCompileDone, fileVars, written,
                      generated
  <1>8. CASE CompileC \/ WriteDirFile \/ CompareSymFiles
    BY <1>4, <1>8 DEF CompileC, WriteDirFile, CompareSymFiles, written
  <1>9. CASE CreateExecutable \/ ExecutableUpToDate
    BY <1>4, <1>9 DEF CreateExecutable, ExecutableUpToDate, fileVars, written, generated
  <1>10. CASE BuildError \/ Interrupt
    BY <1>4, <1>10 DEF BuildError, Interrupt, Abandon, fileVars, written, generated
  <1>11. CASE UNCHANGED vars
    BY <1>4, <1>11 DEF vars, fileVars, written, generated
  <1> QED
    BY <1>1, <1>2, <1>3, <1>5, <1>6, <1>7, <1>8, <1>9, <1>10, <1>11 DEF Next, BuildStep

(* A generated file that looks as new as its source is made from it, after *)
(* any number of builds stopped anywhere, when every edit is made between  *)
(* builds and in a later second than what the builds before it wrote.      *)
THEOREM NeverDeceived == ASSUME Orderly PROVE Spec => []FreshFiles
  <1>1. BuildInv /\ FreshFiles /\ [Next]_vars => (BuildInv /\ FreshFiles)'
    BY NextInv, NextFresh
  <1>2. Init => BuildInv /\ FreshFiles
    BY InitInv, InitFresh
  <1> QED
    BY <1>1, <1>2, PTL DEF Spec

-----------------------------------------------------------------------------
(* No build is stopped from outside. It may still end with an error.       *)
Undisturbed == Orderly /\ "interrupt" \notin Disturbance

(* The modules that the traversal has been through.                        *)
Finished == discovered \ OnPath
Closed(S) == \A m \in S : listed[m] \subseteq S

(* The traversal as a whole. For a module that is finished, the modules    *)
(* that were finished before it are a set that is closed under imports and *)
(* does not hold it.                                                       *)
PathInv ==
    /\ root \in discovered /\ OnPath \subseteq discovered
    /\ pc \in {"link", "done"} => path = <<>>
    /\ pc \notin {"link", "done"} => path /= <<>> /\ path[Len(path)] = root

ListedInv ==
    \A m \in discovered :
        (pc = "visit" /\ m = Current) \/ listed[m] = obn[m].text.imports

FinishedInv ==
    /\ pc \in {"update", "obnc-compile", "cc", "dir", "compare"} =>
          listed[Current] \subseteq Finished
    /\ Closed(Finished)
    /\ \A m \in Finished : \E S \in SUBSET Finished :
          Closed(S) /\ listed[m] \subseteq S /\ m \notin S

VisitedInv == pc /= "idle" => PathInv /\ ListedInv /\ FinishedInv

(* Symbol files are there when the traversal has left a module.            *)
SymbolFilesInv ==
    /\ pc /= "idle" => \A m \in Finished \ {root} : sym[m] /= NoFile
    /\ pc \in {"cc", "dir", "compare"} => IsRoot \/ sym[Current] /= NoFile
    /\ job /= NoJob => /\ job.entry <=> IsRoot
                       /\ job.at = "exit" => IsRoot \/ sym[Current] /= NoFile

(* An import file as new as the source has its import list, except for the *)
(* moment in which obnc-compile has created it.                            *)
ImportFileInv ==
    \A m \in Module :
        \/ Older(imp[m], obn[m].time)
        \/ imp[m].imports = obn[m].text.imports
        \/ At("imports") /\ job.module = m /\ ~job.entry

CycleInv == VisitedInv /\ SymbolFilesInv /\ ImportFileInv

-----------------------------------------------------------------------------
(* The last of a sequence is the same after a step at its head.            *)
LEMMA PushLast ==
    ASSUME NEW S, NEW s \in Seq(S), s /= <<>>, NEW i \in S
    PROVE  (<<i>> \o s)[Len(<<i>> \o s)] = s[Len(s)]
  <1>1. Len(s) \in Nat \ {0}
    BY EmptySeq
  <1>2. <<i>> \in Seq(S) /\ Len(<<i>>) = 1
    OBVIOUS
  <1>3. Len(<<i>> \o s) = Len(s) + 1
    BY <1>2
  <1> QED
    BY <1>1, <1>3, PathPush

LEMMA PopLast ==
    ASSUME NEW S, NEW s \in Seq(S), Tail(s) /= <<>>, s /= <<>>
    PROVE  Tail(s)[Len(Tail(s))] = s[Len(s)]
  <1>1. Len(s) \in Nat \ {0} /\ Len(Tail(s)) = Len(s) - 1 /\ Tail(s) \in Seq(S)
    BY EmptySeq
  <1>2. Len(Tail(s)) \in Nat \ {0}
    BY <1>1, EmptySeq
  <1> QED
    BY <1>1, <1>2

(* Entering a module adds it to the modules on the path.                   *)
LEMMA PushOnPath ==
    ASSUME path \in Seq(Module), path /= <<>>, NEW i \in Module, path' = <<i>> \o path
    PROVE  OnPath' = OnPath \union {i}
  <1>1. /\ Len(path') = Len(path) + 1 /\ path'[1] = i
        /\ \A k \in 1 .. Len(path) : path'[k + 1] = path[k]
        /\ Len(path) \in Nat \ {0}
    <2>1. <<i>> \in Seq(Module) /\ Len(<<i>>) = 1
      OBVIOUS
    <2> QED
      BY <2>1, PathPush, EmptySeq
  <1>2. ASSUME NEW k \in 1 .. Len(path') PROVE path'[k] \in OnPath \union {i}
    <2>1. k = 1 \/ (k - 1 \in 1 .. Len(path) /\ path'[k] = path[k - 1])
      BY <1>1
    <2> QED
      BY <1>1, <2>1 DEF OnPath
  <1>3. ASSUME NEW k \in 1 .. Len(path) PROVE path[k] \in OnPath'
    <2>1. k + 1 \in 1 .. Len(path') /\ path'[k + 1] = path[k]
      BY <1>1
    <2> QED
      BY <2>1 DEF OnPath
  <1>4. i \in OnPath'
    BY <1>1 DEF OnPath
  <1> QED
    BY <1>2, <1>3, <1>4 DEF OnPath

(* Leaving a module takes at most that one from the modules on the path.   *)
LEMMA PopOnPath ==
    ASSUME path \in Seq(Module), path /= <<>>, path' = Tail(path)
    PROVE  OnPath' \subseteq OnPath /\ OnPath \subseteq OnPath' \union {Current}
  <1>1. /\ Len(path) \in Nat \ {0} /\ Len(Tail(path)) = Len(path) - 1
        /\ \A k \in 1 .. Len(Tail(path)) : Tail(path)[k] = path[k + 1]
    BY EmptySeq
  <1>2. OnPath' \subseteq OnPath
    BY <1>1 DEF OnPath
  <1>3. OnPath \subseteq OnPath' \union {Current}
    BY PathPop DEF OnPath, Current
  <1> QED
    BY <1>2, <1>3

(* A build starts with its root on the path and nothing finished.          *)
LEMMA StartFinished ==
    ASSUME NEW r \in Root, NEW u \in Mode, Start(r, u)
    PROVE  OnPath' = {r} /\ Finished' = {}
  <1>1. path' = <<r>> /\ discovered' = {r}
    BY DEF Start
  <1>2. Len(path') = 1 /\ path'[1] = r
    BY <1>1
  <1>3. OnPath' = {r}
    BY <1>2 DEF OnPath
  <1> QED
    BY <1>1, <1>3 DEF Finished

(* While modules are on the path, the root is one of them.                 *)
LEMMA RootOnPath ==
    ASSUME BuildInv, VisitedInv, pc \notin {"idle", "link", "done"}
    PROVE  /\ root \in OnPath /\ Current \in OnPath
           /\ IsRoot => Current = root
  <1>1. path \in Seq(Module) /\ path /= <<>> /\ path[Len(path)] = root
    BY CurrentInModule DEF VisitedInv, PathInv
  <1>2. Len(path) \in Nat \ {0} /\ Head(path) = path[1]
    BY <1>1, EmptySeq
  <1> QED
    BY <1>1, <1>2 DEF OnPath, Current, IsRoot

-----------------------------------------------------------------------------
(* What the traversal knows depends on few variables.                      *)
LEMMA SameVisited ==
    ASSUME VisitedInv, UNCHANGED <<root, path, listed, discovered, obn>>,
           pc /= "visit" \/ pc' = "visit",
           pc' \in {"idle", pc} \/ pc' \in {"cc", "dir", "compare", "obnc-compile"},
           pc' \in {"cc", "dir", "compare", "obnc-compile"} =>
               pc \in {"update", "obnc-compile", "cc", "dir", "compare"}
    PROVE  VisitedInv'
  <1> SUFFICES ASSUME pc' /= "idle" PROVE (PathInv /\ ListedInv /\ FinishedInv)'
    BY DEF VisitedInv
  <1>1. pc /= "idle" /\ PathInv /\ ListedInv /\ FinishedInv
    BY DEF VisitedInv
  <1>2. UNCHANGED <<OnPath, Finished, Current>>
    BY DEF OnPath, Finished, Current
  <1>3. PathInv'
    BY <1>1, <1>2 DEF PathInv
  <1>4. ListedInv'
    BY <1>1, <1>2 DEF ListedInv
  <1>5. FinishedInv'
    BY <1>1, <1>2 DEF FinishedInv, Closed
  <1> QED
    BY <1>3, <1>4, <1>5

LEMMA InitCycle == Init => CycleInv
  BY DEF Init, FilesInit, CycleInv, VisitedInv, SymbolFilesInv, ImportFileInv, Older

(* A saved source is younger than its import file; no build is running.    *)
LEMMA OwnerCycle == Orderly /\ BuildInv /\ CycleInv /\ Owner => CycleInv'
  <1> SUFFICES ASSUME Orderly, BuildInv, CycleInv, Owner PROVE CycleInv'
    OBVIOUS
  <1>1. UNCHANGED <<imp, job>> /\ Aged /\ pc' = "idle"
    BY DEF Owner, OwnerStep, generated, Orderly, Running
  <1>2. job = NoJob
    BY DEF Orderly, Owner, Running, BuildInv, JobInv
  <1>3. VisitedInv' /\ SymbolFilesInv'
    BY <1>1, <1>2 DEF VisitedInv, SymbolFilesInv
  <1>4. ASSUME NEW k \in Module
        PROVE  obn'[k] = obn[k] \/ Older(imp[k], obn'[k].time)
    <2>1. CASE UNCHANGED obn
      BY <2>1
    <2>2. ASSUME NEW m \in Module, SaveSource(m)
          PROVE  obn'[k] = obn[k] \/ Older(imp[k], obn'[k].time)
      <3>1. PICK text \in Draft[m] : obn' = [obn EXCEPT ![m] = [text |-> text, time |-> clock]]
        BY <2>2 DEF SaveSource
      <3>2. obn \in [Module -> [text : Source, time : Time]]
        BY DEF BuildInv, TypeOK, FilesTypeOK
      <3>3. obn'[k] = obn[k] \/ obn'[k].time = clock
        BY <3>1, <3>2
      <3> QED
        BY <1>1, <3>3 DEF Aged, Orderly
    <2> QED
      BY <2>1, <2>2 DEF Owner, OwnerStep, SaveC, RemoveC, SaveEnv, Rename
  <1>5. ImportFileInv'
    BY <1>1, <1>2, <1>4 DEF CycleInv, ImportFileInv, At
  <1> QED
    BY <1>3, <1>5 DEF CycleInv

LEMMA ClockCycle == BuildInv /\ CycleInv /\ Clock => CycleInv'
  <1> SUFFICES ASSUME BuildInv, CycleInv, Clock PROVE CycleInv'
    OBVIOUS
  <1>1. UNCHANGED <<written, generated, job, pc, buildVars>>
    BY DEF Clock, Tick
  <1> QED
    BY <1>1 DEF CycleInv, VisitedInv, PathInv, ListedInv, FinishedInv, Finished, Closed, OnPath,
                Current, SymbolFilesInv, IsRoot, ImportFileInv, At, written, generated, buildVars

(* The root is the first module met, and nothing is finished.              *)
LEMMA StartCycle ==
    ASSUME BuildInv, CycleInv, NEW r \in Root, NEW u \in Mode, Start(r, u)
    PROVE  CycleInv'
  <1>1. /\ pc' = "visit" /\ root' = r /\ path' = <<r>> /\ discovered' = {r}
        /\ UNCHANGED <<fileVars, job>>
    BY DEF Start
  <1>2. job = NoJob
    BY DEF Start, Running, BuildInv, JobInv
  <1>3. Len(path') = 1 /\ path'[1] = r /\ Head(path') = r /\ path' /= <<>>
    BY <1>1
  <1>4. OnPath' = {r}
    BY StartFinished
  <1>5. Finished' = {}
    BY StartFinished
  <1>6. VisitedInv'
    BY <1>1, <1>3, <1>4, <1>5
       DEF VisitedInv, PathInv, ListedInv, FinishedInv, Closed, Current
  <1>7. SymbolFilesInv' /\ ImportFileInv'
    BY <1>1, <1>2, <1>5 DEF CycleInv, SymbolFilesInv, ImportFileInv, At, fileVars, written, generated
  <1> QED
    BY <1>6, <1>7 DEF CycleInv

(* No obnc-compile is stopped behind the creation of an import file.       *)
LEMMA AbandonCycle == CycleInv /\ Abandon /\ ~At("imports") => CycleInv'
  BY DEF CycleInv, Abandon, VisitedInv, SymbolFilesInv, ImportFileInv, At, fileVars, written,
         generated

(* A module's import list is read from a true import file or the source.   *)
LEMMA VisitCycle == BuildInv /\ CycleInv /\ Visit => CycleInv'
  <1> SUFFICES ASSUME BuildInv, CycleInv, Visit PROVE CycleInv'
    OBVIOUS
  <1>1. /\ pc = "visit" /\ pc' = "imports" /\ Current \in Module
        /\ UNCHANGED <<fileVars, job, root, path, discovered>>
        /\ listed' = [listed EXCEPT ![Current] = ImportedFiles(Current)]
    BY CurrentInModule DEF Visit
  <1>2. job = NoJob
    BY <1>1 DEF BuildInv, JobInv
  <1>3. ImportedFiles(Current) = obn[Current].text.imports
    <2>1. \/ Older(imp[Current], obn[Current].time)
          \/ imp[Current].imports = obn[Current].text.imports
      BY <1>1, <1>2 DEF CycleInv, ImportFileInv, At
    <2>2. imp[Current] \in Optional(ImpFile) /\ obn[Current].time \in Int
      BY <1>1 DEF BuildInv, TypeOK, FilesTypeOK, Table, Time
    <2>3. imp[Current] /= NoFile => imp[Current].time \in Int
      BY <2>2 DEF Optional, ImpFile, Time
    <2> QED
      BY <2>1, <2>2, <2>3 DEF ImportedFiles, Older
  <1>4. /\ listed'[Current] = obn[Current].text.imports
        /\ \A m \in Module \ {Current} : listed'[m] = listed[m]
    BY <1>1, <1>3 DEF BuildInv, TypeOK
  <1>5. PathInv /\ ListedInv /\ FinishedInv /\ Current \in OnPath /\ discovered \subseteq Module
    BY <1>1, RootOnPath DEF CycleInv, VisitedInv, BuildInv, TypeOK
  <1>6. UNCHANGED <<OnPath, Finished, Current, IsRoot, obn, sym, imp>> /\ Current \notin Finished
    BY <1>1, <1>5 DEF OnPath, Finished, Current, IsRoot, fileVars, written, generated
  <1>7. PathInv' /\ ListedInv'
    BY <1>1, <1>4, <1>5, <1>6 DEF PathInv, ListedInv
  <1>8. \A m \in Finished : listed'[m] = listed[m]
    BY <1>4, <1>5, <1>6 DEF Finished
  <1>9. FinishedInv'
    BY <1>1, <1>5, <1>6, <1>8 DEF FinishedInv, Closed
  <1>10. SymbolFilesInv' /\ ImportFileInv'
    BY <1>1, <1>2, <1>6 DEF CycleInv, SymbolFilesInv, ImportFileInv, At
  <1> QED
    BY <1>1, <1>7, <1>9, <1>10 DEF CycleInv, VisitedInv

(* An import that is met joins the path and the modules discovered.        *)
LEMMA DescendCycle == BuildInv /\ CycleInv /\ Descend => CycleInv'
  <1> SUFFICES ASSUME BuildInv, CycleInv, Descend PROVE CycleInv'
    OBVIOUS
  <1>1. /\ pc = "imports" /\ pc' = "visit" /\ path \in Seq(Module) /\ path /= <<>>
        /\ UNCHANGED <<fileVars, job, root, listed>>
    BY CurrentInModule DEF Descend
  <1>2. PICK i \in listed[Current] \ discovered :
            path' = <<i>> \o path /\ discovered' = discovered \union {i}
    BY DEF Descend
  <1>3. i \in Module
    BY <1>1, <1>2, CurrentInModule DEF BuildInv, TypeOK
  <1>4. job = NoJob
    BY <1>1 DEF BuildInv, JobInv
  <1>5. PathInv /\ ListedInv /\ FinishedInv
    BY <1>1 DEF CycleInv, VisitedInv
  <1>6. path' /= <<>> /\ Head(path') = i
    BY <1>1, <1>2, <1>3, PathPush
  <1>7. OnPath' = OnPath \union {i}
    BY <1>1, <1>2, <1>3, PushOnPath
  <1>8. UNCHANGED Finished
    BY <1>2, <1>7 DEF Finished
  <1>9. path'[Len(path')] = root'
    BY <1>1, <1>2, <1>3, <1>5, PushLast DEF PathInv
  <1>10. PathInv'
    BY <1>1, <1>2, <1>5, <1>6, <1>7, <1>9 DEF PathInv
  <1>11. Current' = i /\ UNCHANGED obn
    BY <1>1, <1>6 DEF Current, fileVars, written
  <1>12. ListedInv'
    BY <1>1, <1>2, <1>5, <1>11 DEF ListedInv
  <1>13. FinishedInv'
    BY <1>1, <1>5, <1>8 DEF FinishedInv, Closed
  <1>14. SymbolFilesInv' /\ ImportFileInv'
    BY <1>1, <1>4, <1>8
       DEF CycleInv, SymbolFilesInv, ImportFileInv, At, fileVars, written, generated
  <1> QED
    BY <1>10, <1>12, <1>13, <1>14 DEF CycleInv, VisitedInv

(* All imports are discovered and none is on the path: they are finished.  *)
LEMMA ImportsDoneCycle == BuildInv /\ CycleInv /\ ImportsDone => CycleInv'
  <1> SUFFICES ASSUME BuildInv, CycleInv, ImportsDone PROVE CycleInv'
    OBVIOUS
  <1>1. pc = "imports" /\ pc' = "update" /\ UNCHANGED <<fileVars, job, buildVars>>
    BY DEF ImportsDone
  <1>2. job = NoJob
    BY <1>1 DEF BuildInv, JobInv
  <1>3. PathInv /\ ListedInv /\ FinishedInv
    BY <1>1 DEF CycleInv, VisitedInv
  <1>4. UNCHANGED <<OnPath, Finished, Current, IsRoot, obn, sym, imp, root, path, listed, discovered>>
    BY <1>1 DEF OnPath, Finished, Current, IsRoot, fileVars, written, generated, buildVars
  <1>5. listed[Current] \subseteq Finished
    BY <1>1 DEF ImportsDone, ImportCycle, Finished
  <1>6. PathInv' /\ ListedInv' /\ FinishedInv'
    BY <1>1, <1>3, <1>4, <1>5 DEF PathInv, ListedInv, FinishedInv, Closed
  <1>7. SymbolFilesInv' /\ ImportFileInv'
    BY <1>1, <1>2, <1>4 DEF CycleInv, SymbolFilesInv, ImportFileInv, At
  <1> QED
    BY <1>6, <1>7 DEF CycleInv, VisitedInv

(* The symbol file that is moved away is that of a module on the path.     *)
LEMMA UpdateObjectFileCycle == BuildInv /\ CycleInv /\ UpdateObjectFile => CycleInv'
  <1> SUFFICES ASSUME BuildInv, CycleInv, UpdateObjectFile PROVE CycleInv'
    OBVIOUS
  <1>1. /\ pc = "update" /\ Current \in Module
        /\ UNCHANGED <<obn, imp, root, path, listed, discovered>>
    BY CurrentInModule DEF UpdateObjectFile, written, buildVars
  <1>2. job = NoJob
    BY <1>1 DEF BuildInv, JobInv
  <1>3. VisitedInv'
    BY <1>1, SameVisited DEF CycleInv, UpdateObjectFile
  <1>4. UNCHANGED <<OnPath, Finished, Current, IsRoot>> /\ Current \in OnPath
    BY <1>1, RootOnPath DEF CycleInv, OnPath, Finished, Current, IsRoot
  <1>5. \A m \in Finished \ {root} : sym[m] /= NoFile
    BY <1>1 DEF CycleInv, SymbolFilesInv
  <1>6. CASE /\ sym' = [sym EXCEPT ![Current] = NoFile]
             /\ job' = NewJob(Current, IsRoot) /\ pc' = "obnc-compile"
    <2>1. \A m \in Finished : m \in Module /\ sym'[m] = sym[m]
      BY <1>4, <1>6 DEF Finished, BuildInv, TypeOK, FilesTypeOK, Table
    <2>2. job'.entry = IsRoot /\ job'.at = "open"
      BY <1>6 DEF NewJob
    <2>3. SymbolFilesInv'
      BY <1>1, <1>4, <1>5, <1>6, <2>1, <2>2 DEF SymbolFilesInv
    <2>4. ImportFileInv'
      BY <1>1, <1>2 DEF CycleInv, ImportFileInv, At
    <2> QED
      BY <1>3, <2>3, <2>4 DEF CycleInv
  <1>7. CASE /\ ~OberonCompilationNeeded(Current, Stale(Current), IsRoot)
             /\ pc' \in {"cc", "dir"} /\ UNCHANGED <<sym, job>>
    <2>1. IsRoot \/ sym[Current] /= NoFile
      BY <1>7 DEF OberonCompilationNeeded, Older
    <2>2. SymbolFilesInv'
      BY <1>1, <1>2, <1>4, <1>5, <1>7, <2>1 DEF SymbolFilesInv
    <2>3. ImportFileInv'
      BY <1>1, <1>7 DEF CycleInv, ImportFileInv, At
    <2> QED
      BY <1>3, <2>2, <2>3 DEF CycleInv
  <1> QED
    BY <1>6, <1>7 DEF UpdateObjectFile

(* obnc-compile reads the symbol files of finished modules only: none is   *)
(* missing.                                                                *)
LEMMA SymbolFilesThere ==
    ASSUME BuildInv, FreshFiles, CycleInv, pc = "obnc-compile"
    PROVE  ~SymbolFileNotFound
  <1> SUFFICES ASSUME At("imports"), NEW i \in job.text.imports PROVE sym[i] /= NoFile
    BY DEF SymbolFileNotFound
  <1>1. job /= NoJob /\ job.module = Current /\ job.text = obn[Current].text
    BY DEF At, BuildInv, JobInv, FreshFiles
  <1>2. PathInv /\ ListedInv /\ FinishedInv /\ Current \in OnPath /\ root \in OnPath
    BY RootOnPath DEF CycleInv, VisitedInv
  <1>3. listed[Current] = obn[Current].text.imports /\ listed[Current] \subseteq Finished
    BY <1>2 DEF PathInv, ListedInv, FinishedInv
  <1>4. i \in Finished \ {root}
    BY <1>1, <1>2, <1>3 DEF Finished
  <1> QED
    BY <1>4 DEF CycleInv, SymbolFilesInv

(* A running obnc-compile goes on until it is at its exit.                 *)
LEMMA RunObncCompileKeeps == BuildInv /\ RunObncCompile => job' /= NoJob
  <1> SUFFICES ASSUME BuildInv, RunObncCompile PROVE job' /= NoJob
    OBVIOUS
  <1>1. BuildInv'
    BY OpenSourceInv, ImportListInv, CloseCFileInv, CloseHeaderInv, ExportSymbolTableInv
       DEF RunObncCompile, CompileStep
  <1>2. pc' = "obnc-compile"
    BY RunningJob
  <1> QED
    BY <1>1, <1>2 DEF BuildInv, JobInv

(* The symbol file of an import that obnc-compile has translated is there. *)
LEMMA ExportedFile ==
    ASSUME BuildInv, RunObncCompile, ExportSymbolTable, ~job.entry
    PROVE  sym'[job.module] /= NoFile
  <1> DEFINE file == [exports |-> job.text.exports, mentions |-> Mentioned(job),
                      time |-> clock]
  <1>1. job.text \in Source /\ job.module \in Module /\ clock \in Time
    BY RunningJob
  <1>2. file \in SymFile
    BY <1>1 DEF SymFile, Source, Mentioned
  <1>3. sym' = [sym EXCEPT ![job.module] = file] /\ sym \in Table(SymFile)
    BY DEF ExportSymbolTable, BuildInv, TypeOK, FilesTypeOK
  <1>4. sym'[job.module] = file
    BY <1>1, <1>3 DEF Table
  <1> QED
    BY <1>2, <1>4, NoFileAssumption

(* obnc-compile fills the import file that it has created, and writes the  *)
(* symbol file of an import.                                               *)
LEMMA RunObncCompileCycle ==
    BuildInv /\ FreshFiles /\ CycleInv /\ RunObncCompile => CycleInv'
  <1> SUFFICES ASSUME BuildInv, FreshFiles, CycleInv, RunObncCompile PROVE CycleInv'
    OBVIOUS
  <1> DEFINE m == job.module
  <1>1. /\ pc = "obnc-compile" /\ job \in Job /\ job /= NoJob /\ job' /= NoJob
        /\ m = Current /\ m \in Module
        /\ UNCHANGED <<obn, pc, root, path, listed, discovered>>
    <2>1. pc = "obnc-compile" /\ UNCHANGED <<pc, root, path, listed, discovered>>
      BY DEF RunObncCompile, buildVars
    <2>2. UNCHANGED obn
      BY DEF RunObncCompile, CompileStep, OpenSource, ImportList, CloseCFile, CloseHeader,
             ExportSymbolTable, written
    <2>3. job' /= NoJob
      BY <2>1, RunObncCompileKeeps
    <2> QED
      BY <2>1, <2>2, <2>3, RunningJob, NoJobAssumption DEF BuildInv, JobInv
  <1>2. VisitedInv'
    BY <1>1, SameVisited DEF CycleInv
  <1>3. /\ UNCHANGED <<OnPath, Finished, Current, IsRoot>>
        /\ Current \in OnPath
    BY <1>1, RootOnPath DEF CycleInv, OnPath, Finished, Current, IsRoot
  <1>4. /\ \A k \in Finished \ {root} : sym[k] /= NoFile
        /\ job.entry <=> IsRoot
    BY <1>1 DEF CycleInv, SymbolFilesInv
  <1>5. job.text = obn[m].text
    BY <1>1 DEF FreshFiles
  <1>6. imp \in Table(ImpFile) /\ sym \in Table(SymFile)
    BY DEF BuildInv, TypeOK, FilesTypeOK
  <1>7. job'.entry = job.entry /\ job'.module = job.module
    BY <1>1 DEF RunObncCompile, CompileStep, OpenSource, ImportList, CloseCFile, CloseHeader,
                ExportSymbolTable, GoTo, Job
  <1>8. CASE OpenSource
    <2>1. job'.at = "imports" /\ UNCHANGED sym
      BY <1>1, <1>8 DEF OpenSource, Job
    <2>2. SymbolFilesInv'
      BY <1>1, <1>3, <1>4, <1>7, <2>1 DEF SymbolFilesInv
    <2>3. \A k \in Module \ {m} : imp'[k] = imp[k]
      BY <1>1, <1>6, <1>8 DEF OpenSource, Table
    <2>4. job.entry => imp'[m] = NoFile
      BY <1>1, <1>6, <1>8 DEF OpenSource, Table
    <2>5. ImportFileInv'
      BY <1>1, <1>7, <2>1, <2>3, <2>4 DEF CycleInv, ImportFileInv, At, Older
    <2> QED
      BY <1>2, <2>2, <2>5 DEF CycleInv
  <1>9. CASE ImportList
    <2>1. job'.at = "c" /\ UNCHANGED sym
      BY <1>1, <1>9 DEF ImportList, Job
    <2>2. SymbolFilesInv'
      BY <1>1, <1>3, <1>4, <1>7, <2>1 DEF SymbolFilesInv
    <2>3. \A k \in Module \ {m} : imp'[k] = imp[k]
      BY <1>1, <1>6, <1>9 DEF ImportList, Table
    <2>4. \A k \in Module : \/ Older(imp[k], obn[k].time)
                            \/ imp[k].imports = obn[k].text.imports
                            \/ k = m /\ ~job.entry
      BY DEF CycleInv, ImportFileInv
    <2>5. \/ Older(imp'[m], obn[m].time)
          \/ imp'[m].imports = obn[m].text.imports
      <3>1. CASE job.entry
        <4>1. UNCHANGED imp
          BY <1>9, <3>1 DEF ImportList
        <4> QED
          BY <1>1, <2>4, <3>1, <4>1
      <3>2. CASE ~job.entry /\ job.text.imports /= {}
        <4>1. imp' = [imp EXCEPT ![m] = [imports |-> job.text.imports, time |-> clock]]
          BY <1>9, <3>2 DEF ImportList
        <4> QED
          BY <1>1, <1>5, <1>6, <4>1 DEF Table
      <3>3. CASE job.text.imports = {}
        <4>1. UNCHANGED imp
          BY <1>9, <3>3 DEF ImportList
        <4>2. ~Older(imp[m], obn[m].time) => imp[m].imports \in {obn[m].text.imports, {}}
          BY <1>1 DEF FreshFiles, FreshFile
        <4> QED
          BY <1>5, <3>3, <4>1, <4>2
      <3> QED
        BY <3>1, <3>2, <3>3
    <2>6. ImportFileInv'
      <3>1. \A k \in Module : \/ Older(imp'[k], obn'[k].time)
                              \/ imp'[k].imports = obn'[k].text.imports
        BY <1>1, <2>3, <2>4, <2>5 DEF Older
      <3> QED
        BY <3>1 DEF ImportFileInv, Older
    <2> QED
      BY <1>2, <2>2, <2>6 DEF CycleInv
  <1>10. CASE CloseCFile \/ CloseHeader
    <2>1. job'.at \in {"h", "sym"} /\ job.at \in {"c", "h"} /\ UNCHANGED <<sym, imp>>
      BY <1>1, <1>10 DEF CloseCFile, CloseHeader, GoTo, At, Job
    <2>2. SymbolFilesInv'
      BY <1>1, <1>3, <1>4, <1>7, <2>1 DEF SymbolFilesInv
    <2>3. ImportFileInv'
      BY <1>1, <2>1 DEF CycleInv, ImportFileInv, At
    <2> QED
      BY <1>2, <2>2, <2>3 DEF CycleInv
  <1>11. CASE ExportSymbolTable
    <2>1. job'.at = "exit" /\ job.at = "sym" /\ UNCHANGED imp
      BY <1>1, <1>11 DEF ExportSymbolTable, GoTo, At, Job
    <2>2. \A k \in Module \ {m} : sym'[k] = sym[k]
      BY <1>1, <1>6, <1>11 DEF ExportSymbolTable, Table
    <2>3. IsRoot \/ sym'[m] /= NoFile
      BY <1>1, <1>4, <1>11, ExportedFile DEF ExportSymbolTable
    <2>4. \A k \in Finished : k \in Module \ {m}
      BY <1>1, <1>3 DEF Finished, BuildInv, TypeOK
    <2>5. SymbolFilesInv'
      BY <1>1, <1>3, <1>4, <1>7, <2>1, <2>2, <2>3, <2>4 DEF SymbolFilesInv
    <2>6. ImportFileInv'
      BY <1>1, <2>1 DEF CycleInv, ImportFileInv, At
    <2> QED
      BY <1>2, <2>5, <2>6 DEF CycleInv
  <1> QED
    BY <1>8, <1>9, <1>10, <1>11 DEF RunObncCompile, CompileStep

(* The symbol file is there when obnc-compile has ended.                   *)
LEMMA ObncCompileDoneCycle == BuildInv /\ CycleInv /\ ObncCompileDone => CycleInv'
  <1> SUFFICES ASSUME BuildInv, CycleInv, ObncCompileDone PROVE CycleInv'
    OBVIOUS
  <1>1. /\ pc = "obnc-compile" /\ pc' \in {"cc", "dir"} /\ At("exit") /\ job' = NoJob
        /\ UNCHANGED <<obn, imp, sym, root, path, listed, discovered>>
    BY DEF ObncCompileDone, fileVars, written, generated, buildVars
  <1>2. VisitedInv'
    BY <1>1, SameVisited DEF CycleInv
  <1>3. UNCHANGED <<OnPath, Finished, Current, IsRoot>>
    BY <1>1 DEF OnPath, Finished, Current, IsRoot
  <1>4. SymbolFilesInv' /\ ImportFileInv'
    BY <1>1, <1>3 DEF CycleInv, SymbolFilesInv, ImportFileInv, At
  <1> QED
    BY <1>2, <1>4 DEF CycleInv

(* Neither the C compiler nor the directory name changes what is known.    *)
LEMMA CompileCCycle == BuildInv /\ CycleInv /\ (CompileC \/ WriteDirFile) => CycleInv'
  <1> SUFFICES ASSUME BuildInv, CycleInv, CompileC \/ WriteDirFile PROVE CycleInv'
    OBVIOUS
  <1>1. /\ pc \in {"cc", "dir"} /\ pc' \in {"dir", "compare"}
        /\ UNCHANGED <<obn, imp, sym, job, root, path, listed, discovered>>
    BY DEF CompileC, WriteDirFile, written, buildVars
  <1>2. VisitedInv'
    BY <1>1, SameVisited DEF CycleInv
  <1>3. UNCHANGED <<OnPath, Finished, Current, IsRoot>>
    BY <1>1 DEF OnPath, Finished, Current, IsRoot
  <1>4. SymbolFilesInv' /\ ImportFileInv'
    BY <1>1, <1>3 DEF CycleInv, SymbolFilesInv, ImportFileInv, At
  <1> QED
    BY <1>2, <1>4 DEF CycleInv

(* The module left behind is finished, after all of its imports.           *)
LEMMA CompareSymFilesCycle == BuildInv /\ CycleInv /\ CompareSymFiles => CycleInv'
  <1> SUFFICES ASSUME BuildInv, CycleInv, CompareSymFiles PROVE CycleInv'
    OBVIOUS
  <1>1. /\ pc = "compare" /\ path \in Seq(Module) /\ path /= <<>> /\ path' = Tail(path)
        /\ pc' = IF IsRoot THEN "link" ELSE "imports"
        /\ UNCHANGED <<obn, imp, sym, job, root, listed, discovered>>
    BY CurrentInModule DEF CompareSymFiles, written
  <1>2. job = NoJob
    BY <1>1 DEF BuildInv, JobInv
  <1>3. PathInv /\ ListedInv /\ FinishedInv
    BY <1>1 DEF CycleInv, VisitedInv
  <1>4. /\ Current \in OnPath /\ root \in OnPath /\ (IsRoot => Current = root)
    BY <1>1, RootOnPath DEF CycleInv
  <1>5. /\ path' \in Seq(Module) /\ (path' = <<>> <=> IsRoot)
        /\ OnPath' \subseteq OnPath /\ OnPath \subseteq OnPath' \union {Current}
    BY <1>1, PathPop, PopOnPath DEF IsRoot
  <1>6. PathInv'
    BY <1>1, <1>3, <1>5, PopLast DEF PathInv
  <1>7. ListedInv'
    BY <1>1, <1>3 DEF ListedInv
  <1>8. /\ Finished \subseteq Finished' /\ Finished' \subseteq Finished \union {Current}
        /\ listed[Current] \subseteq Finished /\ Current \notin Finished
    BY <1>1, <1>3, <1>4, <1>5 DEF Finished, FinishedInv
  <1>9. FinishedInv'
    <2>1. Closed(Finished)'
      BY <1>1, <1>3, <1>8 DEF FinishedInv, Closed
    <2>2. ASSUME NEW m \in Finished'
          PROVE  \E S \in SUBSET Finished' :
                     Closed(S)' /\ listed'[m] \subseteq S /\ m \notin S
      <3>1. CASE m \in Finished
        <4>1. PICK S \in SUBSET Finished : Closed(S) /\ listed[m] \subseteq S /\ m \notin S
          BY <1>3, <3>1 DEF FinishedInv
        <4> QED
          BY <1>1, <1>8, <4>1 DEF Closed
      <3>2. CASE m = Current
        BY <1>1, <1>3, <1>8, <3>2 DEF FinishedInv, Closed
      <3> QED
        BY <1>8, <2>2, <3>1, <3>2
    <2> QED
      BY <1>1, <2>1, <2>2 DEF FinishedInv
  <1>10. SymbolFilesInv' /\ ImportFileInv'
    BY <1>1, <1>2, <1>4, <1>8 DEF CycleInv, SymbolFilesInv, ImportFileInv, At
  <1> QED
    BY <1>6, <1>7, <1>9, <1>10 DEF CycleInv, VisitedInv

(* Linking ends the build with an empty path.                              *)
LEMMA LinkCycle ==
    BuildInv /\ CycleInv /\ (CreateExecutable \/ ExecutableUpToDate) => CycleInv'
  <1> SUFFICES ASSUME BuildInv, CycleInv, CreateExecutable \/ ExecutableUpToDate
               PROVE  CycleInv'
    OBVIOUS
  <1>1. /\ pc = "link" /\ pc' = "done"
        /\ UNCHANGED <<obn, imp, sym, job, root, path, listed, discovered>>
    BY DEF CreateExecutable, ExecutableUpToDate, fileVars, written, generated, buildVars
  <1>2. UNCHANGED <<OnPath, Finished, Current, IsRoot>>
    BY <1>1 DEF OnPath, Finished, Current, IsRoot
  <1> QED
    BY <1>1, <1>2 DEF CycleInv, VisitedInv, PathInv, ListedInv, FinishedInv, Closed,
                      SymbolFilesInv, ImportFileInv, At

(* An error found by obnc leaves no import file half written: obnc-compile *)
(* never fails for want of a symbol file.                                  *)
LEMMA BuildErrorCycle == BuildInv /\ FreshFiles /\ CycleInv /\ BuildError => CycleInv'
  <1> SUFFICES ASSUME BuildInv, FreshFiles, CycleInv, BuildError PROVE CycleInv'
    OBVIOUS
  <1>1. pc \in {"imports", "link"}
    BY SymbolFilesThere DEF BuildError, ImportCycle
  <1>2. ~At("imports")
    BY <1>1 DEF At, BuildInv, JobInv
  <1> QED
    BY <1>2, AbandonCycle DEF BuildError

(* Every step that no disturbance takes keeps the invariant.               *)
LEMMA NextCycle ==
    ASSUME Undisturbed, BuildInv, FreshFiles, CycleInv, [Next]_vars
    PROVE  CycleInv'
  <1>1. CASE Owner
    BY <1>1, OwnerCycle DEF Undisturbed
  <1>2. CASE Clock
    BY <1>2, ClockCycle
  <1>3. ASSUME NEW r \in Root, NEW u \in Mode, Start(r, u) PROVE CycleInv'
    BY <1>3, StartCycle
  <1>4. CASE Visit
    BY <1>4, VisitCycle
  <1>5. CASE Descend
    BY <1>5, DescendCycle
  <1>6. CASE ImportsDone
    BY <1>6, ImportsDoneCycle
  <1>7. CASE UpdateObjectFile
    BY <1>7, UpdateObjectFileCycle
  <1>8. CASE RunObncCompile
    BY <1>8, RunObncCompileCycle
  <1>9. CASE ObncCompileDone
    BY <1>9, ObncCompileDoneCycle
  <1>10. CASE CompileC \/ WriteDirFile
    BY <1>10, CompileCCycle
  <1>11. CASE CompareSymFiles
    BY <1>11, CompareSymFilesCycle
  <1>12. CASE CreateExecutable \/ ExecutableUpToDate
    BY <1>12, LinkCycle
  <1>13. CASE BuildError
    BY <1>13, BuildErrorCycle
  <1>14. CASE UNCHANGED vars
    <2>1. UNCHANGED <<written, generated, job, pc, buildVars>>
      BY <1>14 DEF vars, fileVars
    <2> QED
      BY <2>1 DEF CycleInv, VisitedInv, PathInv, ListedInv, FinishedInv, Finished, Closed,
                  OnPath, Current, SymbolFilesInv, IsRoot, ImportFileInv, At, written,
                  generated, buildVars
  <1>15. ~Interrupt
    BY DEF Interrupt, Undisturbed
  <1> QED
    BY <1>1, <1>2, <1>3, <1>4, <1>5, <1>6, <1>7, <1>8, <1>9, <1>10, <1>11, <1>12,
       <1>13, <1>14, <1>15 DEF Next, BuildStep

-----------------------------------------------------------------------------
(* What a finished build has been through holds everything in reach of the *)
(* root, and no module of it is in reach of what it imports.               *)
LEMMA NoCycleThere == BuildInv /\ CycleInv => NoImportCycle
  <1> SUFFICES ASSUME BuildInv, CycleInv, pc = "done" PROVE Promise!Acyclic(root)
    BY DEF NoImportCycle
  <1>1. PathInv /\ ListedInv /\ FinishedInv
    BY DEF CycleInv, VisitedInv
  <1>2. Finished = discovered /\ discovered \subseteq Module /\ root \in discovered
    BY <1>1 DEF PathInv, Finished, OnPath, BuildInv, TypeOK
  <1>3. \A m \in discovered : listed[m] = Inputs[m].src.imports
    BY <1>1, <1>2 DEF ListedInv, Inputs
  <1>4. \A x \in discovered : Inputs[x].src.imports \subseteq discovered
    BY <1>1, <1>2, <1>3 DEF FinishedInv, Closed
  <1>5. Promise!Reach(root) \subseteq discovered
    BY <1>2, <1>4 DEF Promise!Reach
  <1>6. ASSUME NEW m \in Promise!Reach(root), NEW i \in Inputs[m].src.imports
        PROVE  m \notin Promise!Reach(i)
    <2>1. PICK S \in SUBSET discovered : Closed(S) /\ listed[m] \subseteq S /\ m \notin S
      BY <1>1, <1>2, <1>5 DEF FinishedInv
    <2>2. S \in SUBSET Module /\ i \in S
      BY <1>2, <1>3, <1>5, <2>1
    <2>3. \A x \in S : Inputs[x].src.imports \subseteq S
      BY <1>3, <2>1 DEF Closed
    <2> QED
      BY <2>1, <2>2, <2>3 DEF Promise!Reach
  <1> QED
    BY <1>6 DEF Promise!Acyclic

(* obnc-compile never misses a symbol file in a build that nobody stops:   *)
(* the imports of a module have theirs when it is translated.              *)
NoneMissing == pc = "obnc-compile" => ~SymbolFileNotFound

(* CycleInv is an invariant of every behaviour without stopped builds and  *)
(* without edits in the second of a build.                                 *)
LEMMA CycleInvariant ==
    ASSUME Undisturbed PROVE Spec => [](BuildInv /\ FreshFiles /\ CycleInv)
  <1>1. Init => BuildInv /\ FreshFiles /\ CycleInv
    BY InitInv, InitFresh, InitCycle
  <1>2. BuildInv /\ FreshFiles /\ CycleInv /\ [Next]_vars
            => (BuildInv /\ FreshFiles /\ CycleInv)'
    BY NextInv, NextFresh, NextCycle DEF Undisturbed
  <1> QED
    BY <1>1, <1>2, PTL DEF Spec

(* A build that nobody stops, of sources edited between builds only, never *)
(* succeeds with an import cycle in reach of its root.                     *)
THEOREM CyclesFound == ASSUME Undisturbed PROVE Spec => []NoImportCycle
  <1> QED
    BY CycleInvariant, NoCycleThere, PTL

(* In such a build DependencyNotFound is never reported for a symbol file  *)
(* of the project: the traversal has left every import with one.           *)
THEOREM SymbolFilesFound == ASSUME Undisturbed PROVE Spec => []NoneMissing
  <1>1. BuildInv /\ FreshFiles /\ CycleInv => NoneMissing
    BY SymbolFilesThere DEF NoneMissing
  <1> QED
    BY <1>1, CycleInvariant, PTL
===============================================================================
