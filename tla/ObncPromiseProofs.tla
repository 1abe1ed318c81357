--------------------------- MODULE ObncPromiseProofs ---------------------------
(***************************************************************************)
(* obnc keeps its promise: proof that ObncBuild implements BuildPromise,   *)
(* for every set of modules and texts, by builds that nobody stops, of     *)
(* files that are edited between builds and whose handwritten C stays,     *)
(* without -x. What obnc takes for up to date by comparing times is made   *)
(* of the present inputs, and an executable that is not linked again holds *)
(* what linking would give. Such a build fails for an import cycle and for *)
(* nothing else. Then what a build leaves behind for the next one, and     *)
(* what it knows of changed imports.                                       *)
(***************************************************************************)
EXTENDS ObncBuildProofs

Plain == Undisturbed /\ "remove C" \notin Disturbance /\ Mode \subseteq {FALSE}

(* What a file was made of, as Inputs says it of the sources.              *)
Made(code) == [src |-> code.src, hand |-> code.hand, env |-> code.env]

(* An object file that is as new as what its module is made of.            *)
UpToDate(m) ==
    /\ ~Older(obj[m], obn[m].time)
    /\ hand[m] /= NoFile => hand[m] <= obj[m].time
    /\ env[m] /= NoFile => env[m] <= obj[m].time

(* No file is younger than the present second.                             *)
TimesInv ==
    \A m \in Module : /\ obn[m].time <= clock
                      /\ hand[m] /= NoFile => hand[m] <= clock
                      /\ env[m] /= NoFile => env[m] <= clock
                      /\ exe[m] /= NoFile => exe[m].time <= clock

MadeInv == \A m \in Module : UpToDate(m) => Made(obj[m].code) = Inputs[m]

(* Where generated C is as new as the source, so is the object file,       *)
(* except for a module whose C is about to be compiled; and the modules    *)
(* that the traversal has left are up to date.                             *)
CompiledInv ==
    /\ \A m \in Module : \/ Older(gen[m], obn[m].time)
                         \/ ~Older(obj[m], obn[m].time)
                         \/ pc \in {"obnc-compile", "cc"} /\ m = Current
    /\ At("h") \/ At("sym") \/ At("exit") \/ pc = "cc" => ~Older(gen[Current], obn[Current].time)
    /\ pc \in {"dir", "compare"} => UpToDate(Current)
    /\ pc /= "idle" => \A m \in Finished : UpToDate(m)

(* What an executable was linked from.                                     *)
LinkedSet(file) == {k \in Module : file.code[k] /= NoFile}
ClosedThere(file, S) == \A k \in S : file.code[k].src.imports \subseteq S

(* An executable holds the modules in reach of its root by what they       *)
(* imported then. An object file that is no younger is made of the same    *)
(* inputs: in the second of the executable the inputs were the same.       *)
ExecutableInv(r, file) ==
    /\ r \in LinkedSet(file) /\ ClosedThere(file, LinkedSet(file))
    /\ \A S \in SUBSET LinkedSet(file) :
          r \in S /\ ClosedThere(file, S) => S = LinkedSet(file)
    /\ \A k \in LinkedSet(file) :
          /\ obj[k] /= NoFile /\ obj[k].time <= file.time
                => Made(obj[k].code) = Made(file.code[k])
          /\ file.time = clock => Made(file.code[k]) = Inputs[k]
ExecutablesInv == \A r \in Module : exe[r] /= NoFile => ExecutableInv(r, exe[r])

(* The traversal meets only modules in reach of the root.                  *)
ReachInv == pc /= "idle" => discovered \subseteq Promise!Reach(root)

PromiseInv ==
    /\ TimesInv /\ MadeInv /\ CompiledInv /\ ExecutablesInv /\ ReachInv
    /\ MadeOfPresentInputs

KnownInv == BuildInv /\ FreshFiles /\ CycleInv

-----------------------------------------------------------------------------
(* The types that the comparisons of times need.                           *)
LEMMA TimeTypes ==
    ASSUME BuildInv
    PROVE  /\ clock \in Int
           /\ \A m \in Module : /\ obn[m].time \in Int
                                /\ hand[m] /= NoFile => hand[m] \in Int
                                /\ env[m] /= NoFile => env[m] \in Int
                                /\ gen[m] /= NoFile => gen[m].time \in Int
                                /\ obj[m] /= NoFile => obj[m].time \in Int
                                /\ exe[m] /= NoFile => exe[m].time \in Int
  <1>1. Time \subseteq Int
    BY DEF Time
  <1> QED
    BY <1>1 DEF BuildInv, TypeOK, FilesTypeOK, Table, Optional, GenFile, ObjFile, ExeFile

(* Only -x builds are unified.                                             *)
LEMMA NotUnified == ASSUME Plain, BuildInv PROVE ~unified
  BY DEF Plain, BuildInv, TypeOK

(* What is in reach depends on the inputs alone.                           *)
LEMMA SameReach ==
    ASSUME UNCHANGED <<obn, hand, env>>
    PROVE  /\ UNCHANGED Inputs
           /\ \A r : Promise!Reach(r)' = Promise!Reach(r)
  BY DEF Inputs, Promise!Reach

(* Inputs and what was made of them are the same after a step that writes  *)
(* neither.                                                                *)
LEMMA SameMade ==
    ASSUME TimesInv, MadeInv, ExecutablesInv, ReachInv, MadeOfPresentInputs,
           UNCHANGED <<clock, obn, hand, env, obj, exe>>,
           pc' = "idle" \/ (pc /= "idle" /\ UNCHANGED <<root, discovered>>),
           pc' /= "done"
    PROVE  (TimesInv /\ MadeInv /\ ExecutablesInv /\ ReachInv /\ MadeOfPresentInputs)'
  <1>1. UNCHANGED Inputs /\ \A r : Promise!Reach(r)' = Promise!Reach(r)
    BY SameReach
  <1>2. TimesInv'
    BY DEF TimesInv
  <1>3. MadeInv'
    BY <1>1 DEF MadeInv, UpToDate
  <1>4. ExecutablesInv'
    BY <1>1 DEF ExecutablesInv, ExecutableInv, LinkedSet, ClosedThere
  <1>5. ReachInv'
    BY <1>1 DEF ReachInv
  <1>6. MadeOfPresentInputs'
    BY DEF MadeOfPresentInputs
  <1> QED
    BY <1>2, <1>3, <1>4, <1>5, <1>6

(* CompiledInv depends on few variables.                                   *)
LEMMA SameCompiled ==
    ASSUME BuildInv, CompiledInv, UNCHANGED <<obn, hand, env, gen, obj>>,
           pc \notin {"obnc-compile", "cc"}, pc' \notin {"cc", "dir", "compare"},
           job' = NoJob \/ (pc' = "obnc-compile" /\ job'.at = "open"),
           pc' /= "idle" => pc /= "idle" /\ Finished' \subseteq Finished
    PROVE  CompiledInv'
  <1>1. \A m \in Module : UpToDate(m) => UpToDate(m)'
    BY DEF UpToDate
  <1>2. ~(At("h") \/ At("sym") \/ At("exit"))'
    BY DEF At
  <1>3. Finished \subseteq Module
    BY DEF Finished, BuildInv, TypeOK
  <1> QED
    BY <1>1, <1>2, <1>3 DEF CompiledInv, Older

(* Nothing is made yet.                                                    *)
LEMMA InitPromise == Init => PromiseInv
  <1> SUFFICES ASSUME Init PROVE PromiseInv
    OBVIOUS
  <1>1. clock = 0 /\ \A m \in Module : obn[m].time = 0
    BY DEF Init, FilesInit
  <1>2. /\ pc = "idle" /\ job = NoJob
        /\ \A m \in Module : /\ hand[m] = NoFile /\ env[m] = NoFile /\ gen[m] = NoFile
                             /\ obj[m] = NoFile /\ exe[m] = NoFile
    BY DEF Init, FilesInit
  <1> QED
    BY <1>1, <1>2 DEF PromiseInv, TimesInv, MadeInv, UpToDate, Older, CompiledInv, At,
                      ExecutablesInv, ReachInv, MadeOfPresentInputs

(* What the owner changes becomes younger than everything made of it.      *)
LEMMA OwnerPromise ==
    ASSUME Plain, KnownInv, PromiseInv, Owner PROVE PromiseInv'
  <1>1. /\ UNCHANGED <<clock, gen, obj, exe, job>> /\ Aged /\ pc \in {"idle", "done"}
        /\ pc' = "idle"
    BY DEF Owner, OwnerStep, generated, Plain, Undisturbed, Orderly, Running, KnownInv,
           BuildInv, TypeOK, PC
  <1>2. job = NoJob
    BY <1>1 DEF KnownInv, BuildInv, JobInv
  <1>3. clock /= NoFile
    BY NoFileAssumption DEF KnownInv, BuildInv, TypeOK, FilesTypeOK
  <1>4. /\ obn \in [Module -> [text : Source, time : Time]]
        /\ hand \in [Module -> Optional(Time)] /\ env \in [Module -> Optional(Time)]
    BY DEF KnownInv, BuildInv, TypeOK, FilesTypeOK, Table
  <1>5. \A k \in Module : /\ obn'[k] = obn[k] \/ obn'[k].time = clock
                          /\ hand'[k] \in {hand[k], clock}
                          /\ env'[k] \in {env[k], clock}
    <2>1. ASSUME NEW m \in Module, SaveSource(m)
          PROVE  \A k \in Module : obn'[k] = obn[k] \/ obn'[k].time = clock
      <3>1. PICK text \in Draft[m] : obn' = [obn EXCEPT ![m] = [text |-> text, time |-> clock]]
        BY <2>1 DEF SaveSource
      <3> QED
        BY <1>4, <3>1
    <2>2. ASSUME NEW m \in Module, SaveC(m)
          PROVE  \A k \in Module : hand'[k] \in {hand[k], clock}
      BY <1>4, <2>2 DEF SaveC
    <2>3. ASSUME NEW m \in Module, SaveEnv(m)
          PROVE  \A k \in Module : env'[k] \in {env[k], clock}
      BY <1>4, <2>3 DEF SaveEnv
    <2>4. \A m \in Module : ~RemoveC(m)
      BY DEF RemoveC, Plain
    <2>5. CASE \E m \in Module : SaveSource(m)
      BY <2>1, <2>5 DEF SaveSource
    <2>6. CASE \E m \in Module : SaveC(m)
      BY <2>2, <2>6 DEF SaveC
    <2>7. CASE \E m \in Module : SaveEnv(m)
      BY <2>3, <2>7 DEF SaveEnv
    <2>8. CASE Rename
      BY <2>8 DEF Rename
    <2> QED
      BY <2>4, <2>5, <2>6, <2>7, <2>8 DEF Owner, OwnerStep
  <1>6. \A k \in Module : /\ Older(gen[k], clock) /\ Older(obj[k], clock)
                          /\ Older(exe[k], clock)
    BY <1>1 DEF Aged, Plain, Undisturbed, Orderly
  <1>7. TimesInv'
    BY <1>1, <1>5, TimeTypes DEF PromiseInv, TimesInv, KnownInv
  <1>8. MadeInv'
    <2> SUFFICES ASSUME NEW m \in Module, UpToDate(m)' PROVE Made(obj'[m].code) = Inputs'[m]
      BY <1>1 DEF MadeInv
    <2>1. obj[m] /= NoFile /\ obj[m].time < clock /\ obj[m].time \in Int /\ clock \in Int
      BY <1>1, <1>6, TimeTypes DEF UpToDate, Older, KnownInv
    <2>2. obn'[m] = obn[m] /\ hand'[m] = hand[m] /\ env'[m] = env[m]
      BY <1>1, <1>3, <1>5, <2>1 DEF UpToDate, Older
    <2>3. UpToDate(m)
      BY <1>1, <2>2 DEF UpToDate
    <2> QED
      BY <1>1, <2>2, <2>3 DEF PromiseInv, MadeInv, Inputs
  <1>9. CompiledInv'
    <2>1. \A m \in Module : Older(gen[m], obn'[m].time) \/ ~Older(obj[m], obn'[m].time)
      BY <1>1, <1>5, <1>6 DEF PromiseInv, CompiledInv
    <2> QED
      BY <1>1, <1>2, <2>1 DEF CompiledInv, At
  <1>10. ExecutablesInv'
    <2> SUFFICES ASSUME NEW r \in Module, exe[r] /= NoFile PROVE ExecutableInv(r, exe[r])'
      BY <1>1 DEF ExecutablesInv
    <2>1. exe[r].time < clock /\ exe[r].time \in Int /\ clock \in Int
      BY <1>6, TimeTypes DEF Older, KnownInv
    <2> QED
      BY <1>1, <2>1 DEF PromiseInv, ExecutablesInv, ExecutableInv, LinkedSet, ClosedThere
  <1> QED
    BY <1>1, <1>7, <1>8, <1>9, <1>10 DEF PromiseInv, ReachInv, MadeOfPresentInputs

(* Time passes: nothing made is of the present second any more.            *)
LEMMA ClockPromise == ASSUME KnownInv, PromiseInv, Clock PROVE PromiseInv'
  <1>1. /\ clock' = clock + 1
        /\ UNCHANGED <<obn, hand, env, gen, obj, exe, job, pc, root, path, discovered>>
    BY DEF Clock, Tick, written, generated, buildVars
  <1>2. UNCHANGED Inputs /\ \A r : Promise!Reach(r)' = Promise!Reach(r)
    BY <1>1, SameReach
  <1>3. TimesInv'
    BY <1>1, TimeTypes DEF PromiseInv, TimesInv, KnownInv
  <1>4. MadeInv'
    BY <1>1, <1>2 DEF PromiseInv, MadeInv, UpToDate
  <1>5. CompiledInv'
    BY <1>1 DEF PromiseInv, CompiledInv, UpToDate, Older, At, Current, Finished, OnPath
  <1>6. ExecutablesInv'
    <2> SUFFICES ASSUME NEW r \in Module, exe[r] /= NoFile PROVE ExecutableInv(r, exe[r])'
      BY <1>1 DEF ExecutablesInv
    <2>1. exe[r].time /= clock'
      BY <1>1, TimeTypes DEF PromiseInv, TimesInv, KnownInv
    <2> QED
      BY <1>1, <2>1 DEF PromiseInv, ExecutablesInv, ExecutableInv, LinkedSet, ClosedThere
  <1>7. ReachInv' /\ MadeOfPresentInputs'
    BY <1>1, <1>2 DEF PromiseInv, ReachInv, MadeOfPresentInputs
  <1> QED
    BY <1>3, <1>4, <1>5, <1>6, <1>7 DEF PromiseInv

(* The root is in reach of itself.                                         *)
LEMMA StartPromise ==
    ASSUME KnownInv, PromiseInv, NEW r \in Root, NEW u \in Mode, Start(r, u)
    PROVE  PromiseInv'
  <1>1. /\ pc \in {"idle", "done"} /\ pc' = "visit" /\ root' = r /\ discovered' = {r}
        /\ UNCHANGED <<clock, obn, hand, env, gen, obj, exe, job>>
    BY DEF Start, Running, fileVars, written, generated, KnownInv, BuildInv, TypeOK, PC
  <1>2. job = NoJob /\ Finished' = {}
    BY <1>1, StartFinished DEF KnownInv, BuildInv, JobInv
  <1>3. UNCHANGED Inputs /\ \A k : Promise!Reach(k)' = Promise!Reach(k)
    BY <1>1, SameReach
  <1>4. TimesInv' /\ MadeInv' /\ ExecutablesInv'
    BY <1>1, <1>3 DEF PromiseInv, TimesInv, MadeInv, UpToDate, ExecutablesInv, ExecutableInv,
                      LinkedSet, ClosedThere
  <1>5. CompiledInv'
    BY <1>1, <1>2 DEF PromiseInv, CompiledInv, Older, At
  <1>6. r \in Promise!Reach(r)
    BY RootAssumption DEF Promise!Reach
  <1> QED
    BY <1>1, <1>3, <1>4, <1>5, <1>6 DEF PromiseInv, ReachInv, MadeOfPresentInputs

(* An import of a module in reach is in reach.                             *)
LEMMA DescendPromise == ASSUME KnownInv, PromiseInv, Descend PROVE PromiseInv'
  <1>1. /\ pc = "imports" /\ pc' = "visit"
        /\ path \in Seq(Module) /\ path /= <<>> /\ Current \in Module
        /\ UNCHANGED <<clock, obn, hand, env, gen, obj, exe, job, root, listed>>
    BY CurrentInModule DEF Descend, fileVars, written, generated, KnownInv
  <1>2. PICK i \in listed[Current] \ discovered :
            path' = <<i>> \o path /\ discovered' = discovered \union {i}
    BY DEF Descend
  <1>3. i \in Module
    BY <1>1, <1>2 DEF KnownInv, BuildInv, TypeOK
  <1>4. Finished' = Finished
    BY <1>1, <1>2, <1>3, PushOnPath DEF Finished
  <1>5. job = NoJob
    BY <1>1 DEF KnownInv, BuildInv, JobInv
  <1>6. UNCHANGED Inputs /\ \A r : Promise!Reach(r)' = Promise!Reach(r)
    BY <1>1, SameReach
  <1>7. TimesInv' /\ MadeInv' /\ ExecutablesInv'
    BY <1>1, <1>6 DEF PromiseInv, TimesInv, MadeInv, UpToDate, ExecutablesInv, ExecutableInv,
                      LinkedSet, ClosedThere
  <1>8. CompiledInv'
    BY <1>1, <1>4, <1>5, SameCompiled DEF PromiseInv, KnownInv
  <1>9. i \in Promise!Reach(root)
    <2>1. Current \in discovered /\ i \in Inputs[Current].src.imports
      BY <1>1, <1>2, RootOnPath
         DEF KnownInv, CycleInv, VisitedInv, PathInv, ListedInv, Inputs
    <2> QED
      BY <1>1, <1>3, <2>1 DEF PromiseInv, ReachInv, Promise!Reach
  <1> QED
    BY <1>1, <1>2, <1>6, <1>7, <1>8, <1>9 DEF PromiseInv, ReachInv, MadeOfPresentInputs

(* The traversal reads import lists.                                       *)
LEMMA VisitPromise == ASSUME KnownInv, PromiseInv, Visit \/ ImportsDone PROVE PromiseInv'
  <1>1. /\ pc \in {"visit", "imports"} /\ pc' \in {"imports", "update"}
        /\ UNCHANGED <<clock, obn, hand, env, gen, obj, exe, job, root, path, discovered>>
    BY DEF Visit, ImportsDone, fileVars, written, generated, buildVars
  <1>2. job = NoJob /\ Finished' = Finished
    BY <1>1 DEF KnownInv, BuildInv, JobInv, Finished, OnPath
  <1> QED
    BY <1>1, <1>2, SameMade, SameCompiled DEF PromiseInv, KnownInv

(* What need not be compiled is up to date.                                *)
LEMMA UpdateObjectFilePromise ==
    ASSUME Plain, KnownInv, PromiseInv, UpdateObjectFile PROVE PromiseInv'
  <1>1. /\ pc = "update" /\ Current \in Module
        /\ UNCHANGED <<clock, obn, hand, env, gen, obj, exe, root, path, discovered>>
    BY CurrentInModule DEF UpdateObjectFile, written, buildVars, KnownInv
  <1>2. job = NoJob /\ Finished' = Finished /\ Current' = Current /\ Finished \subseteq Module
    BY <1>1 DEF KnownInv, BuildInv, TypeOK, JobInv, Finished, OnPath, Current
  <1>3. (TimesInv /\ MadeInv /\ ExecutablesInv /\ ReachInv /\ MadeOfPresentInputs)'
    BY <1>1, SameMade DEF PromiseInv, UpdateObjectFile
  <1>4. CASE pc' = "obnc-compile" /\ job' = NewJob(Current, IsRoot)
    <2>1. job'.at = "open"
      BY <1>4 DEF NewJob
    <2>2. CompiledInv'
      BY <1>1, <1>2, <1>4, <2>1, SameCompiled DEF PromiseInv, KnownInv
    <2> QED
      BY <1>3, <2>2 DEF PromiseInv
  <1>5. CASE /\ ~OberonCompilationNeeded(Current, Stale(Current), IsRoot) /\ UNCHANGED job
             /\ pc' = IF CCompilationNeeded(Current) THEN "cc" ELSE "dir"
    <2>1. ~Older(gen[Current], obn[Current].time)
      BY <1>5 DEF OberonCompilationNeeded
    <2>2. ~Older(obj[Current], obn[Current].time)
      BY <1>1, <2>1 DEF PromiseInv, CompiledInv
    <2>3. ~CCompilationNeeded(Current) => UpToDate(Current)
      <3>1. ~unified
        BY NotUnified DEF KnownInv
      <3> QED
        BY <1>1, <2>2, <3>1, TimeTypes DEF CCompilationNeeded, UpToDate, KnownInv
    <2>4. \A m \in Module : UpToDate(m) => UpToDate(m)'
      BY <1>1 DEF UpToDate
    <2>5. ~(At("h") \/ At("sym") \/ At("exit"))'
      BY <1>2, <1>5 DEF At
    <2>6. CompiledInv'
      BY <1>1, <1>2, <1>5, <2>1, <2>3, <2>4, <2>5 DEF PromiseInv, CompiledInv, Older
    <2> QED
      BY <1>3, <2>6 DEF PromiseInv
  <1> QED
    BY <1>4, <1>5 DEF UpdateObjectFile

(* The C file of the module that is compiled becomes as new as its source. *)
LEMMA RunObncCompilePromise ==
    ASSUME KnownInv, PromiseInv, RunObncCompile PROVE PromiseInv'
  <1>1. /\ pc = "obnc-compile" /\ pc' = pc /\ Current \in Module /\ job.module = Current
        /\ job \in Job
        /\ UNCHANGED <<clock, obn, hand, env, obj, exe, root, path, discovered>>
    <2>1. UNCHANGED <<clock, obn, hand, env, obj, exe>>
      BY DEF RunObncCompile, CompileStep, OpenSource, ImportList, CloseCFile, CloseHeader,
             ExportSymbolTable, written
    <2> QED
      BY <2>1, RunningJob, CurrentInModule DEF KnownInv, buildVars
  <1>2. Finished' = Finished /\ Current' = Current /\ Finished \subseteq Module
    BY <1>1 DEF KnownInv, BuildInv, TypeOK, Finished, OnPath, Current
  <1>3. (TimesInv /\ MadeInv /\ ExecutablesInv /\ ReachInv /\ MadeOfPresentInputs)'
    BY <1>1, SameMade DEF PromiseInv
  <1>4. \A m \in Module \ {Current} : gen'[m] = gen[m]
    BY <1>1 DEF RunObncCompile, CompileStep, OpenSource, ImportList, CloseCFile, CloseHeader,
                ExportSymbolTable, KnownInv, BuildInv, TypeOK, FilesTypeOK, Table
  <1>5. (At("h") \/ At("sym") \/ At("exit"))' => ~Older(gen'[Current], obn[Current].time)
    <2>1. CASE OpenSource \/ ImportList
      BY <1>1, <2>1 DEF OpenSource, ImportList, At, Job
    <2>2. CASE CloseCFile
      <3>1. gen'[Current].time = clock /\ gen'[Current] /= NoFile
        <4> DEFINE file == [text |-> job.text, entry |-> job.entry, syms |-> job.syms,
                            time |-> clock]
        <4>1. gen' = [gen EXCEPT ![Current] = file] /\ gen \in Table(GenFile)
          BY <1>1, <2>2 DEF CloseCFile, KnownInv, BuildInv, TypeOK, FilesTypeOK
        <4>2. gen'[Current] = file
          BY <1>1, <4>1 DEF Table
        <4>3. BuildInv'
          BY <2>2, CloseCFileInv DEF KnownInv
        <4>4. gen'[Current] /= NoFile
          BY <1>1, <1>2, <2>2, <4>3 DEF BuildInv, JobInv, CloseCFile, GoTo, At, Job
        <4> QED
          BY <4>2, <4>4
      <3> QED
        BY <1>1, <3>1, TimeTypes DEF PromiseInv, TimesInv, Older, KnownInv
    <2>3. CASE CloseHeader \/ ExportSymbolTable
      <3>1. (At("h") \/ At("sym")) /\ gen' = gen
        BY <2>3 DEF CloseHeader, ExportSymbolTable
      <3> QED
        BY <3>1 DEF PromiseInv, CompiledInv
    <2> QED
      BY <2>1, <2>2, <2>3 DEF RunObncCompile, CompileStep
  <1>6. CompiledInv'
    <2>1. \A m \in Module : UpToDate(m) => UpToDate(m)'
      BY <1>1 DEF UpToDate
    <2> QED
      BY <1>1, <1>2, <1>4, <1>5, <2>1 DEF PromiseInv, CompiledInv, Older
  <1> QED
    BY <1>3, <1>6 DEF PromiseInv

(* New C is compiled: without -x nothing else can follow.                  *)
LEMMA ObncCompileDonePromise ==
    ASSUME Plain, KnownInv, PromiseInv, ObncCompileDone PROVE PromiseInv'
  <1>1. /\ pc = "obnc-compile" /\ pc' = "cc" /\ At("exit") /\ job' = NoJob
        /\ UNCHANGED <<clock, obn, hand, env, gen, obj, exe, root, path, discovered>>
    BY NotUnified DEF ObncCompileDone, fileVars, written, generated, buildVars, KnownInv
  <1>2. Finished' = Finished /\ Current' = Current /\ Finished \subseteq Module
    BY <1>1 DEF KnownInv, BuildInv, TypeOK, Finished, OnPath, Current
  <1>3. (TimesInv /\ MadeInv /\ ExecutablesInv /\ ReachInv /\ MadeOfPresentInputs)'
    BY <1>1, SameMade DEF PromiseInv
  <1>4. \A m \in Module : UpToDate(m) => UpToDate(m)'
    BY <1>1 DEF UpToDate
  <1>5. CompiledInv'
    BY <1>1, <1>2, <1>4 DEF PromiseInv, CompiledInv, Older, At
  <1> QED
    BY <1>3, <1>5 DEF PromiseInv

(* The C compiler makes the object file of the present inputs. An          *)
(* executable linked in the same second was made of them, too.             *)
LEMMA CompileCPromise == ASSUME KnownInv, PromiseInv, CompileC PROVE PromiseInv'
  <1>1. /\ pc = "cc" /\ pc' = "dir" /\ Current \in Module
        /\ UNCHANGED <<clock, obn, hand, env, gen, exe, job, root, path, discovered>>
    BY CurrentInModule DEF CompileC, written, buildVars, KnownInv
  <1>2. job = NoJob /\ Finished' = Finished /\ Current' = Current /\ Finished \subseteq Module
    BY <1>1 DEF KnownInv, BuildInv, TypeOK, JobInv, Finished, OnPath, Current
  <1>3. gen[Current].text = obn[Current].text
    BY <1>1 DEF PromiseInv, CompiledInv, KnownInv, FreshFiles, FreshFile
  <1>4. /\ obj'[Current].code = ObjectCode(Current) /\ obj'[Current].time = clock
        /\ \A m \in Module \ {Current} : obj'[m] = obj[m]
    <2>1. obj \in [Module -> Optional(ObjFile)]
      BY DEF KnownInv, BuildInv, TypeOK, FilesTypeOK, Table
    <2> QED
      BY <1>1, <2>1 DEF CompileC
  <1>5. Made(obj'[Current].code) = Inputs[Current]
    BY <1>1, <1>3, <1>4 DEF Made, ObjectCode, Inputs
  <1>6. UNCHANGED Inputs /\ \A r : Promise!Reach(r)' = Promise!Reach(r)
    BY <1>1, SameReach
  <1>7. obj'[Current] /= NoFile
    <2>1. gen[Current] /= NoFile
      BY <1>1 DEF KnownInv, BuildInv, TraversalInv
    <2>2. [code |-> ObjectCode(Current), time |-> clock] \in ObjFile
      BY <1>1, <2>1, ObjectCodeType DEF ObjFile, KnownInv, BuildInv, TypeOK, FilesTypeOK
    <2> QED
      BY <1>1, <2>2, NoFileAssumption DEF CompileC, KnownInv, BuildInv, TypeOK, FilesTypeOK, Table
  <1>8. UpToDate(Current)'
    BY <1>1, <1>2, <1>4, <1>7, TimeTypes DEF PromiseInv, TimesInv, UpToDate, Older, KnownInv
  <1>9. \A m \in Module \ {Current} : UpToDate(m)' <=> UpToDate(m)
    BY <1>1, <1>4 DEF UpToDate
  <1>10. TimesInv'
    BY <1>1 DEF PromiseInv, TimesInv
  <1>11. MadeInv'
    BY <1>4, <1>5, <1>6, <1>9 DEF PromiseInv, MadeInv
  <1>12. CompiledInv'
    BY <1>1, <1>2, <1>4, <1>8, <1>9 DEF PromiseInv, CompiledInv, Older, At, UpToDate
  <1>13. ExecutablesInv'
    <2> SUFFICES ASSUME NEW r \in Module, exe[r] /= NoFile PROVE ExecutableInv(r, exe[r])'
      BY <1>1 DEF ExecutablesInv
    <2>1. ExecutableInv(r, exe[r]) /\ exe[r].time <= clock
      BY DEF PromiseInv, ExecutablesInv, TimesInv
    <2>2. ASSUME NEW k \in LinkedSet(exe[r]), obj'[k] /= NoFile, obj'[k].time <= exe[r].time
          PROVE  Made(obj'[k].code) = Made(exe[r].code[k])
      <3>1. CASE k = Current
        <4>1. exe[r].time = clock
          BY <1>4, <2>1, <2>2, <3>1, TimeTypes DEF KnownInv
        <4> QED
          BY <1>5, <2>1, <3>1, <4>1 DEF ExecutableInv
      <3>2. CASE k /= Current
        BY <1>4, <2>1, <2>2, <3>2 DEF ExecutableInv, LinkedSet
      <3> QED
        BY <3>1, <3>2
    <2> QED
      BY <1>1, <1>6, <2>1, <2>2 DEF ExecutableInv, LinkedSet, ClosedThere
  <1> QED
    BY <1>1, <1>6, <1>10, <1>11, <1>12, <1>13 DEF PromiseInv, ReachInv, MadeOfPresentInputs

(* The directory name is no input.                                         *)
LEMMA WriteDirFilePromise == ASSUME KnownInv, PromiseInv, WriteDirFile PROVE PromiseInv'
  <1>1. /\ pc = "dir" /\ pc' = "compare"
        /\ UNCHANGED <<clock, obn, hand, env, gen, obj, exe, job, root, path, discovered>>
    BY DEF WriteDirFile, written, buildVars
  <1>2. job = NoJob
    BY <1>1 DEF KnownInv, BuildInv, JobInv
  <1>3. (TimesInv /\ MadeInv /\ ExecutablesInv /\ ReachInv /\ MadeOfPresentInputs)'
    BY <1>1, SameMade DEF PromiseInv
  <1>4. CompiledInv'
    BY <1>1, <1>2 DEF PromiseInv, CompiledInv, UpToDate, Older, At, Current, Finished, OnPath
  <1> QED
    BY <1>3, <1>4 DEF PromiseInv

(* The module left behind is up to date.                                   *)
LEMMA CompareSymFilesPromise ==
    ASSUME KnownInv, PromiseInv, CompareSymFiles PROVE PromiseInv'
  <1>1. /\ pc = "compare" /\ pc' \in {"link", "imports"}
        /\ path \in Seq(Module) /\ path /= <<>> /\ path' = Tail(path)
        /\ UNCHANGED <<clock, obn, hand, env, gen, obj, exe, job, root, discovered>>
    BY CurrentInModule DEF CompareSymFiles, written, KnownInv
  <1>2. job = NoJob
    BY <1>1 DEF KnownInv, BuildInv, JobInv
  <1>3. Finished' \subseteq Finished \union {Current}
    BY <1>1, PopOnPath DEF Finished
  <1>4. (TimesInv /\ MadeInv /\ ExecutablesInv /\ ReachInv /\ MadeOfPresentInputs)'
    BY <1>1, SameMade DEF PromiseInv
  <1>5. \A m \in Finished' : UpToDate(m)'
    BY <1>1, <1>3 DEF PromiseInv, CompiledInv, UpToDate
  <1>6. CompiledInv'
    BY <1>1, <1>2, <1>5 DEF PromiseInv, CompiledInv, Older, At
  <1> QED
    BY <1>4, <1>6 DEF PromiseInv

(* An error that obnc finds changes no file.                               *)
LEMMA BuildErrorPromise == ASSUME KnownInv, PromiseInv, BuildError PROVE PromiseInv'
  <1>1. pc \in {"imports", "link"}
    BY SymbolFilesThere DEF BuildError, ImportCycle, KnownInv
  <1>2. /\ pc' = "idle" /\ job' = NoJob
        /\ UNCHANGED <<clock, obn, hand, env, gen, obj, exe>>
    BY DEF BuildError, Abandon, fileVars, written, generated
  <1> QED
    BY <1>1, <1>2, SameMade, SameCompiled DEF PromiseInv, KnownInv

-----------------------------------------------------------------------------
(* When the traversal has ended, obnc knows what is in reach, and each     *)
(* module of it has an object file made of the present inputs.             *)
LEMMA ReadyToLink ==
    ASSUME KnownInv, PromiseInv, pc = "link"
    PROVE  /\ discovered = Promise!Reach(root) /\ root \in discovered
           /\ discovered \subseteq Module
           /\ \A m \in discovered : /\ obj[m] /= NoFile /\ obj[m].code \in Code
                                    /\ Made(obj[m].code) = Inputs[m]
                                    /\ Inputs[m].src.imports \subseteq discovered
  <1>1. PathInv /\ ListedInv /\ FinishedInv
    BY DEF KnownInv, CycleInv, VisitedInv
  <1>2. Finished = discovered /\ discovered \subseteq Module /\ root \in discovered
    BY <1>1 DEF PathInv, Finished, OnPath, KnownInv, BuildInv, TypeOK
  <1>3. \A m \in discovered : Inputs[m].src.imports \subseteq discovered
    BY <1>1, <1>2 DEF ListedInv, FinishedInv, Closed, Inputs
  <1>4. Promise!Reach(root) \subseteq discovered
    BY <1>2, <1>3 DEF Promise!Reach
  <1>5. \A m \in discovered : UpToDate(m)
    BY <1>2 DEF PromiseInv, CompiledInv
  <1>6. \A m \in discovered : obj[m] /= NoFile /\ Made(obj[m].code) = Inputs[m]
    BY <1>2, <1>5 DEF PromiseInv, MadeInv, UpToDate, Older
  <1>7. \A m \in discovered : obj[m].code \in Code
    BY <1>2, <1>6 DEF KnownInv, BuildInv, TypeOK, FilesTypeOK, Table, Optional, ObjFile
  <1> QED
    BY <1>2, <1>3, <1>4, <1>6, <1>7 DEF PromiseInv, ReachInv

(* The modules in reach are a subset of every closed set with the root.    *)
LEMMA ReachLeast ==
    ASSUME NEW r, NEW S \in SUBSET Module, r \in S,
           \A x \in S : Inputs[x].src.imports \subseteq S
    PROVE  Promise!Reach(r) \subseteq S
  BY DEF Promise!Reach

(* An executable that holds what is in reach, of the present inputs, is    *)
(* what is promised.                                                       *)
LEMMA LinkedAsPromised ==
    ASSUME NEW file, file /= NoFile, LinkedSet(file) = Promise!Reach(root),
           \A k \in LinkedSet(file) : Made(file.code[k]) = Inputs[k]
    PROVE  Linked(file) = [m \in Promise!Reach(root) |-> Inputs[m]]
  <1>1. Linked(file) = [k \in LinkedSet(file) |-> Made(file.code[k])]
    BY DEF Linked, LinkedSet, Made
  <1> QED
    BY <1>1

(* An executable that is linked holds the object files of what is in reach. *)
LEMMA CreateExecutablePromise ==
    ASSUME Plain, KnownInv, PromiseInv, CreateExecutable
    PROVE  /\ PromiseInv'
           /\ \A r \in Module \ {root} : exe'[r] = exe[r]
  <1>0. PICK file :
            file = [code |-> [m \in Module |-> IF m \in discovered THEN LinkInput(m)
                                              ELSE NoFile],
                    time |-> clock]
    OBVIOUS
  <1>1. /\ pc = "link" /\ pc' = "done" /\ job = NoJob
        /\ UNCHANGED <<clock, obn, hand, env, gen, obj, job, root, path, discovered>>
    BY DEF CreateExecutable, written, buildVars, KnownInv, BuildInv, JobInv
  <1>2. root \in Module /\ exe \in Table(ExeFile)
    BY RootAssumption DEF KnownInv, BuildInv, TypeOK, FilesTypeOK
  <1>3. exe'[root] = file /\ \A r \in Module \ {root} : exe'[r] = exe[r]
    BY <1>0, <1>2 DEF CreateExecutable, Table
  <1>4. \A m \in discovered : /\ file.code[m] = obj[m].code
                              /\ file.code[m] /= NoFile
    BY <1>0, <1>1, NotUnified, ReadyToLink, NoFileAssumption DEF LinkInput, KnownInv
  <1>5. LinkedSet(file) = discovered
    BY <1>0, <1>1, <1>4, ReadyToLink DEF LinkedSet
  <1>6. file /= NoFile
    <2>1. file.code \in Table(Code)
      BY <1>0, <1>1, <1>4, ReadyToLink DEF Table, Optional
    <2>2. file \in ExeFile
      BY <1>0, <2>1 DEF ExeFile, KnownInv, BuildInv, TypeOK, FilesTypeOK
    <2> QED
      BY <2>2, NoFileAssumption
  <1>7. UNCHANGED Inputs /\ \A r : Promise!Reach(r)' = Promise!Reach(r)
    BY <1>1, SameReach
  <1>8. \A k \in discovered : Made(file.code[k]) = Inputs[k]
    BY <1>1, <1>4, ReadyToLink
  <1>9. \A k \in discovered : file.code[k].src.imports = Inputs[k].src.imports
    <2>1. \A c : Made(c).src = c.src
      BY DEF Made
    <2> QED
      BY <1>8, <2>1
  <1>10. ExecutableInv(root, file)
    <2>1. root \in LinkedSet(file) /\ ClosedThere(file, LinkedSet(file))
      BY <1>1, <1>5, <1>9, ReadyToLink DEF ClosedThere
    <2>2. ASSUME NEW S \in SUBSET LinkedSet(file), root \in S, ClosedThere(file, S)
          PROVE  S = LinkedSet(file)
      <3>1. S \in SUBSET Module /\ \A x \in S : Inputs[x].src.imports \subseteq S
        BY <1>1, <1>5, <1>9, <2>2, ReadyToLink DEF ClosedThere
      <3>2. Promise!Reach(root) \subseteq S
        BY <2>2, <3>1, ReachLeast
      <3> QED
        BY <1>1, <1>5, <3>2, ReadyToLink
    <2> QED
      BY <1>4, <1>5, <1>8, <2>1, <2>2 DEF ExecutableInv
  <1>11. ExecutablesInv'
    <2>1. ExecutableInv(root, file)'
      BY <1>1, <1>7, <1>10 DEF ExecutableInv, LinkedSet, ClosedThere
    <2>2. \A r \in Module \ {root} : exe[r] /= NoFile => ExecutableInv(r, exe[r])'
      BY <1>1, <1>3, <1>7 DEF PromiseInv, ExecutablesInv, ExecutableInv, LinkedSet, ClosedThere
    <2> QED
      BY <1>1, <1>3, <2>1, <2>2 DEF ExecutablesInv
  <1>12. TimesInv'
    BY <1>0, <1>1, <1>2, <1>3, TimeTypes DEF PromiseInv, TimesInv, KnownInv
  <1>13. MadeInv'
    BY <1>1, <1>7 DEF PromiseInv, MadeInv, UpToDate
  <1>14. CompiledInv'
    BY <1>1, SameCompiled DEF PromiseInv, KnownInv, Finished, OnPath
  <1>15. ReachInv'
    BY <1>1, <1>7 DEF PromiseInv, ReachInv
  <1>16. MadeOfPresentInputs'
    <2>1. Linked(file) = [m \in Promise!Reach(root) |-> Inputs[m]]
      BY <1>1, <1>5, <1>6, <1>8, LinkedAsPromised, ReadyToLink
    <2>2. Linked(exe[root])' = Linked(file)
      BY <1>1, <1>3 DEF Linked
    <2> QED
      BY <1>1, <1>7, <2>1, <2>2 DEF MadeOfPresentInputs
  <1> QED
    BY <1>3, <1>11, <1>12, <1>13, <1>14, <1>15, <1>16 DEF PromiseInv

(* An executable that is not linked again: what it holds of the modules in *)
(* reach was made of the present inputs, so it is closed under the present *)
(* imports, and holds what is in reach and nothing else.                   *)
LEMMA ExecutableUpToDatePromise ==
    ASSUME Plain, KnownInv, PromiseInv, ExecutableUpToDate PROVE PromiseInv'
  <1>0. PICK file : file = exe[root]
    OBVIOUS
  <1>1. /\ pc = "link" /\ pc' = "done" /\ job = NoJob /\ root \in Module
        /\ UNCHANGED <<clock, obn, hand, env, gen, obj, exe, job, root, path, discovered>>
    BY RootAssumption DEF ExecutableUpToDate, fileVars, written, generated, buildVars, KnownInv,
                          BuildInv, TypeOK, JobInv
  <1>2. /\ file /= NoFile
        /\ \A m \in discovered : ~(file.time < obj[m].time)
    BY <1>0, NotUnified DEF ExecutableUpToDate, LinkNeeded, KnownInv
  <1>3. ExecutableInv(root, file)
    BY <1>0, <1>1, <1>2 DEF PromiseInv, ExecutablesInv
  <1> DEFINE S == discovered \cap LinkedSet(file)
  <1>4. \A k \in S : Made(file.code[k]) = Inputs[k]
    <2> SUFFICES ASSUME NEW k \in S PROVE Made(file.code[k]) = Inputs[k]
      OBVIOUS
    <2>1. obj[k] /= NoFile /\ Made(obj[k].code) = Inputs[k] /\ k \in Module
      BY <1>1, ReadyToLink
    <2>2. obj[k].time <= file.time
      BY <1>0, <1>1, <1>2, <2>1, TimeTypes DEF KnownInv
    <2> QED
      BY <1>3, <2>1, <2>2 DEF ExecutableInv
  <1>5. \A k \in S : file.code[k].src.imports = Inputs[k].src.imports
    <2>1. \A c : Made(c).src = c.src
      BY DEF Made
    <2> QED
      BY <1>4, <2>1
  <1>6. root \in S /\ ClosedThere(file, S) /\ S \in SUBSET LinkedSet(file)
    BY <1>1, <1>3, <1>5, ReadyToLink DEF ExecutableInv, ClosedThere
  <1>7. S = LinkedSet(file)
    BY <1>3, <1>6 DEF ExecutableInv
  <1>8. \A x \in S : Inputs[x].src.imports \subseteq S
    BY <1>5, <1>6 DEF ClosedThere
  <1>9. Promise!Reach(root) \subseteq S
    BY <1>1, <1>6, <1>8, ReachLeast, ReadyToLink
  <1>10. LinkedSet(file) = Promise!Reach(root)
    BY <1>1, <1>7, <1>9, ReadyToLink
  <1>11. Linked(file) = [m \in Promise!Reach(root) |-> Inputs[m]]
    BY <1>2, <1>4, <1>7, <1>10, LinkedAsPromised
  <1>12. UNCHANGED Inputs /\ \A r : Promise!Reach(r)' = Promise!Reach(r)
    BY <1>1, SameReach
  <1>13. (TimesInv /\ MadeInv /\ ExecutablesInv /\ ReachInv)'
    BY <1>1, <1>12 DEF PromiseInv, TimesInv, MadeInv, UpToDate, ExecutablesInv, ExecutableInv,
                       LinkedSet, ClosedThere, ReachInv
  <1>14. CompiledInv'
    BY <1>1, SameCompiled DEF PromiseInv, KnownInv, Finished, OnPath
  <1>15. MadeOfPresentInputs'
    <2>1. Linked(exe[root])' = Linked(file)
      BY <1>0, <1>1 DEF Linked
    <2> QED
      BY <1>11, <1>12, <2>1, <1>1 DEF MadeOfPresentInputs
  <1> QED
    BY <1>13, <1>14, <1>15 DEF PromiseInv

(* Every step keeps the invariant, one case for each action.               *)
LEMMA NextPromise == ASSUME Plain, KnownInv, PromiseInv, [Next]_vars PROVE PromiseInv'
  <1>1. CASE Owner
    BY <1>1, OwnerPromise
  <1>2. CASE Clock
    BY <1>2, ClockPromise
  <1>3. ASSUME NEW r \in Root, NEW u \in Mode, Start(r, u) PROVE PromiseInv'
    BY <1>3, StartPromise
  <1>4. CASE Visit \/ ImportsDone
    BY <1>4, VisitPromise
  <1>5. CASE Descend
    BY <1>5, DescendPromise
  <1>6. CASE UpdateObjectFile
    BY <1>6, UpdateObjectFilePromise
  <1>7. CASE RunObncCompile
    BY <1>7, RunObncCompilePromise
  <1>8. CASE ObncCompileDone
    BY <1>8, ObncCompileDonePromise
  <1>9. CASE CompileC
    BY <1>9, CompileCPromise
  <1>10. CASE WriteDirFile
    BY <1>10, WriteDirFilePromise
  <1>11. CASE CompareSymFiles
    BY <1>11, CompareSymFilesPromise
  <1>12. CASE CreateExecutable
    BY <1>12, CreateExecutablePromise
  <1>13. CASE ExecutableUpToDate
    BY <1>13, ExecutableUpToDatePromise
  <1>14. CASE BuildError
    BY <1>14, BuildErrorPromise
  <1>15. CASE UNCHANGED vars
    <2>1. UNCHANGED <<clock, obn, hand, env, gen, obj, exe, job, pc, root, path, discovered>>
      BY <1>15 DEF vars, fileVars, written, generated, buildVars
    <2>2. UNCHANGED Inputs /\ \A r : Promise!Reach(r)' = Promise!Reach(r)
      BY <2>1, SameReach
    <2>3. (TimesInv /\ MadeInv /\ ExecutablesInv /\ ReachInv)'
      BY <2>1, <2>2 DEF PromiseInv, TimesInv, MadeInv, UpToDate, ExecutablesInv,
                        ExecutableInv, LinkedSet, ClosedThere, ReachInv
    <2>4. CompiledInv'
      BY <2>1 DEF PromiseInv, CompiledInv, UpToDate, Older, At, Current, Finished, OnPath
    <2>5. MadeOfPresentInputs'
      BY <2>1, <2>2 DEF PromiseInv, MadeOfPresentInputs, Linked
    <2> QED
      BY <2>3, <2>4, <2>5 DEF PromiseInv
  <1>16. ~Interrupt
    BY DEF Interrupt, Plain, Undisturbed
  <1> QED
    BY <1>1, <1>2, <1>3, <1>4, <1>5, <1>6, <1>7, <1>8, <1>9, <1>10, <1>11, <1>12,
       <1>13, <1>14, <1>15, <1>16 DEF Next, BuildStep

-----------------------------------------------------------------------------
(* The state of BuildPromise that a state of ObncBuild stands for.         *)
Programs == [r \in Module |-> Linked(exe[r])]
Built == IF pc = "done" THEN root ELSE NoFile

LEMMA InputsType ==
    ASSUME BuildInv
    PROVE  Inputs \in [Module -> [src : Source, hand : Optional(Time), env : Optional(Time)]]
  BY DEF Inputs, BuildInv, TypeOK, FilesTypeOK, Table

LEMMA InitPromised == Init => Promise!Init
  <1> SUFFICES ASSUME Init PROVE Promise!Init
    OBVIOUS
  <1>1. BuildInv
    BY InitInv
  <1>2. pc = "idle" /\ \A r \in Module : Linked(exe[r]) = NoFile
    BY DEF Init, FilesInit, Linked
  <1> QED
    BY <1>1, <1>2, InputsType DEF Promise!Init

(* The owner edits, a build begins, and linking or leaving the executable  *)
(* builds it; no other step is seen.                                       *)
LEMMA StepPromised ==
    ASSUME Plain, KnownInv, PromiseInv, [Next]_vars
    PROVE  Promise!Next \/ UNCHANGED <<Inputs, Programs, Built>>
  <1>1. CASE Owner
    <2>1. pc' = "idle" /\ UNCHANGED exe
      BY <1>1 DEF Owner, OwnerStep, generated, Plain, Undisturbed, Orderly, Running, KnownInv,
                  BuildInv, TypeOK, PC
    <2>2. BuildInv'
      BY <1>1, OwnerInv DEF KnownInv
    <2>3. Inputs' \in [Module -> [src : Source, hand : Optional(Time), env : Optional(Time)]]
      BY <2>2 DEF Inputs, BuildInv, TypeOK, FilesTypeOK, Table
    <2>4. Promise!Edit
      BY <2>1, <2>3 DEF Promise!Edit, Linked
    <2> QED
      BY <2>4 DEF Promise!Next
  <1>2. ASSUME NEW r \in Root, NEW u \in Mode, Start(r, u) PROVE Promise!Next
    <2>1. pc' = "visit" /\ UNCHANGED <<obn, hand, env, exe>>
      BY <1>2 DEF Start, fileVars, written, generated
    <2>2. Promise!Begin
      BY <2>1, SameReach DEF Promise!Begin, Linked
    <2> QED
      BY <2>2 DEF Promise!Next
  <1>3. CASE CreateExecutable \/ ExecutableUpToDate
    <2>1. /\ pc' = "done" /\ root' = root /\ root \in Root
          /\ UNCHANGED <<obn, hand, env>>
          /\ \A r \in Module \ {root} : exe'[r] = exe[r]
      BY <1>3, CreateExecutablePromise
         DEF CreateExecutable, ExecutableUpToDate, fileVars, written, generated, buildVars,
             KnownInv, BuildInv, TypeOK
    <2>2. MadeOfPresentInputs'
      BY <1>3, CreateExecutablePromise, ExecutableUpToDatePromise DEF PromiseInv
    <2>3. UNCHANGED Inputs /\ Promise!Reach(root)' = Promise!Reach(root)
      BY <2>1, SameReach
    <2>4. Linked(exe[root])' = [m \in Promise!Reach(root) |-> Inputs[m]]
      BY <2>1, <2>2, <2>3 DEF MadeOfPresentInputs
    <2>5. Programs' = [Programs EXCEPT ![root] = [m \in Promise!Reach(root) |-> Inputs[m]]]
      <3>1. Programs' = [r \in Module |-> Linked(exe'[r])]
        BY DEF Programs, Linked
      <3>2. Linked(exe'[root]) = [m \in Promise!Reach(root) |-> Inputs[m]]
        BY <2>1, <2>4 DEF Linked
      <3>3. \A r \in Module \ {root} : Linked(exe'[r]) = Linked(exe[r])
        BY <2>1
      <3> QED
        BY <2>1, <3>1, <3>2, <3>3, RootAssumption DEF Programs
    <2>6. Promise!Build(root)
      BY <2>1, <2>3, <2>5 DEF Promise!Build, Programs
    <2> QED
      BY <2>1, <2>6 DEF Promise!Next
  <1>4. CASE /\ UNCHANGED <<obn, hand, env, exe>>
             /\ UNCHANGED <<pc, root>> \/ (pc /= "done" /\ pc' /= "done")
    BY <1>4, SameReach DEF Programs, Linked, Built
  <1>5. CASE Clock \/ UNCHANGED vars
    BY <1>4, <1>5 DEF Clock, Tick, vars, fileVars, written, generated, buildVars
  <1>6. CASE Visit \/ Descend \/ ImportsDone \/ UpdateObjectFile \/ ObncCompileDone
    BY <1>4, <1>6 DEF Visit, Descend, ImportsDone, UpdateObjectFile, ObncCompileDone,
                      fileVars, written, generated
  <1>7. CASE RunObncCompile
    BY <1>4, <1>7 DEF RunObncCompile, CompileStep, OpenSource, ImportList, CloseCFile,
                      CloseHeader, ExportSymbolTable, written
  <1>8. CASE CompileC \/ WriteDirFile \/ CompareSymFiles
    BY <1>4, <1>8 DEF CompileC, WriteDirFile, CompareSymFiles, written
  <1>9. CASE BuildError
    BY <1>4, <1>9, SymbolFilesThere
       DEF BuildError, ImportCycle, Abandon, fileVars, written, generated, KnownInv
  <1>10. ~Interrupt
    BY DEF Interrupt, Plain, Undisturbed
  <1> QED
    BY <1>1, <1>2, <1>3, <1>5, <1>6, <1>7, <1>8, <1>9, <1>10 DEF Next, BuildStep

-----------------------------------------------------------------------------
(* PromiseInv is an invariant together with those of the other modules.    *)
LEMMA PromiseInvariant ==
    ASSUME Plain PROVE Spec => [](KnownInv /\ PromiseInv)
  <1>1. Init => KnownInv /\ PromiseInv
    BY InitInv, InitFresh, InitCycle, InitPromise DEF KnownInv
  <1>2. KnownInv /\ PromiseInv /\ [Next]_vars => (KnownInv /\ PromiseInv)'
    BY NextInv, NextFresh, NextCycle, NextPromise DEF KnownInv, Plain, Undisturbed
  <1> QED
    BY <1>1, <1>2, PTL DEF Spec

(* The executable of a finished build is made of the present source,       *)
(* handwritten C and flags of every module in reach, and of no other.      *)
THEOREM ExecutableTrue == ASSUME Plain PROVE Spec => []MadeOfPresentInputs
  <1>1. KnownInv /\ PromiseInv => MadeOfPresentInputs
    BY DEF PromiseInv
  <1> QED
    BY <1>1, PromiseInvariant, PTL

(* obnc-compile reads the import list of a module when its imports are     *)
(* compiled and their object files up to date.                             *)
THEOREM ImportsCompiled == ASSUME Plain PROVE Spec => []ImportsFirst
  <1>1. KnownInv /\ PromiseInv => ImportsFirst
    <2> SUFFICES ASSUME KnownInv, PromiseInv, At("imports"), NEW i \in job.text.imports
                 PROVE  i \in Finished /\ ~Older(obj[i], obn[i].time)
      BY DEF ImportsFirst, Finished
    <2>1. pc = "obnc-compile" /\ job.module = Current /\ job.text = obn[Current].text
      BY DEF At, KnownInv, BuildInv, JobInv, FreshFiles
    <2>2. i \in Finished
      BY <2>1, RootOnPath
         DEF KnownInv, CycleInv, VisitedInv, PathInv, ListedInv, FinishedInv
    <2> QED
      BY <2>1, <2>2 DEF PromiseInv, CompiledInv, UpToDate
  <1> QED
    BY <1>1, PromiseInvariant, PTL

(* ObncBuild implements BuildPromise: a build that succeeds leaves what is *)
(* promised, and every other step leaves the executables alone.            *)
THEOREM PromiseIsKept == ASSUME Plain PROVE Spec => PromiseKept
  <1>1. KnownInv /\ PromiseInv /\ [Next]_vars
            => [Promise!Next]_<<Inputs, [r \in Module |-> Linked(exe[r])],
                               IF pc = "done" THEN root ELSE NoFile>>
    BY StepPromised DEF Programs, Built
  <1> QED
    BY <1>1, InitPromised, PromiseInvariant, PTL DEF Spec, PromiseKept, Promise!Spec

-----------------------------------------------------------------------------
(* A build that nobody stops fails for an import cycle and for nothing     *)
(* else, where the directory keeps its name and -x is not used: proof that *)
(* the C compiler finds every header and the linker every name.            *)
Steady == Undisturbed /\ "rename" \notin Disturbance /\ Mode \subseteq {FALSE}

(* A module was last compiled as an entry point or as an import, and its   *)
(* header and its symbol file are of that role, or it is being compiled.   *)
(* No module that is linked imports the root.                              *)
RoleInv ==
    /\ \A m \in Module : gen[m] /= NoFile =>
          \/ pc = "obnc-compile" /\ m = Current
          \/ /\ gen[m].entry <=> sym[m] = NoFile
             /\ gen[m].entry <=> hdr[m] = NoFile
    /\ At("h") \/ At("sym") \/ At("exit") => gen[Current].entry = job.entry
    /\ At("sym") \/ At("exit") => (job.entry <=> hdr[Current] = NoFile)
    /\ At("exit") => (job.entry <=> sym[Current] = NoFile)
    /\ pc \in {"cc", "dir", "compare"} => (IsRoot <=> sym[Current] = NoFile)
    /\ pc = "link" => sym[root] = NoFile /\ \A m \in discovered : root \notin listed[m]

(* The C files of the modules that the traversal has left are new.         *)
TextInv ==
    /\ \A m \in Module : obn[m].time <= clock
    /\ At("h") \/ At("sym") \/ At("exit") \/ pc \in {"cc", "dir", "compare"}
          => ~Older(gen[Current], obn[Current].time)
    /\ pc /= "idle" => \A m \in Finished : ~Older(gen[m], obn[m].time)

(* All names have the same prefix.                                         *)
DirInv == \A m \in Module : hdr[m] /= NoFile => hdr[m].face.dir = dirName

(* Object code is made of the C file and the header that are there, except *)
(* for the module being compiled, and of a header of each import.          *)
MadeHere(m) ==
    /\ obj[m] /= NoFile
    /\ obj[m].code.src = gen[m].text /\ obj[m].code.entry = gen[m].entry
    /\ obj[m].code.own = FaceOf(m)
CodeInv ==
    \A m \in Module :
        /\ gen[m] /= NoFile =>
              (pc \in {"obnc-compile", "cc"} /\ m = Current) \/ MadeHere(m)
        /\ obj[m] /= NoFile => \A i \in obj[m].code.src.imports :
              obj[m].code.faces[i] /= NoFile /\ obj[m].code.faces[i].dir = dirName

LinkInv == RoleInv /\ TextInv /\ DirInv /\ CodeInv

LEMMA InitLink == Init => LinkInv
  <1> SUFFICES ASSUME Init PROVE LinkInv
    OBVIOUS
  <1>1. /\ clock = 0 /\ \A m \in Module : obn[m].time = 0
        /\ pc = "idle" /\ job = NoJob
        /\ \A m \in Module : gen[m] = NoFile /\ hdr[m] = NoFile /\ obj[m] = NoFile
    BY DEF Init, FilesInit
  <1> QED
    BY <1>1 DEF LinkInv, RoleInv, TextInv, DirInv, CodeInv, At

(* Steps that are not those of compiling a module, and write no file.      *)
LEMMA SameLink ==
    ASSUME KnownInv, LinkInv, job' = NoJob,
           UNCHANGED <<dirName, gen, hdr, sym, obj>>,
           pc \notin {"obnc-compile", "cc", "dir", "compare"},
           pc' \notin {"obnc-compile", "cc", "dir", "compare", "link"},
           UNCHANGED <<clock, obn>>,
           pc' /= "idle" => pc /= "idle" /\ Finished' \subseteq Finished
    PROVE  LinkInv'
  <1>1. ~(At("h") \/ At("sym") \/ At("exit"))'
    BY DEF At
  <1>2. RoleInv'
    BY <1>1 DEF LinkInv, RoleInv
  <1>3. TextInv'
    BY <1>1 DEF LinkInv, TextInv, Older
  <1>4. CodeInv'
    BY DEF LinkInv, CodeInv, MadeHere, FaceOf
  <1> QED
    BY <1>2, <1>3, <1>4 DEF LinkInv, DirInv

LEMMA OwnerLink == ASSUME Steady, KnownInv, LinkInv, Owner PROVE LinkInv'
  <1>1. /\ UNCHANGED <<clock, gen, hdr, sym, obj, job>> /\ pc \in {"idle", "done"}
        /\ pc' = "idle"
    BY DEF Owner, OwnerStep, generated, Steady, Undisturbed, Orderly, Running, KnownInv,
           BuildInv, TypeOK, PC
  <1>2. job = NoJob
    BY <1>1 DEF KnownInv, BuildInv, JobInv
  <1>3. dirName' = dirName
    BY DEF Owner, OwnerStep, SaveSource, SaveC, RemoveC, SaveEnv, Rename, Steady
  <1>4. \A m \in Module : obn'[m] = obn[m] \/ obn'[m].time = clock
    <2>1. obn \in [Module -> [text : Source, time : Time]]
      BY DEF KnownInv, BuildInv, TypeOK, FilesTypeOK
    <2>2. ASSUME NEW k \in Module, SaveSource(k)
          PROVE  \A m \in Module : obn'[m] = obn[m] \/ obn'[m].time = clock
      <3>1. PICK text \in Draft[k] : obn' = [obn EXCEPT ![k] = [text |-> text, time |-> clock]]
        BY <2>2 DEF SaveSource
      <3> QED
        BY <2>1, <3>1
    <2> QED
      BY <2>2 DEF Owner, OwnerStep, SaveC, RemoveC, SaveEnv, Rename
  <1>5. TextInv'
    BY <1>1, <1>2, <1>4, TimeTypes DEF LinkInv, TextInv, At, KnownInv
  <1>6. RoleInv' /\ DirInv' /\ CodeInv'
    BY <1>1, <1>2, <1>3 DEF LinkInv, RoleInv, DirInv, CodeInv, MadeHere, FaceOf, At
  <1> QED
    BY <1>5, <1>6 DEF LinkInv

LEMMA ClockLink == ASSUME KnownInv, LinkInv, Clock PROVE LinkInv'
  <1>1. /\ clock' = clock + 1
        /\ UNCHANGED <<dirName, obn, gen, hdr, sym, obj, job, pc, root, path, listed, discovered>>
    BY DEF Clock, Tick, written, generated, buildVars
  <1>2. UNCHANGED <<OnPath, Finished, Current, IsRoot>>
    BY <1>1 DEF OnPath, Finished, Current, IsRoot
  <1>3. TextInv'
    BY <1>1, <1>2, TimeTypes DEF LinkInv, TextInv, At, Older, KnownInv
  <1> QED
    BY <1>1, <1>2, <1>3 DEF LinkInv, RoleInv, DirInv, CodeInv, MadeHere, FaceOf, At

(* A build begins with nothing finished; the traversal goes on.            *)
LEMMA StartLink ==
    ASSUME KnownInv, LinkInv, NEW r \in Root, NEW u \in Mode, Start(r, u)
    PROVE  LinkInv'
  <1>1. /\ pc' = "visit" /\ Finished' = {} /\ job = NoJob /\ pc \in {"idle", "done"}
        /\ UNCHANGED <<clock, dirName, obn, gen, hdr, sym, obj, job>>
    BY StartFinished DEF Start, Running, fileVars, written, generated, KnownInv, BuildInv, JobInv
  <1> QED
    BY <1>1 DEF LinkInv, RoleInv, TextInv, DirInv, CodeInv, MadeHere, FaceOf, At

LEMMA TraverseLink ==
    ASSUME KnownInv, LinkInv, Visit \/ Descend \/ ImportsDone PROVE LinkInv'
  <1>1. /\ pc \in {"visit", "imports"} /\ pc' \in {"visit", "imports", "update"}
        /\ UNCHANGED <<clock, dirName, obn, gen, hdr, sym, obj, job>>
    BY DEF Visit, Descend, ImportsDone, fileVars, written, generated, buildVars
  <1>2. job = NoJob
    BY <1>1 DEF KnownInv, BuildInv, JobInv
  <1>3. Finished' \subseteq Finished
    <2>1. CASE Visit \/ ImportsDone
      BY <2>1 DEF Visit, ImportsDone, buildVars, Finished, OnPath
    <2>2. CASE Descend
      <3>1. PICK i \in listed[Current] \ discovered :
                path' = <<i>> \o path /\ discovered' = discovered \union {i}
        BY <2>2 DEF Descend
      <3>2. path \in Seq(Module) /\ path /= <<>> /\ i \in Module
        BY <1>1, <3>1, CurrentInModule DEF KnownInv, BuildInv, TypeOK
      <3>3. OnPath' = OnPath \union {i}
        BY <3>1, <3>2, PushOnPath
      <3> QED
        BY <3>1, <3>3 DEF Finished
    <2> QED
      BY <2>1, <2>2
  <1> QED
    BY <1>1, <1>2, <1>3, SameLink

(* What is left as it is has the role and the text that it should have.    *)
LEMMA UpdateObjectFileLink ==
    ASSUME KnownInv, LinkInv, UpdateObjectFile PROVE LinkInv'
  <1>1. /\ pc = "update" /\ Current \in Module /\ job = NoJob
        /\ UNCHANGED <<clock, dirName, obn, gen, hdr, obj, root, path, listed, discovered>>
    BY CurrentInModule DEF UpdateObjectFile, written, buildVars, KnownInv, BuildInv, JobInv
  <1>2. UNCHANGED <<Finished, Current, IsRoot>>
    BY <1>1 DEF Finished, OnPath, Current, IsRoot
  <1>3. DirInv'
    BY <1>1 DEF LinkInv, DirInv
  <1>4. CASE pc' = "obnc-compile" /\ job' = NewJob(Current, IsRoot)
             /\ sym' = [sym EXCEPT ![Current] = NoFile]
    <2>1. ~(At("h") \/ At("sym") \/ At("exit"))'
      BY <1>4 DEF NewJob, At
    <2>2. \A m \in Module \ {Current} : sym'[m] = sym[m]
      BY <1>4 DEF KnownInv, BuildInv, TypeOK, FilesTypeOK, Table
    <2>3. RoleInv'
      BY <1>1, <1>2, <1>4, <2>1, <2>2 DEF LinkInv, RoleInv
    <2>4. TextInv'
      BY <1>1, <1>2, <1>4, <2>1 DEF LinkInv, TextInv, Older
    <2>5. CodeInv'
      BY <1>1, <1>2, <1>4 DEF LinkInv, CodeInv, MadeHere, FaceOf
    <2> QED
      BY <1>3, <2>3, <2>4, <2>5 DEF LinkInv
  <1>5. CASE /\ ~OberonCompilationNeeded(Current, Stale(Current), IsRoot)
             /\ UNCHANGED <<sym, job>> /\ pc' \in {"cc", "dir"}
    <2>1. /\ ~Older(gen[Current], obn[Current].time)
          /\ IsRoot <=> sym[Current] = NoFile
      BY <1>5 DEF OberonCompilationNeeded, Older
    <2>2. ~(At("h") \/ At("sym") \/ At("exit"))'
      BY <1>1, <1>5 DEF At
    <2>3. RoleInv'
      BY <1>1, <1>2, <1>5, <2>1, <2>2 DEF LinkInv, RoleInv
    <2>4. TextInv'
      BY <1>1, <1>2, <1>5, <2>1, <2>2 DEF LinkInv, TextInv, Older
    <2>5. CodeInv'
      BY <1>1, <1>2, <1>5 DEF LinkInv, CodeInv, MadeHere, FaceOf
    <2> QED
      BY <1>3, <2>3, <2>4, <2>5 DEF LinkInv
  <1> QED
    BY <1>1, <1>4, <1>5 DEF UpdateObjectFile

(* obnc-compile writes the files of one role, one after another.           *)
LEMMA RunObncCompileLink ==
    ASSUME KnownInv, LinkInv, RunObncCompile PROVE LinkInv'
  <1> DEFINE m == Current
  <1>1. /\ pc = "obnc-compile" /\ pc' = pc /\ m \in Module /\ job.module = m
        /\ job \in Job /\ job.entry \in BOOLEAN /\ job /= NoJob
        /\ UNCHANGED <<clock, dirName, obn, obj, root, path, listed, discovered>>
    <2>1. UNCHANGED <<clock, dirName, obn, obj>>
      BY DEF RunObncCompile, CompileStep, OpenSource, ImportList, CloseCFile, CloseHeader,
             ExportSymbolTable, written
    <2>2. job /= NoJob
      BY RunningJob DEF KnownInv, BuildInv, JobInv
    <2> QED
      BY <2>1, <2>2, RunningJob DEF KnownInv, buildVars
  <1>2. /\ UNCHANGED <<Finished, Current, IsRoot>> /\ Finished \subseteq Module \ {m}
    BY <1>1, RootOnPath
       DEF Finished, OnPath, Current, IsRoot, KnownInv, BuildInv, TypeOK, CycleInv
  <1>3. \A k \in Module \ {m} : gen'[k] = gen[k] /\ hdr'[k] = hdr[k] /\ sym'[k] = sym[k]
    BY <1>1 DEF RunObncCompile, CompileStep, OpenSource, ImportList, CloseCFile, CloseHeader,
                ExportSymbolTable, KnownInv, BuildInv, TypeOK, FilesTypeOK, Table
  <1>4. CodeInv'
    BY <1>1, <1>2, <1>3 DEF LinkInv, CodeInv, MadeHere, FaceOf
  <1>5. /\ pc' = "obnc-compile"
        /\ \A k \in Module \ {m} : gen'[k] /= NoFile =>
              /\ gen'[k].entry <=> sym'[k] = NoFile
              /\ gen'[k].entry <=> hdr'[k] = NoFile
        /\ \A k \in Finished : ~Older(gen'[k], obn'[k].time)
        /\ \A k \in Module : obn'[k].time <= clock'
    BY <1>1, <1>2, <1>3 DEF LinkInv, RoleInv, TextInv, Older
  <1>6. BuildInv'
    BY NextInv DEF KnownInv, Next, BuildStep
  <1>7. gen' \in Table(GenFile) /\ hdr \in Table(HdrFile) /\ sym \in Table(SymFile)
    BY <1>6 DEF KnownInv, BuildInv, TypeOK, FilesTypeOK
  <1>8. CASE OpenSource \/ ImportList
    <2>1. job'.at \in {"imports", "c"} /\ UNCHANGED <<gen, hdr, sym>>
      BY <1>1, <1>8 DEF OpenSource, ImportList, Job
    <2>2. RoleInv' /\ TextInv'
      BY <1>1, <1>2, <1>5, <2>1 DEF RoleInv, TextInv, At
    <2> QED
      BY <1>1, <1>4, <2>1, <2>2 DEF LinkInv, DirInv
  <1>9. CASE CloseCFile
    <2> DEFINE file == [text |-> job.text, entry |-> job.entry, syms |-> job.syms,
                        time |-> clock]
    <2>1. /\ gen' = [gen EXCEPT ![m] = file] /\ UNCHANGED <<hdr, sym>>
          /\ job'.at = "h" /\ job'.entry = job.entry
      BY <1>1, <1>9 DEF CloseCFile, GoTo, Job
    <2>2. gen'[m] = file
      BY <1>1, <2>1 DEF KnownInv, BuildInv, TypeOK, FilesTypeOK, Table
    <2>3. gen'[m] /= NoFile
      BY <1>1, <1>2, <1>6, <2>1 DEF BuildInv, JobInv
    <2>4. ~Older(gen'[m], obn'[m].time)
      BY <1>1, <2>2, <2>3, TimeTypes DEF LinkInv, TextInv, Older, KnownInv
    <2>5. RoleInv' /\ TextInv'
      BY <1>1, <1>2, <1>5, <2>1, <2>2, <2>4 DEF RoleInv, TextInv, At
    <2> QED
      BY <1>1, <1>4, <2>1, <2>5 DEF LinkInv, DirInv
  <1>10. CASE CloseHeader
    <2> DEFINE file == [face |-> [exports |-> job.text.exports, mentions |-> Mentioned(job),
                                  shape |-> job.text.shape, dir |-> dirName],
                        time |-> clock]
    <2>1. /\ hdr' = [hdr EXCEPT ![m] = IF job.entry THEN NoFile ELSE file]
          /\ UNCHANGED <<gen, sym>> /\ At("h") /\ job'.at = "sym" /\ job'.entry = job.entry
      BY <1>1, <1>10 DEF CloseHeader, GoTo, Job
    <2>2. hdr'[m] = IF job.entry THEN NoFile ELSE file
      BY <1>1, <1>7, <2>1 DEF Table
    <2>3. job.entry <=> hdr'[m] = NoFile
      <3>1. ~job.entry => file \in HdrFile
        <4>1. hdr' \in Table(HdrFile) /\ job.text \in Source /\ clock \in Time /\ dirName \in DirName
          BY <1>6, RunningJob DEF KnownInv, BuildInv, TypeOK, FilesTypeOK
        <4>2. file.face \in Face
          BY <4>1 DEF Face, Source, Mentioned
        <4> QED
          BY <4>1, <4>2 DEF HdrFile
      <3> QED
        BY <2>2, <3>1, NoFileAssumption
    <2>4. gen[m].entry = job.entry /\ ~Older(gen[m], obn[m].time)
      BY <2>1 DEF LinkInv, RoleInv, TextInv
    <2>5. RoleInv' /\ TextInv'
      BY <1>1, <1>2, <1>5, <2>1, <2>3, <2>4 DEF RoleInv, TextInv, At
    <2>6. DirInv'
      BY <1>1, <1>3, <2>2, <2>3 DEF LinkInv, DirInv
    <2> QED
      BY <1>4, <2>5, <2>6 DEF LinkInv
  <1>11. CASE ExportSymbolTable
    <2>1. /\ UNCHANGED <<gen, hdr>> /\ At("sym") /\ job'.at = "exit" /\ job'.entry = job.entry
      BY <1>1, <1>11 DEF ExportSymbolTable, GoTo, Job
    <2>2. job.entry <=> sym'[m] = NoFile
      <3>1. job.entry => sym'[m] = NoFile
        BY <1>1, <1>7, <1>11 DEF ExportSymbolTable, Table
      <3> QED
        BY <1>1, <1>11, <3>1, ExportedFile DEF KnownInv
    <2>3. /\ gen[m].entry = job.entry /\ ~Older(gen[m], obn[m].time)
          /\ job.entry <=> hdr[m] = NoFile
      BY <2>1 DEF LinkInv, RoleInv, TextInv
    <2>4. RoleInv' /\ TextInv'
      BY <1>1, <1>2, <1>5, <2>1, <2>2, <2>3 DEF RoleInv, TextInv, At
    <2> QED
      BY <1>1, <1>4, <2>1, <2>4 DEF LinkInv, DirInv
  <1> QED
    BY <1>8, <1>9, <1>10, <1>11 DEF RunObncCompile, CompileStep

(* obnc-compile has ended: the files of the module are of its role.        *)
LEMMA ObncCompileDoneLink ==
    ASSUME Steady, KnownInv, LinkInv, ObncCompileDone PROVE LinkInv'
  <1>1. /\ pc = "obnc-compile" /\ pc' = "cc" /\ At("exit") /\ job' = NoJob
        /\ UNCHANGED <<clock, dirName, obn, gen, hdr, sym, obj, root, path, listed, discovered>>
    BY DEF ObncCompileDone, fileVars, written, generated, buildVars, KnownInv, Steady,
           BuildInv, TypeOK
  <1>2. UNCHANGED <<Finished, Current, IsRoot>>
    BY <1>1 DEF Finished, OnPath, Current, IsRoot
  <1>3. job.entry <=> IsRoot
    BY <1>1 DEF At, KnownInv, CycleInv, SymbolFilesInv
  <1>4. ~(At("h") \/ At("sym") \/ At("exit"))'
    BY <1>1 DEF At
  <1>5. RoleInv' /\ TextInv'
    BY <1>1, <1>2, <1>3, <1>4 DEF LinkInv, RoleInv, TextInv, At, Older
  <1>6. DirInv' /\ CodeInv'
    BY <1>1, <1>2 DEF LinkInv, DirInv, CodeInv, MadeHere, FaceOf
  <1> QED
    BY <1>5, <1>6 DEF LinkInv

(* The C compiler reads the headers of imports, all of which are there.    *)
LEMMA HeadersThere ==
    ASSUME KnownInv, LinkInv, pc = "cc"
    PROVE  /\ hdr[Current] = NoFile <=> IsRoot
           /\ \A i \in gen[Current].text.imports : i \in Module /\ hdr[i] /= NoFile
  <1>1. /\ PathInv /\ ListedInv /\ FinishedInv /\ Current \in OnPath /\ root \in OnPath
        /\ Current \in Module
    BY RootOnPath, CurrentInModule DEF KnownInv, CycleInv, VisitedInv
  <1>2. gen[Current] /= NoFile /\ gen[Current].text = obn[Current].text
    BY <1>1 DEF LinkInv, TextInv, KnownInv, FreshFiles, FreshFile, Older
  <1>3. hdr[Current] = NoFile <=> IsRoot
    BY <1>1, <1>2 DEF LinkInv, RoleInv
  <1>4. ASSUME NEW i \in gen[Current].text.imports PROVE i \in Module /\ hdr[i] /= NoFile
    <2>1. i \in Finished \ {root}
      BY <1>1, <1>2 DEF PathInv, ListedInv, FinishedInv, Finished
    <2>2. i \in Module /\ gen[i] /= NoFile
      BY <2>1 DEF Finished, KnownInv, BuildInv, TypeOK, TraversalInv, Running, Compiled
    <2>3. sym[i] /= NoFile
      BY <2>1 DEF KnownInv, CycleInv, SymbolFilesInv
    <2> QED
      BY <2>2, <2>3 DEF LinkInv, RoleInv
  <1> QED
    BY <1>3, <1>4

LEMMA CompileCLink == ASSUME KnownInv, LinkInv, CompileC PROVE LinkInv'
  <1>1. /\ pc = "cc" /\ pc' = "dir" /\ Current \in Module /\ job = NoJob
        /\ UNCHANGED <<clock, dirName, obn, gen, hdr, sym, job, root, path, listed, discovered>>
    BY CurrentInModule DEF CompileC, written, buildVars, KnownInv, BuildInv, JobInv
  <1>2. UNCHANGED <<Finished, Current, IsRoot>>
    BY <1>1 DEF Finished, OnPath, Current, IsRoot
  <1>3. RoleInv' /\ TextInv' /\ DirInv'
    BY <1>1, <1>2 DEF LinkInv, RoleInv, TextInv, DirInv, At, Older
  <1>4. /\ \A m \in Module \ {Current} : obj'[m] = obj[m]
        /\ obj'[Current].code = ObjectCode(Current) /\ obj'[Current] /= NoFile
    <2>1. /\ obj' = [obj EXCEPT ![Current] = [code |-> ObjectCode(Current), time |-> clock]]
          /\ obj \in Table(ObjFile)
      BY DEF CompileC, KnownInv, BuildInv, TypeOK, FilesTypeOK
    <2>2. obj'[Current] = [code |-> ObjectCode(Current), time |-> clock]
      BY <1>1, <2>1 DEF Table
    <2>3. ObjectCode(Current) \in Code /\ clock \in Time
      BY <1>1, ObjectCodeType DEF KnownInv, BuildInv, TypeOK, FilesTypeOK, TraversalInv
    <2>4. obj'[Current] \in ObjFile
      BY <2>2, <2>3 DEF ObjFile
    <2> QED
      BY <2>1, <2>2, <2>4, NoFileAssumption DEF Table
  <1>5. MadeHere(Current)'
    BY <1>1, <1>2, <1>4 DEF MadeHere, ObjectCode, FaceOf
  <1>6. \A i \in obj'[Current].code.src.imports :
            /\ obj'[Current].code.faces[i] /= NoFile
            /\ obj'[Current].code.faces[i].dir = dirName
    <2> SUFFICES ASSUME NEW i \in gen[Current].text.imports
                 PROVE  FaceOf(i) /= NoFile /\ FaceOf(i).dir = dirName
      BY <1>1, <1>4, HeadersThere DEF ObjectCode
    <2>1. i \in Module /\ hdr[i] /= NoFile
      BY <1>1, HeadersThere
    <2>2. hdr[i] \in HdrFile
      BY <2>1 DEF KnownInv, BuildInv, TypeOK, FilesTypeOK, Table, Optional
    <2> QED
      BY <2>1, <2>2, NoFileAssumption DEF HdrFile, FaceOf, LinkInv, DirInv
  <1>7. CodeInv'
    BY <1>1, <1>2, <1>4, <1>5, <1>6 DEF LinkInv, CodeInv, MadeHere, FaceOf
  <1> QED
    BY <1>3, <1>7 DEF LinkInv

LEMMA WriteDirFileLink == ASSUME KnownInv, LinkInv, WriteDirFile PROVE LinkInv'
  <1>1. /\ pc = "dir" /\ pc' = "compare" /\ job = NoJob
        /\ UNCHANGED <<clock, dirName, obn, gen, hdr, sym, obj, job, root, path, listed, discovered>>
    BY DEF WriteDirFile, written, buildVars, KnownInv, BuildInv, JobInv
  <1>2. UNCHANGED <<Finished, Current, IsRoot>>
    BY <1>1 DEF Finished, OnPath, Current, IsRoot
  <1> QED
    BY <1>1, <1>2 DEF LinkInv, RoleInv, TextInv, DirInv, CodeInv, MadeHere, FaceOf, At, Older

(* The root is left last, when no module that was left before imports it.  *)
LEMMA CompareSymFilesLink == ASSUME KnownInv, LinkInv, CompareSymFiles PROVE LinkInv'
  <1>1. /\ pc = "compare" /\ job = NoJob /\ path' = Tail(path)
        /\ pc' = IF IsRoot THEN "link" ELSE "imports"
        /\ UNCHANGED <<clock, dirName, obn, gen, hdr, sym, obj, job, root, listed, discovered>>
    BY DEF CompareSymFiles, written, KnownInv, BuildInv, JobInv
  <1>2. /\ PathInv /\ ListedInv /\ FinishedInv /\ Current \in OnPath /\ root \in OnPath
        /\ IsRoot => Current = root
        /\ path \in Seq(Module) /\ path /= <<>>
    BY <1>1, RootOnPath, CurrentInModule DEF KnownInv, CycleInv, VisitedInv
  <1>3. /\ path' = <<>> <=> IsRoot
        /\ Finished' \subseteq Finished \union {Current}
    BY <1>1, <1>2, PathPop, PopOnPath DEF IsRoot, Finished, PathInv
  <1>4. IsRoot => sym[root] = NoFile /\ \A m \in discovered : root \notin listed[m]
    <2> SUFFICES ASSUME IsRoot
                 PROVE  sym[root] = NoFile /\ \A m \in discovered : root \notin listed[m]
      OBVIOUS
    <2>1. sym[root] = NoFile
      BY <1>1, <1>2 DEF LinkInv, RoleInv
    <2>2. OnPath = {root}
      <3>1. \A k \in 1 .. Len(path) : path[k] = root
        BY <1>2 DEF IsRoot, PathInv, Current
      <3> QED
        BY <1>2, <3>1 DEF OnPath
    <2>3. discovered = Finished \union {root} /\ root \notin Finished
      BY <1>2, <2>2 DEF Finished, PathInv
    <2> QED
      BY <1>1, <1>2, <2>1, <2>3 DEF FinishedInv, Closed
  <1>5. ~(At("h") \/ At("sym") \/ At("exit"))'
    BY <1>1 DEF At
  <1>6. RoleInv'
    BY <1>1, <1>4, <1>5 DEF LinkInv, RoleInv
  <1>7. TextInv'
    BY <1>1, <1>3, <1>5 DEF LinkInv, TextInv, Older
  <1> QED
    BY <1>1, <1>6, <1>7 DEF LinkInv, DirInv, CodeInv, MadeHere, FaceOf

(* Linking and errors write no file that is linked.                        *)
LEMMA EndLink ==
    ASSUME KnownInv, LinkInv, CreateExecutable \/ ExecutableUpToDate \/ BuildError
    PROVE  LinkInv'
  <1>1. CASE CreateExecutable \/ ExecutableUpToDate
    <2>1. /\ pc = "link" /\ pc' = "done" /\ job' = job
          /\ UNCHANGED <<clock, dirName, obn, gen, hdr, sym, obj, path, discovered>>
      BY <1>1 DEF CreateExecutable, ExecutableUpToDate, fileVars, written, generated, buildVars
    <2>2. job = NoJob /\ Finished' = Finished
      BY <2>1 DEF KnownInv, BuildInv, JobInv, Finished, OnPath
    <2> QED
      BY <2>1, <2>2, SameLink
  <1>2. CASE BuildError
    <2>1. pc \in {"imports", "link"}
      BY <1>2, SymbolFilesThere DEF BuildError, ImportCycle, KnownInv
    <2>2. /\ pc' = "idle" /\ job' = NoJob
          /\ UNCHANGED <<clock, dirName, obn, gen, hdr, sym, obj>>
      BY <1>2 DEF BuildError, Abandon, fileVars, written, generated
    <2> QED
      BY <2>1, <2>2, SameLink
  <1> QED
    BY <1>1, <1>2

LEMMA NextLink == ASSUME Steady, KnownInv, LinkInv, [Next]_vars PROVE LinkInv'
  <1>1. CASE Owner
    BY <1>1, OwnerLink
  <1>2. CASE Clock
    BY <1>2, ClockLink
  <1>3. ASSUME NEW r \in Root, NEW u \in Mode, Start(r, u) PROVE LinkInv'
    BY <1>3, StartLink
  <1>4. CASE Visit \/ Descend \/ ImportsDone
    BY <1>4, TraverseLink
  <1>5. CASE UpdateObjectFile
    BY <1>5, UpdateObjectFileLink
  <1>6. CASE RunObncCompile
    BY <1>6, RunObncCompileLink
  <1>7. CASE ObncCompileDone
    BY <1>7, ObncCompileDoneLink
  <1>8. CASE CompileC
    BY <1>8, CompileCLink
  <1>9. CASE WriteDirFile
    BY <1>9, WriteDirFileLink
  <1>10. CASE CompareSymFiles
    BY <1>10, CompareSymFilesLink
  <1>11. CASE CreateExecutable \/ ExecutableUpToDate \/ BuildError
    BY <1>11, EndLink
  <1>12. CASE UNCHANGED vars
    <2>1. UNCHANGED <<written, clock, generated, job, pc, buildVars>>
      BY <1>12 DEF vars, fileVars
    <2> QED
      BY <2>1 DEF LinkInv, RoleInv, TextInv, DirInv, CodeInv, MadeHere, FaceOf, At, Finished,
                  OnPath, Current, IsRoot, written, generated, buildVars
  <1>13. ~Interrupt
    BY DEF Interrupt, Steady, Undisturbed
  <1> QED
    BY <1>1, <1>2, <1>3, <1>4, <1>5, <1>6, <1>7, <1>8, <1>9, <1>10, <1>11, <1>12, <1>13
       DEF Next, BuildStep

(* What the linker is given fits together.                                 *)
LEMMA Links == ASSUME Steady, KnownInv, LinkInv PROVE LinksClean
  <1> SUFFICES ASSUME pc = "link", NEW m \in discovered
               PROVE  /\ LinkInput(m).entry = (m = root)
                      /\ \A i \in LinkInput(m).src.imports :
                            /\ i \in discovered
                            /\ LinkInput(i).own /= NoFile
                            /\ LinkInput(i).own.dir = LinkInput(m).faces[i].dir
    BY DEF LinksClean, Linkable
  <1>1. PathInv /\ ListedInv /\ FinishedInv
    BY DEF KnownInv, CycleInv, VisitedInv
  <1>2. Finished = discovered /\ discovered \subseteq Module
    BY <1>1 DEF PathInv, Finished, OnPath, KnownInv, BuildInv, TypeOK
  <1>3. ~unified
    BY DEF Steady, KnownInv, BuildInv, TypeOK
  <1>4. ASSUME NEW k \in discovered
        PROVE  /\ gen[k] /= NoFile /\ MadeHere(k)
               /\ gen[k].text.imports = listed[k] /\ gen[k].entry \in BOOLEAN
               /\ gen[k].entry <=> k = root
               /\ hdr[k] = NoFile <=> k = root
    <2>1. /\ gen[k] /= NoFile /\ MadeHere(k) /\ k \in Module
          /\ gen[k].entry <=> sym[k] = NoFile
          /\ gen[k].entry <=> hdr[k] = NoFile
      BY <1>2 DEF LinkInv, TextInv, RoleInv, CodeInv, Older
    <2>2. sym[k] = NoFile <=> k = root
      BY <1>2 DEF LinkInv, RoleInv, KnownInv, CycleInv, SymbolFilesInv
    <2>3. gen[k].text = obn[k].text
      BY <1>2, <2>1 DEF LinkInv, TextInv, KnownInv, FreshFiles, FreshFile
    <2>4. gen[k].entry \in BOOLEAN
      BY <2>1 DEF KnownInv, BuildInv, TypeOK, FilesTypeOK, Table, Optional, GenFile
    <2> QED
      BY <1>1, <1>2, <2>1, <2>2, <2>3, <2>4 DEF ListedInv
  <1>5. LinkInput(m).entry = (m = root)
    BY <1>3, <1>4 DEF LinkInput, MadeHere
  <1>6. ASSUME NEW i \in LinkInput(m).src.imports
        PROVE  /\ i \in discovered
               /\ LinkInput(i).own /= NoFile
               /\ LinkInput(i).own.dir = LinkInput(m).faces[i].dir
    <2>1. LinkInput(m) = obj[m].code /\ MadeHere(m) /\ i \in listed[m] /\ m \in Module
      BY <1>2, <1>3, <1>4 DEF LinkInput, MadeHere
    <2>2. i \in discovered /\ i /= root
      BY <1>1, <1>2, <2>1 DEF FinishedInv, Closed, LinkInv, RoleInv
    <2>3. hdr[i] /= NoFile /\ MadeHere(i) /\ LinkInput(i) = obj[i].code /\ i \in Module
      BY <1>2, <1>3, <1>4, <2>2 DEF LinkInput
    <2>4. hdr[i] \in HdrFile
      BY <2>3 DEF KnownInv, BuildInv, TypeOK, FilesTypeOK, Table, Optional
    <2>5. LinkInput(i).own = hdr[i].face /\ hdr[i].face \in Face /\ hdr[i].face.dir = dirName
      BY <2>3, <2>4 DEF MadeHere, FaceOf, HdrFile, LinkInv, DirInv
    <2>6. LinkInput(m).faces[i].dir = dirName
      BY <2>1 DEF LinkInv, CodeInv, MadeHere
    <2> QED
      BY <2>2, <2>5, <2>6, NoFileAssumption
  <1> QED
    BY <1>5, <1>6

LEMMA LinkInvariant == ASSUME Steady PROVE Spec => [](KnownInv /\ LinkInv)
  <1>1. Init => KnownInv /\ LinkInv
    BY InitInv, InitFresh, InitCycle, InitLink DEF KnownInv
  <1>2. KnownInv /\ LinkInv /\ [Next]_vars => (KnownInv /\ LinkInv)'
    BY NextInv, NextFresh, NextCycle, NextLink DEF KnownInv, Steady, Undisturbed
  <1> QED
    BY <1>1, <1>2, PTL DEF Spec

(* The C compiler finds every header that it is told to include, and the   *)
(* header of an entry point is gone.                                       *)
THEOREM HeadersAreThere == ASSUME Steady PROVE Spec => []HeadersFound
  <1>1. KnownInv /\ LinkInv => HeadersFound
    BY HeadersThere DEF HeadersFound
  <1> QED
    BY <1>1, LinkInvariant, PTL

(* The linker finds one main function, and every name that is used.        *)
THEOREM AlwaysLinks == ASSUME Steady PROVE Spec => []LinksClean
  <1>1. KnownInv /\ LinkInv => LinksClean
    BY Links
  <1> QED
    BY <1>1, LinkInvariant, PTL

(* obnc reports an error for import cycles and for nothing else.           *)
THEOREM OnlyCyclesFail == ASSUME Steady PROVE Spec => FailsForCycles
  <1>1. KnownInv /\ LinkInv => [BuildError => ImportCycle]_vars
    BY Links, SymbolFilesThere DEF BuildError, LinksClean, KnownInv
  <1> QED
    BY <1>1, LinkInvariant, PTL DEF FailsForCycles

-----------------------------------------------------------------------------
(* What a build leaves behind. Where no file is edited during a build,     *)
(* nothing is left to do after one that succeeds: proof that Settled is an *)
(* invariant of Spec, with builds stopped anywhere, with and without -x.   *)
(* Then what a build knows of changed imports: that the clients in an      *)
(* executable agree with their imports (ClientsAgree), and that clients    *)
(* are not recompiled for declarations that are only added                 *)
(* (ClientsSpared).                                                        *)

Unedited == "concurrent edit" \notin Disturbance

(* The root is at the end of the path and nowhere else.                    *)
RootInv ==
    pc /= "idle" =>
        /\ root \in discovered
        /\ pc \in {"link", "done"} => path = <<>>
        /\ pc \notin {"link", "done"} =>
              /\ path[Len(path)] = root
              /\ \A k \in 1 .. Len(path) - 1 : path[k] /= root

(* No file is younger than the present second.                             *)
SecondsInv ==
    \A m \in Module : /\ obn[m].time <= clock
                      /\ hand[m] /= NoFile => hand[m] <= clock
                      /\ env[m] /= NoFile => env[m] <= clock
                      /\ gen[m] /= NoFile => gen[m].time <= clock
                      /\ obj[m] /= NoFile => obj[m].time <= clock

(* What obnc-compile has written is as new as the source, and there is no  *)
(* symbol file of an entry point.                                          *)
Translated(m, isEntryPoint) ==
    /\ ~Older(gen[m], obn[m].time)
    /\ IF isEntryPoint THEN sym[m] = NoFile
       ELSE ~Older(sym[m], obn[m].time) /\ ~Older(hdr[m], obn[m].time)

(* A module for which obnc has nothing to do.                              *)
SettledModule(m) ==
    /\ Translated(m, m = root) /\ (m /= root => DirFileUpToDate(m))
    /\ ~CCompilationNeeded(m)
    /\ sym[m] = NoFile \/ bak[m] = NoFile

(* What is settled as a module goes through the steps of its compilation,  *)
(* and what of the modules that the traversal has left.                    *)
StageInv ==
    /\ At("h") \/ At("sym") \/ At("exit") => ~Older(gen[Current], obn[Current].time)
    /\ At("sym") \/ At("exit") => job.entry \/ ~Older(hdr[Current], obn[Current].time)
    /\ At("exit") => Translated(Current, job.entry)
    /\ job /= NoJob => (job.entry <=> IsRoot)
    /\ pc \in {"cc", "dir", "compare"} => Translated(Current, IsRoot)
    /\ pc \in {"dir", "compare"} => ~CCompilationNeeded(Current)
    /\ pc = "compare" => IsRoot \/ DirFileUpToDate(Current)
    /\ pc /= "idle" => \A m \in Finished : SettledModule(m)
    /\ pc = "done" => exe[root] /= NoFile /\ (~unified => ~LinkNeeded)

SettledInv == RootInv /\ SecondsInv /\ StageInv

-----------------------------------------------------------------------------
(* The traversal.                                                          *)

(* The module being visited is not finished, and it is the root where the  *)
(* path has one module only.                                               *)
LEMMA CurrentOnPath ==
    ASSUME BuildInv, RootInv, pc \notin {"idle", "link", "done"}
    PROVE  /\ path \in Seq(Module) /\ path /= <<>> /\ Len(path) \in Nat \ {0}
           /\ Current \in Module /\ Current \in OnPath /\ Current \notin Finished
           /\ IsRoot <=> Current = root
  <1>1. path \in Seq(Module) /\ path /= <<>> /\ Current \in Module
    BY CurrentInModule
  <1>2. Len(path) \in Nat \ {0} /\ Head(path) = path[1]
    BY <1>1, EmptySeq
  <1>3. Current \in OnPath
    BY <1>2 DEF Current, OnPath
  <1>4. IsRoot <=> Current = root
    <2>1. path[Len(path)] = root /\ \A k \in 1 .. Len(path) - 1 : path[k] /= root
      BY DEF RootInv
    <2>2. CASE Len(path) = 1
      BY <1>2, <2>1, <2>2 DEF IsRoot, Current
    <2>3. CASE Len(path) /= 1
      <3>1. \A n \in Nat \ {0} : n /= 1 => 1 \in 1 .. n - 1
        OBVIOUS
      <3>2. 1 \in 1 .. Len(path) - 1
        BY <1>2, <2>3, <3>1
      <3> QED
        BY <1>2, <2>1, <2>3, <3>2 DEF IsRoot, Current
    <2> QED
      BY <2>2, <2>3
  <1> QED
    BY <1>1, <1>2, <1>3, <1>4 DEF Finished

LEMMA DescendRoot == ASSUME BuildInv, RootInv, Descend PROVE RootInv'
  <1>1. pc = "imports" /\ pc' = "visit" /\ root' = root
    BY DEF Descend
  <1>2. PICK i \in listed[Current] \ discovered :
            path' = <<i>> \o path /\ discovered' = discovered \union {i}
    BY DEF Descend
  <1>3. path \in Seq(Module) /\ path /= <<>> /\ Len(path) \in Nat \ {0} /\ Current \in Module
    BY <1>1, CurrentOnPath
  <1>4. i \in Module
    BY <1>2, <1>3 DEF BuildInv, TypeOK
  <1>5. <<i>> \in Seq(Module) /\ Len(<<i>>) = 1
    BY <1>4
  <1>6. /\ Len(path') = Len(path) + 1 /\ path'[1] = i
        /\ \A k \in 1 .. Len(path) : path'[k + 1] = path[k]
    BY <1>2, <1>3, <1>4, <1>5, PathPush
  <1>7. i /= root
    BY <1>1, <1>2 DEF RootInv
  <1>8. path'[Len(path')] = root
    BY <1>1, <1>3, <1>6 DEF RootInv
  <1>9. ASSUME NEW k \in 1 .. Len(path') - 1 PROVE path'[k] /= root
    <2>1. k = 1 \/ (k - 1 \in 1 .. Len(path) - 1 /\ path'[k] = path[k - 1])
      BY <1>3, <1>6
    <2> QED
      BY <1>1, <1>6, <1>7, <2>1 DEF RootInv
  <1> QED
    BY <1>1, <1>2, <1>8, <1>9 DEF RootInv

LEMMA CompareRoot == ASSUME BuildInv, RootInv, CompareSymFiles PROVE RootInv'
  <1>1. /\ pc = "compare" /\ path' = Tail(path) /\ UNCHANGED <<root, discovered>>
        /\ pc' = IF IsRoot THEN "link" ELSE "imports"
    BY DEF CompareSymFiles
  <1>2. path \in Seq(Module) /\ path /= <<>> /\ Len(path) \in Nat \ {0}
    BY <1>1, CurrentOnPath
  <1>3. /\ Tail(path) \in Seq(Module) /\ Len(Tail(path)) = Len(path) - 1
        /\ \A k \in 1 .. Len(Tail(path)) : Tail(path)[k] = path[k + 1]
    BY <1>2
  <1>4. CASE IsRoot
    <2>1. path' = <<>>
      BY <1>1, <1>3, <1>4, EmptySeq DEF IsRoot
    <2> QED
      BY <1>1, <1>4, <2>1 DEF RootInv
  <1>5. CASE ~IsRoot
    <2>1. Len(path) > 1
      BY <1>2, <1>5 DEF IsRoot
    <2>2. path'[Len(path')] = root
      BY <1>1, <1>2, <1>3, <2>1 DEF RootInv
    <2>3. \A k \in 1 .. Len(path') - 1 : path'[k] /= root
      BY <1>1, <1>2, <1>3, <2>1 DEF RootInv
    <2> QED
      BY <1>1, <1>5, <2>2, <2>3 DEF RootInv
  <1> QED
    BY <1>4, <1>5

LEMMA NextRoot == ASSUME BuildInv, RootInv, [Next]_vars PROVE RootInv'
  <1>1. CASE UNCHANGED <<root, discovered, path>> /\ (pc' = "idle" \/ pc' = pc)
    BY <1>1 DEF RootInv
  <1>2. CASE /\ UNCHANGED <<root, discovered, path>>
             /\ pc \notin {"idle", "link", "done"} /\ pc' \notin {"idle", "link", "done"}
    BY <1>2 DEF RootInv
  <1>3. ASSUME NEW r \in Root, NEW u \in Mode, Start(r, u) PROVE RootInv'
    <2>1. /\ pc' = "visit" /\ root' = r /\ path' = <<r>> /\ discovered' = {r}
          /\ Len(<<r>>) = 1 /\ <<r>>[1] = r
      BY <1>3 DEF Start
    <2>2. \A k \in 1 .. Len(path') - 1 : path'[k] /= root'
      BY <2>1
    <2> QED
      BY <2>1, <2>2 DEF RootInv
  <1>4. CASE Visit \/ ImportsDone \/ UpdateObjectFile \/ ObncCompileDone \/ CompileC \/ WriteDirFile
    BY <1>2, <1>4 DEF Visit, ImportsDone, UpdateObjectFile, ObncCompileDone, CompileC, WriteDirFile,
                      buildVars
  <1>5. CASE Owner
    BY <1>1, <1>5 DEF Owner, Running, buildVars
  <1>6. CASE Clock \/ RunObncCompile \/ UNCHANGED vars
    BY <1>1, <1>6 DEF Clock, RunObncCompile, vars, buildVars
  <1>7. CASE BuildError \/ Interrupt
    BY <1>7 DEF BuildError, Interrupt, Abandon, RootInv
  <1>8. CASE CreateExecutable \/ ExecutableUpToDate
    BY <1>8 DEF CreateExecutable, ExecutableUpToDate, buildVars, RootInv
  <1> QED
    BY <1>3, <1>4, <1>5, <1>6, <1>7, <1>8, DescendRoot, CompareRoot DEF Next, BuildStep

-----------------------------------------------------------------------------
(* Every file that is written gets the present second.                     *)
LEMMA NextSeconds == ASSUME BuildInv, SecondsInv, [Next]_vars PROVE SecondsInv'
  <1>1. /\ clock \in Int /\ clock' \in Int /\ clock <= clock'
        /\ \A m \in Module : /\ obn[m].time \in Int
                             /\ hand[m] /= NoFile => hand[m] \in Int
                             /\ env[m] /= NoFile => env[m] \in Int
                             /\ gen[m] /= NoFile => gen[m].time \in Int
                             /\ obj[m] /= NoFile => obj[m].time \in Int
    <2>1. clock' = clock \/ clock' = clock + 1
      BY DEF Next, BuildStep, Owner, OwnerStep, Clock, Tick, Start, Visit, Descend, ImportsDone,
             UpdateObjectFile, RunObncCompile, CompileStep, OpenSource, ImportList, CloseCFile,
             CloseHeader, ExportSymbolTable, ObncCompileDone, CompileC, WriteDirFile,
             CompareSymFiles, CreateExecutable, ExecutableUpToDate, BuildError, Interrupt,
             Abandon, fileVars, vars
    <2> QED
      BY <2>1, TimeTypes
  <1>2. CASE UNCHANGED <<obn, hand, env, gen, obj>>
    BY <1>1, <1>2 DEF SecondsInv
  <1>3. CASE Owner
    <2>1. UNCHANGED <<clock, gen, obj>>
      BY <1>3 DEF Owner, OwnerStep, generated
    <2>2. /\ obn \in [Module -> [text : Source, time : Time]]
          /\ hand \in Table(Time) /\ env \in Table(Time)
      BY DEF BuildInv, TypeOK, FilesTypeOK
    <2>3. ASSUME NEW m \in Module, SaveSource(m) PROVE SecondsInv'
      <3>1. PICK text \in Draft[m] : obn' = [obn EXCEPT ![m] = [text |-> text, time |-> clock]]
        BY <2>3 DEF SaveSource
      <3>2. \A k \in Module : obn'[k].time = obn[k].time \/ obn'[k].time = clock
        BY <2>2, <3>1
      <3>3. UNCHANGED <<hand, env>>
        BY <2>3 DEF SaveSource
      <3> QED
        BY <1>1, <2>1, <3>2, <3>3 DEF SecondsInv
    <2>4. ASSUME NEW m \in Module, SaveC(m) \/ RemoveC(m) PROVE SecondsInv'
      <3>1. \A k \in Module : hand'[k] \in {hand[k], clock, NoFile}
        BY <2>2, <2>4 DEF SaveC, RemoveC, Table
      <3>2. UNCHANGED <<obn, env>>
        BY <2>4 DEF SaveC, RemoveC
      <3> QED
        BY <1>1, <2>1, <3>1, <3>2 DEF SecondsInv
    <2>5. ASSUME NEW m \in Module, SaveEnv(m) PROVE SecondsInv'
      <3>1. \A k \in Module : env'[k] \in {env[k], clock}
        BY <2>2, <2>5 DEF SaveEnv, Table
      <3>2. UNCHANGED <<obn, hand>>
        BY <2>5 DEF SaveEnv
      <3> QED
        BY <1>1, <2>1, <3>1, <3>2 DEF SecondsInv
    <2>6. CASE Rename
      BY <1>2, <2>1, <2>6 DEF Rename
    <2> QED
      BY <1>3, <2>3, <2>4, <2>5, <2>6 DEF Owner, OwnerStep
  <1>4. CASE RunObncCompile
    <2>1. CASE CloseCFile
      <3>1. gen \in Table(GenFile) /\ job.module \in Module
        BY <1>4, RunningJob DEF BuildInv, TypeOK, FilesTypeOK
      <3>2. \A k \in Module : gen'[k] = gen[k] \/ gen'[k].time = clock
        BY <2>1, <3>1 DEF CloseCFile, Table
      <3> QED
        BY <1>1, <2>1, <3>2 DEF SecondsInv, CloseCFile, written
    <2>2. CASE OpenSource \/ ImportList \/ CloseHeader \/ ExportSymbolTable
      BY <1>2, <2>2 DEF OpenSource, ImportList, CloseHeader, ExportSymbolTable, written
    <2> QED
      BY <1>4, <2>1, <2>2 DEF RunObncCompile, CompileStep
  <1>5. CASE CompileC
    <2>1. obj \in Table(ObjFile) /\ Current \in Module
      BY <1>5, CurrentInModule DEF CompileC, BuildInv, TypeOK, FilesTypeOK
    <2>2. \A k \in Module : obj'[k] = obj[k] \/ obj'[k].time = clock
      BY <1>5, <2>1 DEF CompileC, Table
    <2> QED
      BY <1>1, <1>5, <2>2 DEF SecondsInv, CompileC, written
  <1>6. CASE Clock \/ BuildError \/ Interrupt \/ \E r \in Root, u \in Mode : Start(r, u)
    BY <1>2, <1>6 DEF Clock, Tick, BuildError, Interrupt, Abandon, Start, fileVars, written, generated
  <1>7. CASE Visit \/ Descend \/ ImportsDone \/ UpdateObjectFile \/ ObncCompileDone \/ WriteDirFile
    BY <1>2, <1>7 DEF Visit, Descend, ImportsDone, UpdateObjectFile, ObncCompileDone, WriteDirFile,
                      fileVars, written, generated
  <1>8. CASE CompareSymFiles \/ CreateExecutable \/ ExecutableUpToDate \/ UNCHANGED vars
    BY <1>2, <1>8 DEF CompareSymFiles, CreateExecutable, ExecutableUpToDate, fileVars, written,
                      generated, vars
  <1> QED
    BY <1>3, <1>4, <1>5, <1>6, <1>7, <1>8 DEF Next, BuildStep

-----------------------------------------------------------------------------
(* The compilation of a module and what stays settled after it.            *)

(* A module stays settled while nobody touches its files.                  *)
LEMMA SameSettled ==
    ASSUME NEW m, SettledModule(m), UNCHANGED <<dirName, obn, hand, env, root, unified>>,
           gen'[m] = gen[m], hdr'[m] = hdr[m], sym'[m] = sym[m], bak'[m] = bak[m],
           obj'[m] = obj[m], dirFile'[m] = dirFile[m]
    PROVE  SettledModule(m)'
  BY DEF SettledModule, Translated, Older, DirFileUpToDate, CCompilationNeeded

(* A step that touches none of the files that obnc compares, between the   *)
(* steps of compiling a module.                                            *)
LEMMA SameStage ==
    ASSUME StageInv, job' = NoJob,
           UNCHANGED <<dirName, obn, hand, env, gen, hdr, sym, bak, obj, dirFile>>,
           pc' \notin {"cc", "dir", "compare", "done"},
           pc' = "idle" \/ (pc /= "idle" /\ UNCHANGED <<root, unified>> /\ Finished' \subseteq Finished)
    PROVE  StageInv'
  <1>1. ~(At("h") \/ At("sym") \/ At("exit"))'
    BY DEF At
  <1>2. pc' /= "idle" => \A m \in Finished' : SettledModule(m)'
    BY SameSettled DEF StageInv
  <1> QED
    BY <1>1, <1>2 DEF StageInv

LEMMA InitSettled == Init => SettledInv
  <1> SUFFICES ASSUME Init PROVE SettledInv
    OBVIOUS
  <1>1. /\ clock = 0 /\ \A m \in Module : obn[m].time = 0
        /\ pc = "idle" /\ job = NoJob
        /\ \A m \in Module : /\ hand[m] = NoFile /\ env[m] = NoFile
                             /\ gen[m] = NoFile /\ obj[m] = NoFile
    BY DEF Init, FilesInit
  <1> QED
    BY <1>1 DEF SettledInv, RootInv, SecondsInv, StageInv, At

(* Where no file is edited during a build, the owner leaves obnc idle.     *)
LEMMA OwnerStage == ASSUME Unedited, BuildInv, StageInv, Owner PROVE StageInv'
  <1>1. pc' = "idle" /\ job' = NoJob
    BY DEF Unedited, Owner, Running, BuildInv, JobInv
  <1> QED
    BY <1>1 DEF StageInv, At

LEMMA ClockStage == ASSUME StageInv, Clock PROVE StageInv'
  <1>1. UNCHANGED <<written, generated, job, pc, buildVars>>
    BY DEF Clock, Tick
  <1> QED
    BY <1>1 DEF StageInv, At, Current, IsRoot, Finished, OnPath, SettledModule, Translated,
                DirFileUpToDate, CCompilationNeeded, LinkNeeded, written, generated, buildVars

(* Meeting modules finishes none.                                          *)
LEMMA TraverseFinished ==
    ASSUME BuildInv, RootInv, Visit \/ Descend \/ ImportsDone PROVE Finished' \subseteq Finished
  <1>1. CASE Visit \/ ImportsDone
    BY <1>1 DEF Visit, ImportsDone, Finished, OnPath, buildVars
  <1>2. CASE Descend
    <2>1. PICK i \in listed[Current] \ discovered :
              path' = <<i>> \o path /\ discovered' = discovered \union {i}
      BY <1>2 DEF Descend
    <2>2. path \in Seq(Module) /\ path /= <<>> /\ i \in Module
      BY <1>2, <2>1, CurrentOnPath DEF Descend, BuildInv, TypeOK
    <2>3. OnPath' = OnPath \union {i}
      BY <2>1, <2>2, PushOnPath
    <2> QED
      BY <2>1, <2>3 DEF Finished
  <1> QED
    BY <1>1, <1>2

LEMMA TraverseStage ==
    ASSUME BuildInv, RootInv, StageInv, Visit \/ Descend \/ ImportsDone PROVE StageInv'
  <1>1. /\ UNCHANGED <<fileVars, job, root, unified>>
        /\ pc \in {"visit", "imports"} /\ pc' \in {"visit", "imports", "update"}
    BY DEF Visit, Descend, ImportsDone, buildVars
  <1>2. job' = NoJob
    BY <1>1 DEF BuildInv, JobInv
  <1> QED
    BY <1>1, <1>2, TraverseFinished, SameStage DEF fileVars, written, generated

(* A module is not compiled because nothing is left to do, or the symbol   *)
(* file is moved away and obnc-compile is started.                         *)
LEMMA UpdateObjectFileStage ==
    ASSUME BuildInv, RootInv, StageInv, UpdateObjectFile PROVE StageInv'
  <1>1. /\ pc = "update" /\ job = NoJob
        /\ UNCHANGED <<dirName, obn, hand, env, gen, hdr, obj, dirFile, root, unified, path, discovered>>
    BY DEF UpdateObjectFile, BuildInv, JobInv, written, buildVars
  <1>2. Current \in Module /\ Current \notin Finished /\ (IsRoot <=> Current = root)
    BY <1>1, CurrentOnPath
  <1>3. Finished' = Finished /\ Current' = Current /\ IsRoot' = IsRoot
    BY <1>1 DEF Finished, OnPath, Current, IsRoot
  <1>4. Finished \subseteq Module
    BY DEF Finished, BuildInv, TypeOK
  <1>5. \A m \in Module \ {Current} : sym'[m] = sym[m] /\ bak'[m] = bak[m]
    BY <1>2 DEF UpdateObjectFile, BuildInv, TypeOK, FilesTypeOK, Table
  <1>6. \A m \in Finished : SettledModule(m)'
    BY <1>1, <1>2, <1>4, <1>5, SameSettled DEF StageInv
  <1>7. CASE OberonCompilationNeeded(Current, Stale(Current), IsRoot)
    <2>1. pc' = "obnc-compile" /\ job' = NewJob(Current, IsRoot)
      BY <1>7 DEF UpdateObjectFile
    <2>2. job'.at = "open" /\ job'.entry = IsRoot
      BY <2>1 DEF NewJob
    <2> QED
      BY <1>3, <1>6, <2>1, <2>2 DEF StageInv, At
  <1>8. CASE ~OberonCompilationNeeded(Current, Stale(Current), IsRoot)
    <2>1. /\ UNCHANGED <<sym, job>>
          /\ pc' = IF CCompilationNeeded(Current) THEN "cc" ELSE "dir"
      BY <1>8 DEF UpdateObjectFile
    <2>2. Translated(Current, IsRoot)
      BY <1>8 DEF OberonCompilationNeeded, Translated
    <2>3. Translated(Current, IsRoot)'
      BY <1>1, <1>3, <2>1, <2>2 DEF Translated, Older
    <2>4. pc' = "dir" => ~CCompilationNeeded(Current)'
      BY <1>1, <1>3, <2>1 DEF CCompilationNeeded
    <2> QED
      BY <1>1, <1>3, <1>6, <2>1, <2>3, <2>4 DEF StageInv, At
  <1> QED
    BY <1>7, <1>8

(* obnc-compile writes its files in the present second, one by one, and    *)
(* those of no other module.                                               *)
LEMMA RunObncCompileStage ==
    ASSUME BuildInv, RootInv, SecondsInv, StageInv, RunObncCompile PROVE StageInv'
  <1>1. /\ pc = "obnc-compile" /\ pc' = "obnc-compile"
        /\ UNCHANGED <<clock, dirName, obn, hand, env, bak, obj, dirFile, root, unified, path, discovered>>
    BY DEF RunObncCompile, CompileStep, OpenSource, ImportList, CloseCFile, CloseHeader,
           ExportSymbolTable, written, buildVars
  <1>2. /\ Current \in Module /\ Current \notin Finished
        /\ job \in Job /\ job /= NoJob /\ job.module = Current
    BY <1>1, CurrentOnPath, RunningJob, NoJobAssumption DEF BuildInv, JobInv
  <1>3. /\ Finished' = Finished /\ Current' = Current /\ IsRoot' = IsRoot /\ Finished \subseteq Module
        /\ \A m : DirFileUpToDate(m)' = DirFileUpToDate(m)
    BY <1>1 DEF Finished, OnPath, Current, IsRoot, BuildInv, TypeOK, DirFileUpToDate
  <1>4. gen \in Table(GenFile) /\ hdr \in Table(HdrFile) /\ sym \in Table(SymFile)
    BY DEF BuildInv, TypeOK, FilesTypeOK
  <1>5. /\ clock \in Int /\ obn[Current].time \in Int /\ obn[Current].time <= clock
        /\ ~(clock < obn[Current].time)
    BY <1>2, TimeTypes DEF SecondsInv
  <1>6. \A m \in Finished : /\ gen'[m] = gen[m] /\ hdr'[m] = hdr[m] /\ sym'[m] = sym[m]
    BY <1>2, <1>3, <1>4 DEF RunObncCompile, CompileStep, OpenSource, ImportList, CloseCFile,
                            CloseHeader, ExportSymbolTable, Table
  <1>7. \A m \in Finished : SettledModule(m)'
    BY <1>1, <1>6, SameSettled DEF StageInv
  <1>8. job' /= NoJob
    BY RunObncCompileKeeps
  <1>9. job'.entry = job.entry
    BY <1>2 DEF RunObncCompile, CompileStep, OpenSource, ImportList, CloseCFile, CloseHeader,
                ExportSymbolTable, GoTo, Job
  <1>10. CASE OpenSource \/ ImportList
    <2>1. job'.at \in {"imports", "c"}
      BY <1>2, <1>10 DEF OpenSource, ImportList, Job
    <2> QED
      BY <1>1, <1>2, <1>3, <1>7, <1>8, <1>9, <2>1 DEF StageInv, At
  <1>11. CASE CloseCFile
    <2>1. job'.at = "h"
      BY <1>2, <1>11 DEF CloseCFile, GoTo, Job
    <2>2. gen'[Current] = [text |-> job.text, entry |-> job.entry, syms |-> job.syms, time |-> clock]
      BY <1>2, <1>4, <1>11 DEF CloseCFile, Table
    <2>3. gen'[Current] /= NoFile
      BY <1>3, <1>8, <2>1, NextInv DEF BuildInv, JobInv, Next, BuildStep
    <2>4. ~Older(gen[Current], obn[Current].time)'
      BY <1>1, <1>3, <1>5, <2>2, <2>3 DEF Older
    <2> QED
      BY <1>1, <1>2, <1>3, <1>7, <1>8, <1>9, <2>1, <2>4 DEF StageInv, At
  <1>12. CASE CloseHeader
    <2>1. job'.at = "sym" /\ At("h") /\ UNCHANGED gen
      BY <1>2, <1>12 DEF CloseHeader, GoTo, Job
    <2>2. ~Older(gen[Current], obn[Current].time)'
      BY <1>1, <1>3, <2>1 DEF StageInv, Older
    <2>3. job.entry \/ (hdr'[Current].time = clock /\ hdr'[Current] /= NoFile)
      <3>1. ASSUME ~job.entry PROVE hdr'[Current].time = clock /\ hdr'[Current] \in HdrFile
        <4>1. hdr' \in Table(HdrFile)
          BY NextInv DEF Next, BuildStep, BuildInv, TypeOK, FilesTypeOK
        <4>2. hdr'[Current] = [face |-> [exports |-> job.text.exports, mentions |-> Mentioned(job),
                                         shape |-> job.text.shape, dir |-> dirName],
                               time |-> clock]
          BY <1>2, <1>4, <1>12, <3>1 DEF CloseHeader, Table
        <4>3. hdr'[Current] \in HdrFile
          <5>1. Mentioned(job) \in SUBSET Decl
            BY <1>2 DEF Mentioned, Job, Source
          <5>2. dirName \in DirName /\ clock \in Time
            BY DEF BuildInv, TypeOK, FilesTypeOK
          <5> QED
            BY <1>2, <4>2, <5>1, <5>2 DEF HdrFile, Face, Job, Source
        <4> QED
          BY <4>2, <4>3
      <3> QED
        BY <3>1, NoFileAssumption
    <2>4. job.entry \/ ~Older(hdr[Current], obn[Current].time)'
      BY <1>1, <1>3, <1>5, <2>3 DEF Older
    <2> QED
      BY <1>1, <1>3, <1>7, <1>8, <1>9, <2>1, <2>2, <2>4 DEF StageInv, At
  <1>13. CASE ExportSymbolTable
    <2>1. job'.at = "exit" /\ At("sym") /\ UNCHANGED <<gen, hdr>>
      BY <1>2, <1>13 DEF ExportSymbolTable, GoTo, Job
    <2>2. /\ ~Older(gen[Current], obn[Current].time)'
          /\ job.entry \/ ~Older(hdr[Current], obn[Current].time)'
      BY <1>1, <1>3, <2>1 DEF StageInv, Older
    <2>3. sym'[Current] = IF job.entry THEN NoFile
                          ELSE [exports |-> job.text.exports, mentions |-> Mentioned(job),
                                time |-> clock]
      BY <1>2, <1>4, <1>13 DEF ExportSymbolTable, Table
    <2>4. ~job.entry => ~Older(sym[Current], obn[Current].time)'
      <3>1. job.entry \/ sym'[Current] /= NoFile
        BY <1>2, <1>13, ExportedFile
      <3> QED
        BY <1>1, <1>3, <1>5, <2>3, <3>1 DEF Older
    <2>5. Translated(Current, job.entry)'
      BY <1>9, <2>2, <2>3, <2>4, <1>3 DEF Translated
    <2> QED
      BY <1>1, <1>3, <1>7, <1>8, <1>9, <2>1, <2>2, <2>5 DEF StageInv, At
  <1> QED
    BY <1>10, <1>11, <1>12, <1>13 DEF RunObncCompile, CompileStep

LEMMA ObncCompileDoneStage ==
    ASSUME BuildInv, RootInv, StageInv, ObncCompileDone PROVE StageInv'
  <1>1. /\ pc = "obnc-compile" /\ At("exit") /\ job' = NoJob
        /\ pc' = IF unified THEN "dir" ELSE "cc"
        /\ UNCHANGED <<fileVars, buildVars>>
    BY DEF ObncCompileDone
  <1>2. Finished' = Finished /\ Current' = Current /\ IsRoot' = IsRoot
    BY <1>1 DEF Finished, OnPath, Current, IsRoot, buildVars
  <1>3. Translated(Current, IsRoot)
    BY <1>1 DEF StageInv, At, Translated
  <1>4. Translated(Current, IsRoot)'
    BY <1>1, <1>2, <1>3 DEF Translated, Older, fileVars, written, generated
  <1>5. \A m \in Finished' : SettledModule(m)'
    BY <1>1, <1>2, SameSettled DEF StageInv, fileVars, written, generated, buildVars
  <1>6. pc' = "dir" => ~CCompilationNeeded(Current)'
    BY <1>1 DEF CCompilationNeeded, buildVars
  <1> QED
    BY <1>1, <1>4, <1>5, <1>6 DEF StageInv, At

(* Object code is made in the present second.                              *)
LEMMA CompileCStage ==
    ASSUME BuildInv, RootInv, SecondsInv, StageInv, CompileC PROVE StageInv'
  <1>1. /\ pc = "cc" /\ pc' = "dir" /\ job' = NoJob
        /\ UNCHANGED <<clock, dirName, obn, hand, env, gen, hdr, sym, bak, dirFile, buildVars>>
    BY DEF CompileC, BuildInv, JobInv, written
  <1>2. Current \in Module /\ Current \notin Finished
    BY <1>1, CurrentOnPath
  <1>3. /\ Finished' = Finished /\ Current' = Current /\ IsRoot' = IsRoot
        /\ Finished \subseteq Module
    BY <1>1 DEF Finished, OnPath, Current, IsRoot, buildVars, BuildInv, TypeOK
  <1>4. obj \in Table(ObjFile)
    BY DEF BuildInv, TypeOK, FilesTypeOK
  <1>5. \A m \in Finished : obj'[m] = obj[m]
    BY <1>2, <1>3, <1>4 DEF CompileC, Table
  <1>6. \A m \in Finished : SettledModule(m)'
    BY <1>1, <1>5, SameSettled DEF StageInv, buildVars
  <1>7. Translated(Current, IsRoot)'
    BY <1>1, <1>3 DEF StageInv, Translated, Older
  <1>8. ~CCompilationNeeded(Current)'
    <2>1. obj'[Current] = [code |-> ObjectCode(Current), time |-> clock]
      BY <1>2, <1>4 DEF CompileC, Table
    <2>2. obj'[Current] /= NoFile
      <3>1. gen[Current] /= NoFile /\ clock \in Time
        BY <1>1 DEF BuildInv, TraversalInv, TypeOK, FilesTypeOK
      <3>2. obj'[Current] \in ObjFile
        BY <1>2, <2>1, <3>1, ObjectCodeType DEF ObjFile, BuildInv, TypeOK
      <3> QED
        BY <3>2, NoFileAssumption
    <2>3. /\ clock \in Int
          /\ gen[Current].time \in Int /\ gen[Current].time <= clock
          /\ hand[Current] /= NoFile => hand[Current] \in Int /\ hand[Current] <= clock
          /\ env[Current] /= NoFile => env[Current] \in Int /\ env[Current] <= clock
      BY <1>1, <1>2, TimeTypes DEF SecondsInv, BuildInv, TraversalInv
    <2> QED
      BY <1>1, <1>3, <2>1, <2>2, <2>3 DEF CCompilationNeeded
  <1> QED
    BY <1>1, <1>3, <1>6, <1>7, <1>8 DEF StageInv, At

LEMMA WriteDirFileStage ==
    ASSUME BuildInv, RootInv, StageInv, WriteDirFile PROVE StageInv'
  <1>1. /\ pc = "dir" /\ pc' = "compare" /\ job' = NoJob
        /\ UNCHANGED <<clock, dirName, obn, hand, env, gen, hdr, sym, bak, obj, buildVars>>
    BY DEF WriteDirFile, BuildInv, JobInv, written
  <1>2. Current \in Module /\ Current \notin Finished
    BY <1>1, CurrentOnPath
  <1>3. /\ Finished' = Finished /\ Current' = Current /\ IsRoot' = IsRoot
        /\ Finished \subseteq Module
    BY <1>1 DEF Finished, OnPath, Current, IsRoot, buildVars, BuildInv, TypeOK
  <1>4. dirFile \in Table(DirName)
    BY DEF BuildInv, TypeOK, FilesTypeOK
  <1>5. \A m \in Finished : dirFile'[m] = dirFile[m]
    BY <1>2, <1>3, <1>4 DEF WriteDirFile, Table
  <1>6. \A m \in Finished : SettledModule(m)'
    BY <1>1, <1>5, SameSettled DEF StageInv, buildVars
  <1>7. Translated(Current, IsRoot)' /\ ~CCompilationNeeded(Current)'
    BY <1>1, <1>3 DEF StageInv, Translated, Older, CCompilationNeeded, buildVars
  <1>8. IsRoot \/ DirFileUpToDate(Current)'
    BY <1>1, <1>2, <1>3, <1>4 DEF WriteDirFile, DirFileUpToDate, Table
  <1> QED
    BY <1>1, <1>3, <1>6, <1>7, <1>8 DEF StageInv, At

(* The module that the traversal leaves is settled, and none of the old    *)
(* symbol files remains that a later build would compare again.            *)
LEMMA CompareSymFilesStage ==
    ASSUME BuildInv, RootInv, StageInv, CompareSymFiles PROVE StageInv'
  <1>1. /\ pc = "compare" /\ pc' \in {"link", "imports"} /\ job' = NoJob /\ path' = Tail(path)
        /\ UNCHANGED <<dirName, obn, hand, env, gen, hdr, sym, obj, dirFile, root, unified, discovered>>
    BY DEF CompareSymFiles, BuildInv, JobInv, written
  <1>2. /\ path \in Seq(Module) /\ path /= <<>>
        /\ Current \in Module /\ Current \notin Finished /\ (IsRoot <=> Current = root)
    BY <1>1, CurrentOnPath
  <1>3. Finished' \subseteq Finished \union {Current}
    BY <1>1, <1>2, PopOnPath DEF Finished
  <1>4. Finished \subseteq Module /\ bak \in Table(SUBSET Decl)
    BY DEF Finished, BuildInv, TypeOK, FilesTypeOK
  <1>5. \A m \in Finished : bak'[m] = bak[m]
    BY <1>2, <1>4 DEF CompareSymFiles, Table
  <1>6. \A m \in Finished : SettledModule(m)'
    BY <1>1, <1>5, SameSettled DEF StageInv
  <1>7. /\ Translated(Current, Current = root) /\ ~CCompilationNeeded(Current)
        /\ Current /= root => DirFileUpToDate(Current)
    BY <1>1, <1>2 DEF StageInv, Translated
  <1>8. sym[Current] = NoFile \/ bak'[Current] = NoFile
    BY <1>2, <1>4 DEF CompareSymFiles, Table
  <1>9. \A m : m = Current => SettledModule(m)'
    BY <1>1, <1>2, <1>7, <1>8
       DEF SettledModule, Translated, Older, DirFileUpToDate, CCompilationNeeded
  <1>10. \A m \in Finished' : SettledModule(m)'
    BY <1>3, <1>6, <1>9
  <1> QED
    BY <1>1, <1>10 DEF StageInv, At

(* An executable that has just been linked is no older than any object     *)
(* file; one that is kept was compared with all of them.                   *)
LEMMA CreateExecutableStage ==
    ASSUME BuildInv, RootInv, SecondsInv, StageInv, CreateExecutable PROVE StageInv'
  <1>1. /\ pc = "link" /\ pc' = "done" /\ job' = NoJob /\ path = <<>>
        /\ UNCHANGED <<clock, dirName, obn, hand, env, gen, hdr, sym, bak, obj, dirFile, buildVars>>
    BY DEF CreateExecutable, BuildInv, JobInv, TraversalInv, written
  <1>2. Finished' = Finished /\ discovered' = discovered /\ root' = root /\ unified' = unified
    BY <1>1 DEF Finished, OnPath, buildVars
  <1>3. \A m \in Finished' : SettledModule(m)'
    BY <1>1, <1>2, SameSettled DEF StageInv
  <1> DEFINE code == [m \in Module |-> IF m \in discovered THEN LinkInput(m) ELSE NoFile]
  <1>4. root \in Module /\ exe \in Table(ExeFile) /\ clock \in Time
    BY RootAssumption DEF BuildInv, TypeOK, FilesTypeOK
  <1>5. exe'[root] = [code |-> code, time |-> clock]
    BY <1>4 DEF CreateExecutable, Table
  <1>6. \A m \in discovered : m \in Module /\ Compiled(m)
    BY <1>1 DEF BuildInv, TypeOK, TraversalInv, Running, OnPath
  <1>7. exe'[root] /= NoFile
    <2>1. \A m \in discovered : LinkInput(m) \in Code
      <3>1. TAKE m \in discovered
      <3>2. obj \in Table(ObjFile) /\ m \in Module /\ Compiled(m)
        BY <1>6 DEF BuildInv, TypeOK, FilesTypeOK
      <3>3. ObjectCode(m) \in Code
        BY <3>2, ObjectCodeType DEF Compiled
      <3>4. CASE unified
        BY <3>3, <3>4 DEF LinkInput
      <3>5. CASE ~unified
        BY <3>2, <3>5 DEF LinkInput, Compiled, Table, Optional, ObjFile
      <3> QED
        BY <3>4, <3>5
    <2>2. code \in Table(Code)
      BY <2>1 DEF Table, Optional
    <2> QED
      BY <1>4, <1>5, <2>2, NoFileAssumption DEF ExeFile
  <1>8. ~unified => ~LinkNeeded'
    <2>1. ASSUME ~unified, NEW m \in discovered PROVE ~(clock < obj[m].time)
      <3>1. m \in Module /\ obj[m] /= NoFile
        BY <1>6, <2>1 DEF Compiled
      <3> QED
        BY <3>1, TimeTypes DEF SecondsInv
    <2> QED
      BY <1>1, <1>2, <1>5, <1>7, <2>1 DEF LinkNeeded
  <1> QED
    BY <1>1, <1>2, <1>3, <1>7, <1>8 DEF StageInv, At

LEMMA ExecutableUpToDateStage ==
    ASSUME BuildInv, StageInv, ExecutableUpToDate PROVE StageInv'
  <1>1. /\ pc = "link" /\ pc' = "done" /\ job' = NoJob /\ ~LinkNeeded
        /\ UNCHANGED <<fileVars, buildVars>>
    BY DEF ExecutableUpToDate, BuildInv, JobInv
  <1>2. Finished' = Finished
    BY <1>1 DEF Finished, OnPath, buildVars
  <1>3. \A m \in Finished' : SettledModule(m)'
    BY <1>1, <1>2, SameSettled DEF StageInv, fileVars, written, generated, buildVars
  <1>4. exe[root] /= NoFile /\ ~LinkNeeded'
    BY <1>1 DEF LinkNeeded, fileVars, generated, buildVars
  <1> QED
    BY <1>1, <1>3, <1>4 DEF StageInv, At, fileVars, generated, buildVars

LEMMA NextStage ==
    ASSUME Unedited, BuildInv, SettledInv, [Next]_vars PROVE StageInv'
  <1> USE DEF SettledInv
  <1>1. CASE Owner
    BY <1>1, OwnerStage
  <1>2. CASE Clock
    BY <1>2, ClockStage
  <1>3. ASSUME NEW r \in Root, NEW u \in Mode, Start(r, u) PROVE StageInv'
    <2>1. pc' = "visit" /\ job' = NoJob /\ Finished' = {}
      BY <1>3, StartFinished DEF Start, Running, BuildInv, JobInv
    <2> QED
      BY <2>1 DEF StageInv, At
  <1>4. CASE Visit \/ Descend \/ ImportsDone
    BY <1>4, TraverseStage
  <1>5. CASE UpdateObjectFile \/ RunObncCompile \/ ObncCompileDone
    BY <1>5, UpdateObjectFileStage, RunObncCompileStage, ObncCompileDoneStage
  <1>6. CASE CompileC \/ WriteDirFile \/ CompareSymFiles
    BY <1>6, CompileCStage, WriteDirFileStage, CompareSymFilesStage
  <1>7. CASE CreateExecutable \/ ExecutableUpToDate
    BY <1>7, CreateExecutableStage, ExecutableUpToDateStage
  <1>8. CASE BuildError \/ Interrupt
    <2>1. pc' = "idle" /\ job' = NoJob
      BY <1>8 DEF BuildError, Interrupt, Abandon
    <2> QED
      BY <2>1 DEF StageInv, At
  <1>9. CASE UNCHANGED vars
    BY <1>9 DEF vars, fileVars, written, generated, buildVars, StageInv, At, Current, IsRoot,
                Finished, OnPath, SettledModule, Translated, Older, DirFileUpToDate,
                CCompilationNeeded, LinkNeeded
  <1> QED
    BY <1>1, <1>2, <1>3, <1>4, <1>5, <1>6, <1>7, <1>8, <1>9 DEF Next, BuildStep

LEMMA SettledInvariant == ASSUME Unedited PROVE Spec => [](BuildInv /\ SettledInv)
  <1>1. Init => BuildInv /\ SettledInv
    BY InitInv, InitSettled
  <1>2. BuildInv /\ SettledInv /\ [Next]_vars => (BuildInv /\ SettledInv)'
    BY NextInv, NextRoot, NextSeconds, NextStage DEF SettledInv
  <1> QED
    BY <1>1, <1>2, PTL DEF Spec

(* After a successful build nothing is left to do, also when builds before *)
(* it were stopped anywhere: another obnc would compile nothing, compare   *)
(* no symbol file and keep the executable.                                 *)
THEOREM NothingLeft == ASSUME Unedited PROVE Spec => []Settled
  <1>1. BuildInv /\ SettledInv => Settled
    <2> SUFFICES ASSUME BuildInv, SettledInv, pc = "done" PROVE Settled
      BY DEF Settled
    <2>1. Finished = discovered
      <3>1. path = <<>>
        BY DEF SettledInv, RootInv
      <3> QED
        BY <3>1 DEF Finished, OnPath
    <2>2. ASSUME NEW m \in discovered
          PROVE  /\ ~OberonCompilationNeeded(m, FALSE, m = root)
                 /\ ~CCompilationNeeded(m)
                 /\ sym[m] = NoFile \/ bak[m] = NoFile
      <3>1. SettledModule(m)
        BY <2>1 DEF SettledInv, StageInv
      <3> QED
        BY <3>1 DEF SettledModule, Translated, OberonCompilationNeeded
    <2> QED
      BY <2>2 DEF Settled, SettledInv, StageInv
  <1> QED
    BY <1>1, SettledInvariant, PTL

-----------------------------------------------------------------------------
(* Clients agree with what they import in every executable, where one      *)
(* program is built, in full each time, by builds that nobody stops: proof *)
(* that ClientsAgree is then an invariant. obnc remembers that an import   *)
(* changed only for the rest of a build, so it matters that every client   *)
(* of the import is met in the same build, and that the build ends well.   *)
Alone == Steady /\ OneProgram /\ FixedLayout

(* The texts are those the owner may write, and the path is a chain of     *)
(* imports.                                                                *)
DraftInv == \A m \in Module : obn[m].text \in Draft[m]
ChainInv == pc /= "idle" => \A k \in 1 .. Len(path) - 1 : path[k] \in obn[path[k + 1]].text.imports

Compiling(m) == pc \in {"obnc-compile", "cc"} /\ m = Current
Passed(m) == m \in Finished \/ (pc \in {"dir", "compare"} /\ m = Current)

(* An old symbol file is there only while its module is compiled.          *)
BakInv ==
    /\ \A m \in Module : bak[m] /= NoFile =>
          m = Current /\ pc \in {"obnc-compile", "cc", "dir", "compare"}
    /\ sym[root] = NoFile /\ bak[root] = NoFile

(* All headers, wherever the C compiler saw them, show the same layouts.   *)
LayoutInv ==
    \A m \in Module :
        /\ hdr[m] /= NoFile => hdr[m].face.shape = obn[m].text.shape
        /\ obj[m] /= NoFile =>
              /\ obj[m].code.own /= NoFile => obj[m].code.own.shape = obn[m].text.shape
              /\ \A i \in obj[m].code.src.imports : obj[m].code.faces[i].shape = obn[i].text.shape

(* The header and the symbol file of a module give the same declarations.  *)
LinesInv ==
    /\ \A m \in Module : hdr[m] /= NoFile /\ sym[m] /= NoFile => Lines(hdr[m].face) = Lines(sym[m])
    /\ job /= NoJob /\ ~At("exit") => sym[Current] = NoFile
    /\ At("sym") /\ ~job.entry => /\ hdr[Current].face.exports = job.text.exports
                                  /\ hdr[Current].face.mentions = Mentioned(job)

(* What obnc-compile has read of the imports is what they export now.      *)
ReadInv ==
    /\ At("c") \/ At("h") \/ At("sym") \/ At("exit") =>
          \A i \in job.text.imports : job.syms[i] = Lines(sym[i])
    /\ At("h") \/ At("sym") \/ At("exit") => gen[Current].syms = job.syms
    /\ pc = "cc" => \A i \in gen[Current].text.imports : gen[Current].syms[i] \subseteq Lines(sym[i])
    /\ \A m \in Module : gen[m] /= NoFile => Compiling(m) \/ obj[m].code.syms = gen[m].syms

(* What a module exported when the build reached it, and what object code  *)
(* relies on. Clients of a module that is marked as changed may rely on    *)
(* more until the traversal gets to them.                                  *)
Offered(i) == IF bak[i] /= NoFile THEN bak[i] ELSE IF sym[i] /= NoFile THEN Lines(sym[i]) ELSE {}
Relied(code, i) == code.syms[i] \union Lines(code.faces[i])
ClientInv ==
    \A m \in Module :
        ~Older(gen[m], obn[m].time) /\ ~Compiling(m) =>
            \A i \in obj[m].code.src.imports :
                \/ Relied(obj[m].code, i) \subseteq Offered(i)
                \/ Running /\ ~Passed(m) /\ i \in changed

(* Every executable agrees in itself.                                      *)
AgreesInside(code) ==
    \A m \in Module : code[m] /= NoFile /\
        \A i \in code[m].src.imports :
            /\ Relied(code[m], i) \subseteq Lines(code[i].own)
            /\ code[m].faces[i].shape = code[i].own.shape
AgreedInv == \A m \in Module : exe[m] /= NoFile => AgreesInside(exe[m].code)

OrderInv == KnownInv /\ LinkInv /\ SettledInv /\ DraftInv /\ ChainInv
ReliedInv == BakInv /\ LayoutInv /\ LinesInv /\ ReadInv /\ ClientInv /\ AgreedInv

-----------------------------------------------------------------------------
(* The order in which modules are met.                                     *)

(* While a module is being compiled, its imports are finished: they have   *)
(* their files, and none of their old symbol files is left.                *)
LEMMA ImportsFinished ==
    ASSUME OrderInv, pc \in {"update", "obnc-compile", "cc", "dir", "compare"}
    PROVE  /\ Current \in Module /\ Current \notin Finished /\ (IsRoot <=> Current = root)
           /\ listed[Current] = obn[Current].text.imports
           /\ \A i \in obn[Current].text.imports :
                 /\ i \in Module /\ i \in Finished /\ i /= Current /\ i /= root
                 /\ sym[i] /= NoFile /\ hdr[i] /= NoFile
  <1>1. BuildInv /\ CycleInv /\ LinkInv /\ RootInv
    BY DEF OrderInv, KnownInv, SettledInv
  <1>2. Current \in Module /\ Current \notin Finished /\ (IsRoot <=> Current = root)
    BY <1>1, CurrentOnPath
  <1>3. /\ PathInv /\ ListedInv /\ FinishedInv /\ Current \in OnPath /\ root \in OnPath
    BY <1>1, RootOnPath DEF CycleInv, VisitedInv
  <1>4. listed[Current] = obn[Current].text.imports /\ listed[Current] \subseteq Finished
    BY <1>3 DEF PathInv, ListedInv, FinishedInv
  <1>5. ASSUME NEW i \in Finished
        PROVE i \in Module /\ i /= Current /\ i /= root /\ sym[i] /= NoFile /\ hdr[i] /= NoFile
    <2>1. i \in Module /\ i /= Current /\ i /= root
      BY <1>1, <1>2, <1>3 DEF Finished, BuildInv, TypeOK
    <2>2. sym[i] /= NoFile
      BY <1>1, <2>1 DEF CycleInv, SymbolFilesInv
    <2>3. gen[i] /= NoFile
      BY <1>1 DEF Finished, BuildInv, TraversalInv, Running, Compiled
    <2> QED
      BY <1>1, <2>1, <2>2, <2>3 DEF LinkInv, RoleInv
  <1> QED
    BY <1>2, <1>4, <1>5

(* The object code of a module whose C file is as new as its source is     *)
(* that of its present imports.                                            *)
LEMMA PresentImports ==
    ASSUME OrderInv, NEW m \in Module, ~Older(gen[m], obn[m].time), ~Compiling(m)
    PROVE  /\ gen[m] /= NoFile /\ obj[m] /= NoFile /\ MadeHere(m)
           /\ gen[m].text = obn[m].text /\ obj[m].code.src = obn[m].text
           /\ obn[m].text.imports \subseteq Module
           /\ pc /= "idle" /\ m \in Finished => obn[m].text.imports \subseteq Finished
  <1>1. BuildInv /\ FreshFiles /\ CycleInv /\ CodeInv
    BY DEF OrderInv, KnownInv, LinkInv
  <1>2. gen[m] /= NoFile /\ MadeHere(m) /\ gen[m].text = obn[m].text
    BY <1>1 DEF Older, Compiling, CodeInv, FreshFiles, FreshFile
  <1>3. obn[m].text.imports \subseteq Module
    BY <1>1 DEF BuildInv, TypeOK, FilesTypeOK, Source
  <1>4. pc /= "idle" /\ m \in Finished => obn[m].text.imports \subseteq Finished
    <2> SUFFICES ASSUME pc /= "idle", m \in Finished PROVE obn[m].text.imports \subseteq Finished
      OBVIOUS
    <2>1. ListedInv /\ FinishedInv
      BY <1>1 DEF CycleInv, VisitedInv
    <2>2. m \in discovered /\ (pc = "visit" => m /= Current)
      BY <1>1, CurrentOnPath DEF Finished, OrderInv, SettledInv
    <2> QED
      BY <2>1, <2>2 DEF ListedInv, FinishedInv, Closed
  <1> QED
    BY <1>2, <1>3, <1>4 DEF MadeHere

(* There is no import cycle to end a build with, and a build that gets to  *)
(* linking has been through all modules.                                   *)
LEMMA NoCircle == ASSUME Alone, OrderInv PROVE ~BuildError
  <1> SUFFICES ASSUME BuildError PROVE FALSE
    OBVIOUS
  <1>1. BuildInv /\ CycleInv /\ RootInv
    BY DEF OrderInv, KnownInv, SettledInv
  <1>2. ImportCycle
    BY Links, SymbolFilesThere DEF BuildError, LinksClean, KnownInv, OrderInv, Alone
  <1>3. /\ path \in Seq(Module) /\ Len(path) \in Nat \ {0} /\ PathInv /\ ListedInv
        /\ OnPath \subseteq discovered /\ Current \in OnPath
    BY <1>1, <1>2, CurrentOnPath DEF ImportCycle, CycleInv, VisitedInv, PathInv
  <1>4. PICK n \in 1 .. Len(path) : path[n] \in obn[Current].text.imports
    BY <1>2, <1>3 DEF ImportCycle, OnPath, ListedInv
  <1> DEFINE S == {path[k] : k \in 1 .. n}
             text == [m \in Module |-> obn[m].text]
  <1>5. \A k \in 1 .. Len(path) : path[k] \in Module
    BY <1>3
  <1>6. S \in (SUBSET Module) \ {{}} /\ path[n] \in S
    <2>1. \A k \in 1 .. n : k \in 1 .. Len(path)
      BY <1>3, <1>4
    <2>2. path[n] \in S
      BY <1>3, <1>4
    <2>3. S \subseteq Module
      BY <1>5, <2>1
    <2> QED
      BY <2>2, <2>3
  <1>7. text \in FirstDrafts
    BY DEF FirstDrafts, OrderInv, DraftInv
  <1>8. PICK m \in S : text[m].imports \cap S = {}
    <2> HIDE DEF S, text
    <2> QED
      BY <1>6, <1>7 DEF Alone, OneProgram
  <1>9. PICK k \in 1 .. n : m = path[k]
    BY <1>8
  <1> HIDE DEF S
  <1>12. text[m] = obn[m].text
    BY <1>6, <1>8
  <1> HIDE DEF text
  <1>10. CASE k = 1
    <2>1. m = Current
      BY <1>3, <1>9, <1>10 DEF Current
    <2> QED
      BY <1>4, <1>6, <1>8, <1>12, <2>1
  <1>11. CASE k /= 1
    <2>1. k - 1 \in 1 .. Len(path) - 1 /\ k - 1 \in 1 .. n /\ (k - 1) + 1 = k
      BY <1>3, <1>11
    <2>2. path[k - 1] \in obn[path[k]].text.imports
      BY <1>2, <2>1 DEF OrderInv, ChainInv, ImportCycle
    <2>3. path[k - 1] \in S
      BY <2>1 DEF S
    <2> QED
      BY <1>8, <1>9, <1>12, <2>2, <2>3
  <1> QED
    BY <1>10, <1>11

LEMMA AllFinished == ASSUME Alone, OrderInv, pc = "link" PROVE Finished = Module
  <1>1. BuildInv /\ PathInv /\ ListedInv /\ FinishedInv
    BY DEF OrderInv, KnownInv, CycleInv, VisitedInv
  <1>2. Finished = discovered /\ root \in discovered /\ discovered \in SUBSET Module
    BY <1>1 DEF Finished, PathInv, OnPath, BuildInv, TypeOK
  <1> DEFINE text == [m \in Module |-> obn[m].text]
  <1>3. text \in FirstDrafts
    BY DEF FirstDrafts, OrderInv, DraftInv
  <1>4. \A m \in discovered : text[m].imports \subseteq discovered
    BY <1>1, <1>2 DEF ListedInv, FinishedInv, Closed
  <1>5. root \in Root
    BY <1>1 DEF BuildInv, TypeOK
  <1> HIDE DEF text
  <1> QED
    BY <1>2, <1>3, <1>4, <1>5 DEF Alone, OneProgram

(* DraftInv and ChainInv are kept.                                         *)
LEMMA NextDraft == ASSUME BuildInv, DraftInv, [Next]_vars PROVE DraftInv'
  <1>1. CASE UNCHANGED obn
    BY <1>1 DEF DraftInv
  <1>2. ASSUME NEW m \in Module, SaveSource(m) PROVE DraftInv'
    <2>1. PICK text \in Draft[m] : obn' = [obn EXCEPT ![m] = [text |-> text, time |-> clock]]
      BY <1>2 DEF SaveSource
    <2>2. obn \in [Module -> [text : Source, time : Time]]
      BY DEF BuildInv, TypeOK, FilesTypeOK
    <2> QED
      BY <2>1, <2>2 DEF DraftInv
  <1>3. CASE Owner
    BY <1>1, <1>2, <1>3 DEF Owner, OwnerStep, SaveC, RemoveC, SaveEnv, Rename
  <1>4. CASE BuildStep
    BY <1>1, <1>4 DEF BuildStep, Visit, Descend, ImportsDone, UpdateObjectFile, RunObncCompile,
                      CompileStep, OpenSource, ImportList, CloseCFile, CloseHeader,
                      ExportSymbolTable, ObncCompileDone, CompileC, WriteDirFile,
                      CompareSymFiles, CreateExecutable, ExecutableUpToDate, BuildError,
                      Abandon, fileVars, written
  <1> QED
    BY <1>1, <1>3, <1>4 DEF Next, Clock, Tick, Start, Interrupt, Abandon, fileVars, written, vars

LEMMA NextChain == ASSUME Orderly, OrderInv, [Next]_vars PROVE ChainInv'
  <1>1. BuildInv /\ ChainInv /\ CycleInv /\ RootInv
    BY DEF OrderInv, KnownInv, SettledInv
  <1>2. CASE UNCHANGED <<obn, path>> /\ (pc' = "idle" \/ pc /= "idle")
    BY <1>1, <1>2 DEF ChainInv
  <1>3. CASE Owner \/ Interrupt \/ BuildError
    BY <1>3 DEF Owner, Interrupt, BuildError, Abandon, Orderly, Running, ChainInv
  <1>4. ASSUME NEW r \in Root, NEW u \in Mode, Start(r, u) PROVE ChainInv'
    <2>1. Len(path') = 1
      BY <1>4 DEF Start
    <2> QED
      BY <2>1 DEF ChainInv
  <1>5. CASE Descend
    <2>1. PICK i \in listed[Current] \ discovered :
              path' = <<i>> \o path /\ discovered' = discovered \union {i}
      BY <1>5 DEF Descend
    <2>2. /\ pc = "imports" /\ pc' = "visit" /\ obn' = obn
      BY <1>5 DEF Descend, fileVars, written
    <2>3. path \in Seq(Module) /\ Len(path) \in Nat \ {0} /\ Current \in Module /\ Current \in OnPath
      BY <1>1, <2>2, CurrentOnPath
    <2>4. i \in obn[Current].text.imports /\ i \in Module
      BY <1>1, <2>1, <2>2, <2>3 DEF CycleInv, VisitedInv, PathInv, ListedInv, BuildInv, TypeOK
    <2>5. <<i>> \in Seq(Module) /\ Len(<<i>>) = 1
      BY <2>4
    <2>6. /\ Len(path') = Len(path) + 1 /\ path'[1] = i
          /\ \A k \in 1 .. Len(path) : path'[k + 1] = path[k]
      BY <2>1, <2>3, <2>4, <2>5, PathPush
    <2>7. ASSUME NEW k \in 1 .. Len(path') - 1
          PROVE  path'[k] \in obn[path'[k + 1]].text.imports
      <3>1. CASE k = 1
        BY <2>3, <2>4, <2>6, <3>1 DEF Current
      <3>2. CASE k /= 1
        <4>1. k - 1 \in 1 .. Len(path) - 1 /\ (k - 1) + 1 = k
          BY <2>3, <2>6, <3>2
        <4>2. path'[k] = path[k - 1] /\ path'[k + 1] = path[k]
          BY <2>3, <2>6, <4>1
        <4> QED
          BY <1>1, <2>2, <4>1, <4>2 DEF ChainInv
      <3> QED
        BY <3>1, <3>2
    <2> QED
      BY <2>2, <2>7 DEF ChainInv
  <1>6. CASE CompareSymFiles
    <2>1. pc = "compare" /\ path' = Tail(path) /\ obn' = obn
      BY <1>6 DEF CompareSymFiles, written
    <2>2. path \in Seq(Module) /\ path /= <<>> /\ Len(path) \in Nat \ {0}
      BY <1>1, <2>1, CurrentOnPath
    <2>3. /\ Len(path') = Len(path) - 1
          /\ \A k \in 1 .. Len(path') : path'[k] = path[k + 1]
      BY <2>1, <2>2
    <2>4. ASSUME NEW k \in 1 .. Len(path') - 1
          PROVE  path'[k] \in obn[path'[k + 1]].text.imports
      <3>1. k + 1 \in 1 .. Len(path) - 1 /\ k \in 1 .. Len(path') /\ k + 1 \in 1 .. Len(path')
        BY <2>2, <2>3
      <3> QED
        BY <1>1, <2>1, <2>3, <3>1 DEF ChainInv
    <2> QED
      BY <2>1, <2>4 DEF ChainInv
  <1>7. CASE Visit \/ ImportsDone \/ UpdateObjectFile \/ RunObncCompile \/ ObncCompileDone
    BY <1>2, <1>7 DEF Visit, ImportsDone, UpdateObjectFile, RunObncCompile, CompileStep,
                      OpenSource, ImportList, CloseCFile, CloseHeader, ExportSymbolTable,
                      ObncCompileDone, fileVars, written, buildVars
  <1>8. CASE CompileC \/ WriteDirFile \/ CreateExecutable \/ ExecutableUpToDate
    BY <1>2, <1>8 DEF CompileC, WriteDirFile, CreateExecutable, ExecutableUpToDate, fileVars,
                      written, buildVars
  <1>9. CASE Clock \/ UNCHANGED vars
    BY <1>1, <1>9 DEF Clock, Tick, vars, fileVars, written, buildVars, ChainInv
  <1> QED
    BY <1>3, <1>4, <1>5, <1>6, <1>7, <1>8, <1>9 DEF Next, BuildStep

-----------------------------------------------------------------------------
(* Old symbol files.                                                       *)

LEMMA SameBak ==
    ASSUME BakInv, UNCHANGED <<sym, bak, root>>,
           pc \notin {"obnc-compile", "cc", "dir", "compare"}
    PROVE  BakInv'
  BY DEF BakInv

LEMMA UpdateObjectFileBak == ASSUME OrderInv, BakInv, UpdateObjectFile PROVE BakInv'
  <1>1. /\ pc = "update" /\ UNCHANGED <<path, root>> /\ Current' = Current
        /\ bak \in Table(SUBSET Decl) /\ sym \in Table(SymFile) /\ root \in Module
    BY RootAssumption DEF UpdateObjectFile, buildVars, Current, OrderInv, KnownInv, BuildInv, TypeOK,
           FilesTypeOK
  <1>2. Current \in Module
    BY <1>1, ImportsFinished
  <1>3. CASE OberonCompilationNeeded(Current, Stale(Current), IsRoot)
    <2>1. /\ bak' = IF sym[Current] = NoFile THEN bak
                    ELSE [bak EXCEPT ![Current] = Lines(sym[Current])]
          /\ sym' = [sym EXCEPT ![Current] = NoFile]
          /\ pc' = "obnc-compile"
      BY <1>3 DEF UpdateObjectFile
    <2>2. \A m \in Module : bak'[m] /= NoFile => m = Current
      BY <1>1, <2>1 DEF BakInv, Table
    <2>3. sym'[root] = NoFile /\ bak'[root] = NoFile
      BY <1>1, <1>2, <2>1 DEF BakInv, Table
    <2> QED
      BY <1>1, <2>1, <2>2, <2>3 DEF BakInv
  <1>4. CASE ~OberonCompilationNeeded(Current, Stale(Current), IsRoot)
    BY <1>1, <1>4, SameBak DEF UpdateObjectFile
  <1> QED
    BY <1>3, <1>4

LEMMA RunObncCompileBak == ASSUME OrderInv, BakInv, RunObncCompile PROVE BakInv'
  <1>1. /\ pc = "obnc-compile" /\ UNCHANGED <<pc, path, root, bak>> /\ Current' = Current
    BY DEF RunObncCompile, CompileStep, OpenSource, ImportList, CloseCFile, CloseHeader,
           ExportSymbolTable, buildVars, Current
  <1>2. /\ Current \in Module /\ (IsRoot <=> Current = root)
        /\ job.module = Current /\ (job.entry <=> IsRoot)
        /\ sym \in Table(SymFile) /\ root \in Module
    BY <1>1, ImportsFinished, RootAssumption
       DEF OrderInv, KnownInv, BuildInv, TypeOK, FilesTypeOK, JobInv, CycleInv, SymbolFilesInv
  <1>3. sym'[root] = NoFile
    BY <1>2 DEF RunObncCompile, CompileStep, OpenSource, ImportList, CloseCFile, CloseHeader,
                ExportSymbolTable, BakInv, Table
  <1> QED
    BY <1>1, <1>3 DEF BakInv

LEMMA CompareSymFilesBak == ASSUME OrderInv, BakInv, CompareSymFiles PROVE BakInv'
  <1>1. /\ pc = "compare" /\ UNCHANGED <<sym, root>>
        /\ Current \in Module /\ (IsRoot <=> Current = root)
        /\ IsRoot \/ sym[Current] /= NoFile
        /\ bak \in Table(SUBSET Decl) /\ root \in Module
    BY ImportsFinished, RootAssumption
       DEF CompareSymFiles, OrderInv, KnownInv, BuildInv, TypeOK, FilesTypeOK, CycleInv,
           SymbolFilesInv
  <1>2. \A m \in Module : bak'[m] = NoFile
    BY <1>1 DEF CompareSymFiles, BakInv, Table
  <1> QED
    BY <1>1, <1>2 DEF BakInv

LEMMA NextBak == ASSUME Alone, OrderInv, BakInv, [Next]_vars PROVE BakInv'
  <1>1. CASE Owner
    BY <1>1, SameBak DEF Owner, OwnerStep, Alone, Steady, Undisturbed, Orderly, Running, generated,
                         buildVars
  <1>2. CASE Clock \/ UNCHANGED vars
    BY <1>2 DEF Clock, Tick, vars, fileVars, generated, buildVars, BakInv, Current
  <1>3. ASSUME NEW r \in Root, NEW u \in Mode, Start(r, u) PROVE BakInv'
    <2>1. root' = root
      BY <1>3 DEF Start, Alone, OneProgram, OrderInv, KnownInv, BuildInv, TypeOK
    <2> QED
      BY <1>3, <2>1, SameBak DEF Start, Running, fileVars, generated
  <1>4. CASE Visit \/ Descend \/ ImportsDone
    BY <1>4, SameBak DEF Visit, Descend, ImportsDone, fileVars, generated, buildVars
  <1>5. CASE ObncCompileDone \/ CompileC \/ WriteDirFile
    BY <1>5 DEF ObncCompileDone, CompileC, WriteDirFile, fileVars, generated, buildVars, BakInv,
                Current
  <1>6. CASE CreateExecutable \/ ExecutableUpToDate
    BY <1>6, SameBak DEF CreateExecutable, ExecutableUpToDate, fileVars, generated, buildVars
  <1>7. ~BuildError /\ ~Interrupt
    BY NoCircle DEF Interrupt, Alone, Steady, Undisturbed
  <1> QED
    BY <1>1, <1>2, <1>3, <1>4, <1>5, <1>6, <1>7, UpdateObjectFileBak, RunObncCompileBak,
       CompareSymFilesBak DEF Next, BuildStep

-----------------------------------------------------------------------------
(* Layouts.                                                                *)

LEMMA SameLayout == ASSUME LayoutInv, UNCHANGED <<obn, hdr, obj>> PROVE LayoutInv'
  BY DEF LayoutInv

LEMMA OwnerLayout == ASSUME FixedLayout, OrderInv, LayoutInv, Owner PROVE LayoutInv'
  <1>1. UNCHANGED <<hdr, obj>>
    BY DEF Owner, OwnerStep, generated
  <1>2. BuildInv /\ DraftInv
    BY DEF OrderInv, KnownInv
  <1>3. \A m \in Module : obn'[m].text.shape = obn[m].text.shape
    <2>1. ASSUME NEW m \in Module, SaveSource(m)
          PROVE  \A k \in Module : obn'[k].text.shape = obn[k].text.shape
      <3>1. PICK text \in Draft[m] : obn' = [obn EXCEPT ![m] = [text |-> text, time |-> clock]]
        BY <2>1 DEF SaveSource
      <3>2. obn \in [Module -> [text : Source, time : Time]]
        BY <1>2 DEF BuildInv, TypeOK, FilesTypeOK
      <3>3. text.shape = obn[m].text.shape
        BY <1>2 DEF FixedLayout, DraftInv
      <3> QED
        BY <3>1, <3>2, <3>3
    <2> QED
      BY <2>1 DEF Owner, OwnerStep, SaveC, RemoveC, SaveEnv, Rename
  <1>4. ASSUME NEW m \in Module, obj[m] /= NoFile PROVE obj[m].code.src.imports \subseteq Module
    <2>1. obj[m] \in ObjFile
      BY <1>2, <1>4 DEF BuildInv, TypeOK, FilesTypeOK, Table, Optional
    <2> QED
      BY <2>1 DEF ObjFile, Code, Source
  <1> QED
    BY <1>1, <1>3, <1>4 DEF LayoutInv

LEMMA RunObncCompileLayout == ASSUME OrderInv, LayoutInv, RunObncCompile PROVE LayoutInv'
  <1>1. UNCHANGED <<obn, obj>>
    BY DEF RunObncCompile, CompileStep, OpenSource, ImportList, CloseCFile, CloseHeader,
           ExportSymbolTable, written
  <1>2. CASE CloseHeader
    <2>1. /\ job.module \in Module /\ job.text = obn[job.module].text /\ hdr \in Table(HdrFile)
      BY RunningJob, NoJobAssumption DEF OrderInv, KnownInv, BuildInv, TypeOK, FilesTypeOK, FreshFiles
    <2>2. \A m \in Module : \/ hdr'[m] = hdr[m] \/ hdr'[m] = NoFile
                            \/ hdr'[m].face.shape = obn[m].text.shape
      BY <1>2, <2>1 DEF CloseHeader, Table
    <2> QED
      BY <1>1, <2>2 DEF LayoutInv
  <1>3. CASE OpenSource \/ ImportList \/ CloseCFile \/ ExportSymbolTable
    BY <1>1, <1>3, SameLayout DEF OpenSource, ImportList, CloseCFile, ExportSymbolTable
  <1> QED
    BY <1>2, <1>3 DEF RunObncCompile, CompileStep

LEMMA CompileCLayout == ASSUME OrderInv, LayoutInv, CompileC PROVE LayoutInv'
  <1>1. pc = "cc" /\ UNCHANGED <<obn, gen, hdr>> /\ KnownInv /\ LinkInv
    BY DEF CompileC, written, OrderInv
  <1>2. Current \in Module
    BY <1>1, ImportsFinished
  <1>3. obj \in Table(ObjFile)
    BY <1>1 DEF KnownInv, BuildInv, TypeOK, FilesTypeOK
  <1>4. /\ \A m \in Module \ {Current} : obj'[m] = obj[m]
        /\ obj'[Current].code = ObjectCode(Current)
    BY <1>2, <1>3 DEF CompileC, Table
  <1>5. /\ ObjectCode(Current).own /= NoFile => ObjectCode(Current).own.shape = obn[Current].text.shape
    BY <1>2 DEF ObjectCode, FaceOf, LayoutInv
  <1>6. \A i \in ObjectCode(Current).src.imports :
            ObjectCode(Current).faces[i].shape = obn[i].text.shape
    BY <1>1, HeadersThere DEF ObjectCode, FaceOf, LayoutInv
  <1> QED
    BY <1>1, <1>4, <1>5, <1>6 DEF LayoutInv

LEMMA NextLayout == ASSUME Alone, OrderInv, LayoutInv, [Next]_vars PROVE LayoutInv'
  <1>1. CASE Owner
    BY <1>1, OwnerLayout DEF Alone
  <1>2. CASE Clock \/ Interrupt \/ BuildError \/ (\E r \in Root, u \in Mode : Start(r, u)) \/ UNCHANGED vars
    BY <1>2, SameLayout DEF Clock, Tick, Interrupt, BuildError, Abandon, Start, vars, fileVars,
                            written, generated
  <1>3. CASE Visit \/ Descend \/ ImportsDone \/ UpdateObjectFile \/ ObncCompileDone \/ WriteDirFile
    BY <1>3, SameLayout DEF Visit, Descend, ImportsDone, UpdateObjectFile, ObncCompileDone,
                            WriteDirFile, fileVars, written, generated
  <1>4. CASE CompareSymFiles \/ CreateExecutable \/ ExecutableUpToDate
    BY <1>4, SameLayout DEF CompareSymFiles, CreateExecutable, ExecutableUpToDate, fileVars,
                            written, generated
  <1> QED
    BY <1>1, <1>2, <1>3, <1>4, RunObncCompileLayout, CompileCLayout DEF Next, BuildStep

-----------------------------------------------------------------------------
(* Headers and symbol files.                                               *)

(* Steps that leave headers, symbol files and obnc-compile alone.          *)
LEMMA SameLines ==
    ASSUME LinesInv, UNCHANGED <<hdr, sym>>,
           job' = NoJob \/ (UNCHANGED <<job, path>>)
    PROVE  LinesInv'
  BY DEF LinesInv, At, Current, Mentioned

LEMMA UpdateObjectFileLines == ASSUME OrderInv, LinesInv, UpdateObjectFile PROVE LinesInv'
  <1>1. /\ pc = "update" /\ UNCHANGED <<path, hdr>> /\ Current' = Current
        /\ sym \in Table(SymFile) /\ job = NoJob
    BY DEF UpdateObjectFile, buildVars, Current, OrderInv, KnownInv, BuildInv, TypeOK, FilesTypeOK,
           JobInv
  <1>2. Current \in Module
    BY <1>1, ImportsFinished
  <1>3. CASE OberonCompilationNeeded(Current, Stale(Current), IsRoot)
    <2>1. sym' = [sym EXCEPT ![Current] = NoFile] /\ job'.at = "open"
      BY <1>3 DEF UpdateObjectFile, NewJob
    <2>2. sym'[Current] = NoFile /\ \A m \in Module : sym'[m] \in {sym[m], NoFile}
      BY <1>1, <1>2, <2>1 DEF Table
    <2> QED
      BY <1>1, <2>1, <2>2 DEF LinesInv, At
  <1>4. CASE ~OberonCompilationNeeded(Current, Stale(Current), IsRoot)
    BY <1>1, <1>4, SameLines DEF UpdateObjectFile
  <1> QED
    BY <1>3, <1>4

LEMMA RunObncCompileLines == ASSUME OrderInv, LinesInv, RunObncCompile PROVE LinesInv'
  <1>1. /\ pc = "obnc-compile" /\ UNCHANGED path /\ Current' = Current
    BY DEF RunObncCompile, CompileStep, OpenSource, ImportList, CloseCFile, CloseHeader,
           ExportSymbolTable, buildVars, Current
  <1>2. /\ Current \in Module /\ job \in Job /\ job /= NoJob /\ job.module = Current
        /\ hdr \in Table(HdrFile) /\ sym \in Table(SymFile)
    BY <1>1, ImportsFinished, RunningJob, NoJobAssumption
       DEF OrderInv, KnownInv, BuildInv, TypeOK, FilesTypeOK, JobInv
  <1>3. CASE OpenSource \/ ImportList \/ CloseCFile
    <2>1. UNCHANGED <<hdr, sym>> /\ job'.at \in {"imports", "c", "h"} /\ ~At("exit")
      BY <1>2, <1>3 DEF OpenSource, ImportList, CloseCFile, GoTo, Job, At
    <2> QED
      BY <1>1, <1>2, <2>1 DEF LinesInv, At
  <1>4. CASE CloseHeader
    <2> DEFINE face == [exports |-> job.text.exports, mentions |-> Mentioned(job),
                        shape |-> job.text.shape, dir |-> dirName]
    <2>1. /\ UNCHANGED sym /\ At("h")
          /\ job' = [job EXCEPT !.at = "sym"]
          /\ hdr' = [hdr EXCEPT ![Current] = IF job.entry THEN NoFile
                                             ELSE [face |-> face, time |-> clock]]
      BY <1>2, <1>4 DEF CloseHeader, GoTo
    <2>2. /\ hdr'[Current] = IF job.entry THEN NoFile ELSE [face |-> face, time |-> clock]
          /\ \A m \in Module \ {Current} : hdr'[m] = hdr[m]
      BY <1>2, <2>1 DEF Table
    <2>3. sym'[Current] = NoFile
      BY <2>1 DEF LinesInv, At
    <2>4. job'.at = "sym" /\ job'.entry = job.entry /\ job'.text = job.text /\ job'.syms = job.syms
      BY <1>2, <2>1 DEF Job
    <2>5. Mentioned(job') = Mentioned(job)
      BY <2>4 DEF Mentioned
    <2>6. ~job.entry => /\ hdr'[Current].face.exports = job'.text.exports
                        /\ hdr'[Current].face.mentions = Mentioned(job')
      BY <2>2, <2>4, <2>5
    <2>7. \A m \in Module : hdr'[m] /= NoFile /\ sym'[m] /= NoFile
                                => Lines(hdr'[m].face) = Lines(sym'[m])
      BY <2>1, <2>2, <2>3 DEF LinesInv
    <2> QED
      BY <1>1, <2>3, <2>4, <2>6, <2>7 DEF LinesInv, At
  <1>5. CASE ExportSymbolTable
    <2> DEFINE file == [exports |-> job.text.exports, mentions |-> Mentioned(job), time |-> clock]
    <2>1. /\ UNCHANGED hdr /\ At("sym") /\ job'.at = "exit"
          /\ sym' = [sym EXCEPT ![Current] = IF job.entry THEN NoFile ELSE file]
      BY <1>2, <1>5 DEF ExportSymbolTable, GoTo, Job
    <2>2. /\ sym'[Current] = IF job.entry THEN NoFile ELSE file
          /\ \A m \in Module \ {Current} : sym'[m] = sym[m]
      BY <1>2, <2>1 DEF Table
    <2>3. sym'[Current] /= NoFile => Lines(hdr[Current].face) = Lines(sym'[Current])
      BY <2>1, <2>2 DEF LinesInv, Lines
    <2> QED
      BY <2>1, <2>2, <2>3 DEF LinesInv, At
  <1> QED
    BY <1>3, <1>4, <1>5 DEF RunObncCompile, CompileStep

LEMMA NextLines == ASSUME Alone, OrderInv, LinesInv, [Next]_vars PROVE LinesInv'
  <1>1. pc /= "obnc-compile" => job = NoJob
    BY DEF OrderInv, KnownInv, BuildInv, JobInv
  <1>2. CASE Owner \/ Clock \/ UNCHANGED vars
    BY <1>2, SameLines DEF Owner, OwnerStep, Clock, Tick, vars, fileVars, generated, buildVars
  <1>3. CASE Interrupt \/ BuildError \/ (\E r \in Root, u \in Mode : Start(r, u))
    BY <1>1, <1>3, SameLines DEF Interrupt, BuildError, Abandon, Start, Running, fileVars, generated
  <1>4. CASE Visit \/ Descend \/ ImportsDone \/ ObncCompileDone \/ CompileC \/ WriteDirFile
    BY <1>1, <1>4, SameLines DEF Visit, Descend, ImportsDone, ObncCompileDone, CompileC,
                                 WriteDirFile, fileVars, generated
  <1>5. CASE CompareSymFiles \/ CreateExecutable \/ ExecutableUpToDate
    BY <1>1, <1>5, SameLines DEF CompareSymFiles, CreateExecutable, ExecutableUpToDate, fileVars,
                                 generated
  <1> QED
    BY <1>2, <1>3, <1>4, <1>5, UpdateObjectFileLines, RunObncCompileLines DEF Next, BuildStep

-----------------------------------------------------------------------------
(* What obnc-compile has read of the imports.                              *)

(* Steps outside the compilation of a module that write no file of it.     *)
LEMMA SameRead ==
    ASSUME ReadInv, UNCHANGED <<gen, obj>>, job' = NoJob, pc' /= "cc",
           pc \notin {"obnc-compile", "cc"}
    PROVE  ReadInv'
  BY DEF ReadInv, At, Compiling

(* A module that need not be translated again was made of imports that     *)
(* still export what they did then.                                        *)
LEMMA UpdateObjectFileRead ==
    ASSUME OrderInv, BakInv, ReadInv, ClientInv, UpdateObjectFile PROVE ReadInv'
  <1>1. /\ pc = "update" /\ UNCHANGED <<path, obn, gen, obj>> /\ Current' = Current /\ job = NoJob
    BY DEF UpdateObjectFile, written, buildVars, Current, OrderInv, KnownInv, BuildInv, JobInv
  <1>2. CASE OberonCompilationNeeded(Current, Stale(Current), IsRoot)
    <2>1. pc' = "obnc-compile" /\ job'.at = "open"
      BY <1>2 DEF UpdateObjectFile, NewJob
    <2> QED
      BY <1>1, <2>1 DEF ReadInv, At, Compiling
  <1>3. CASE ~OberonCompilationNeeded(Current, Stale(Current), IsRoot)
    <2>1. UNCHANGED <<sym, job>>
      BY <1>3 DEF UpdateObjectFile
    <2>2. ~Older(gen[Current], obn[Current].time) /\ listed[Current] \cap changed = {}
      BY <1>3 DEF OberonCompilationNeeded, Stale
    <2>3. /\ Current \in Module /\ listed[Current] = obn[Current].text.imports
          /\ \A i \in obn[Current].text.imports :
                i \in Module /\ i /= Current /\ sym[i] /= NoFile
      BY <1>1, ImportsFinished
    <2>4. /\ gen[Current] /= NoFile /\ gen[Current].text = obn[Current].text
          /\ obj[Current].code.src = obn[Current].text /\ ~Compiling(Current)
      BY <1>1, <2>2, <2>3, PresentImports DEF Compiling
    <2>5. obj[Current].code.syms = gen[Current].syms
      BY <2>3, <2>4 DEF ReadInv
    <2>6. ASSUME NEW i \in gen[Current].text.imports
          PROVE  gen[Current].syms[i] \subseteq Lines(sym[i])
      <3>1. Relied(obj[Current].code, i) \subseteq Offered(i)
        BY <2>2, <2>3, <2>4, <2>6 DEF ClientInv
      <3>2. Offered(i) = Lines(sym[i])
        BY <1>1, <2>3, <2>4, <2>6 DEF Offered, BakInv
      <3> QED
        BY <2>5, <3>1, <3>2 DEF Relied
    <2> QED
      BY <1>1, <2>1, <2>6 DEF ReadInv, At, Compiling
  <1> QED
    BY <1>2, <1>3

LEMMA RunObncCompileRead == ASSUME OrderInv, ReadInv, RunObncCompile PROVE ReadInv'
  <1>1. /\ pc = "obnc-compile" /\ UNCHANGED <<pc, path, obj>> /\ Current' = Current
    BY DEF RunObncCompile, CompileStep, OpenSource, ImportList, CloseCFile, CloseHeader,
           ExportSymbolTable, buildVars, Current
  <1>2. /\ Current \in Module /\ job \in Job /\ job /= NoJob /\ job.module = Current
        /\ gen \in Table(GenFile) /\ sym \in Table(SymFile)
        /\ job.text = obn[Current].text
    BY <1>1, ImportsFinished, RunningJob, NoJobAssumption
       DEF OrderInv, KnownInv, BuildInv, TypeOK, FilesTypeOK, JobInv, FreshFiles
  <1>3. \A i \in job.text.imports : i \in Module /\ i /= Current
    BY <1>1, <1>2, ImportsFinished
  <1>4. \A m \in Module \ {Current} : gen'[m] = gen[m] /\ sym'[m] = sym[m]
    BY <1>2 DEF RunObncCompile, CompileStep, OpenSource, ImportList, CloseCFile, CloseHeader,
                ExportSymbolTable, Table
  <1>5. \A m \in Module : gen'[m] /= NoFile => Compiling(m)' \/ obj'[m].code.syms = gen'[m].syms
    BY <1>1, <1>4 DEF ReadInv, Compiling
  <1>6. job' /= NoJob
    BY RunObncCompileKeeps DEF OrderInv, KnownInv
  <1>7. CASE OpenSource
    <2>1. job'.at = "imports"
      BY <1>2, <1>7 DEF OpenSource, Job
    <2> QED
      BY <1>1, <1>5, <2>1 DEF ReadInv, At
  <1>8. CASE ImportList
    <2>1. job'.at = "c" /\ job'.text = job.text /\ job'.syms = ImportedSymbols(job.text.imports)
      BY <1>2, <1>8 DEF ImportList, Job
    <2>2. \A i \in job.text.imports : job'.syms[i] = Lines(sym'[i])
      BY <1>3, <1>4, <2>1 DEF ImportedSymbols
    <2> QED
      BY <1>1, <1>5, <2>1, <2>2 DEF ReadInv, At
  <1>9. CASE CloseCFile
    <2>1. /\ At("c") /\ job'.at = "h" /\ job'.text = job.text /\ job'.syms = job.syms
          /\ gen' = [gen EXCEPT ![Current] = [text |-> job.text, entry |-> job.entry,
                                              syms |-> job.syms, time |-> clock]]
      BY <1>2, <1>9 DEF CloseCFile, GoTo, Job
    <2>2. gen'[Current].syms = job.syms
      BY <1>2, <2>1 DEF Table
    <2>3. \A i \in job.text.imports : job.syms[i] = Lines(sym'[i])
      BY <1>3, <1>4, <2>1 DEF ReadInv
    <2> QED
      BY <1>1, <1>5, <2>1, <2>2, <2>3 DEF ReadInv, At
  <1>10. CASE CloseHeader \/ ExportSymbolTable
    <2>1. /\ At("h") \/ At("sym")
          /\ job'.at \in {"sym", "exit"} /\ job'.text = job.text /\ job'.syms = job.syms
          /\ gen' = gen
      BY <1>2, <1>10 DEF CloseHeader, ExportSymbolTable, GoTo, Job, At
    <2>2. gen'[Current].syms = job.syms
      BY <2>1 DEF ReadInv
    <2>3. \A i \in job.text.imports : job.syms[i] = Lines(sym'[i])
      BY <1>3, <1>4, <2>1 DEF ReadInv
    <2> QED
      BY <1>1, <1>5, <2>1, <2>2, <2>3 DEF ReadInv, At
  <1> QED
    BY <1>7, <1>8, <1>9, <1>10 DEF RunObncCompile, CompileStep

LEMMA ObncCompileDoneRead ==
    ASSUME Alone, OrderInv, ReadInv, ObncCompileDone PROVE ReadInv'
  <1>1. /\ pc = "obnc-compile" /\ At("exit") /\ job' = NoJob /\ pc' \in {"dir", "cc"}
        /\ UNCHANGED <<path, gen, sym, obj>> /\ Current' = Current
    BY DEF ObncCompileDone, fileVars, generated, buildVars, Current
  <1>2. Current \in Module
    BY <1>1, ImportsFinished
  <1>3. gen[Current].text = obn[Current].text /\ gen[Current] /= NoFile
    BY <1>1, <1>2 DEF OrderInv, LinkInv, TextInv, KnownInv, FreshFiles, FreshFile, Older
  <1>4. job.text = obn[Current].text
    BY <1>1 DEF At, OrderInv, KnownInv, FreshFiles, BuildInv, JobInv
  <1>5. \A i \in gen[Current].text.imports : gen[Current].syms[i] \subseteq Lines(sym[i])
    BY <1>1, <1>3, <1>4 DEF ReadInv
  <1>6. pc' = "cc"
    BY DEF ObncCompileDone, Alone, Steady, OrderInv, KnownInv, BuildInv, TypeOK
  <1> QED
    BY <1>1, <1>5, <1>6 DEF ReadInv, At, Compiling

LEMMA CompileCRead == ASSUME OrderInv, ReadInv, CompileC PROVE ReadInv'
  <1>1. /\ pc = "cc" /\ pc' = "dir" /\ job' = NoJob /\ UNCHANGED <<gen, path>>
        /\ obj \in Table(ObjFile)
    BY DEF CompileC, buildVars, OrderInv, KnownInv, BuildInv, JobInv, TypeOK, FilesTypeOK
  <1>2. Current \in Module
    BY <1>1, ImportsFinished
  <1>3. /\ \A m \in Module \ {Current} : obj'[m] = obj[m]
        /\ obj'[Current].code.syms = gen[Current].syms
    BY <1>1, <1>2 DEF CompileC, Table, ObjectCode
  <1> QED
    BY <1>1, <1>3 DEF ReadInv, At, Compiling

LEMMA NextRead ==
    ASSUME Alone, OrderInv, BakInv, ReadInv, ClientInv, [Next]_vars PROVE ReadInv'
  <1>1. pc /= "obnc-compile" => job = NoJob
    BY DEF OrderInv, KnownInv, BuildInv, JobInv
  <1>2. CASE Owner
    BY <1>1, <1>2, SameRead DEF Owner, OwnerStep, Alone, Steady, Undisturbed, Orderly, Running,
                                generated
  <1>3. CASE Clock \/ UNCHANGED vars
    <2>1. UNCHANGED <<gen, sym, obj, job, pc, path>>
      BY <1>3 DEF Clock, Tick, vars, fileVars, generated, buildVars
    <2>2. /\ Current' = Current /\ \A m : Compiling(m)' = Compiling(m)
          /\ \A step : At(step)' = At(step)
      BY <2>1 DEF Current, Compiling, At
    <2> QED
      BY <2>1, <2>2 DEF ReadInv
  <1>4. CASE Visit \/ Descend \/ ImportsDone \/ \E r \in Root, u \in Mode : Start(r, u)
    BY <1>1, <1>4, SameRead DEF Visit, Descend, ImportsDone, Start, Running, fileVars, generated
  <1>5. CASE WriteDirFile \/ CompareSymFiles \/ CreateExecutable \/ ExecutableUpToDate
    BY <1>1, <1>5, SameRead DEF WriteDirFile, CompareSymFiles, CreateExecutable,
                                ExecutableUpToDate, fileVars, generated
  <1>6. ~BuildError /\ ~Interrupt
    BY NoCircle DEF Interrupt, Alone, Steady, Undisturbed
  <1> QED
    BY <1>2, <1>3, <1>4, <1>5, <1>6, UpdateObjectFileRead, RunObncCompileRead,
       ObncCompileDoneRead, CompileCRead DEF Next, BuildStep

-----------------------------------------------------------------------------
(* What clients rely on.                                                   *)

LEMMA SameClients ==
    ASSUME ClientInv, UNCHANGED <<obn, gen, sym, bak, obj, changed>>, Running => Running',
           \A m \in Module : Compiling(m) => Compiling(m)',
           \A m \in Module : Passed(m)' => Passed(m)
    PROVE  ClientInv'
  BY DEF ClientInv, Offered

(* Between builds, and when all modules have been met, every module that   *)
(* is not edited relies on what there is.                                  *)
LEMMA SettledClients ==
    ASSUME ClientInv, UNCHANGED <<gen, sym, bak, obj>>,
           pc \notin {"obnc-compile", "cc"},
           ~Running \/ \A m \in Module : Passed(m),
           \A m \in Module : Older(gen[m], obn[m].time) => Older(gen[m], obn'[m].time)
    PROVE  ClientInv'
  BY DEF ClientInv, Offered, Compiling

LEMMA OwnerClients == ASSUME Orderly, OrderInv, ClientInv, Owner PROVE ClientInv'
  <1>1. UNCHANGED <<gen, sym, bak, obj>> /\ ~Running /\ Aged
    BY DEF Owner, OwnerStep, Orderly, generated
  <1>2. ASSUME NEW m \in Module, Older(gen[m], obn[m].time)
        PROVE  Older(gen[m], obn'[m].time)
    <2>1. CASE UNCHANGED obn
      BY <1>2, <2>1
    <2>2. ASSUME NEW k \in Module, SaveSource(k) PROVE Older(gen[m], obn'[m].time)
      <3>1. PICK text \in Draft[k] : obn' = [obn EXCEPT ![k] = [text |-> text, time |-> clock]]
        BY <2>2 DEF SaveSource
      <3>2. obn \in [Module -> [text : Source, time : Time]]
        BY DEF OrderInv, KnownInv, BuildInv, TypeOK, FilesTypeOK
      <3>3. obn'[m] = obn[m] \/ obn'[m].time = clock
        BY <3>1, <3>2
      <3>4. Older(gen[m], clock)
        BY <1>1 DEF Aged, Orderly
      <3> QED
        BY <1>2, <3>3, <3>4
    <2> QED
      BY <2>1, <2>2 DEF Owner, OwnerStep, SaveC, RemoveC, SaveEnv, Rename
  <1> QED
    BY <1>1, <1>2, SettledClients DEF Running

(* The old symbol file stands for the new one from here on.                *)
LEMMA UpdateObjectFileClients ==
    ASSUME OrderInv, BakInv, ClientInv, UpdateObjectFile PROVE ClientInv'
  <1>1. /\ pc = "update" /\ pc' \in {"obnc-compile", "cc", "dir"}
        /\ UNCHANGED <<path, discovered, changed, obn, gen, obj>>
        /\ Current' = Current /\ Finished' = Finished
        /\ bak \in Table(SUBSET Decl) /\ sym \in Table(SymFile)
    BY DEF UpdateObjectFile, written, buildVars, Current, Finished, OnPath, OrderInv, KnownInv,
           BuildInv, TypeOK, FilesTypeOK
  <1>2. /\ Current \in Module /\ Current \notin Finished
        /\ listed[Current] = obn[Current].text.imports
    BY <1>1, ImportsFinished
  <1>3. \A i \in Module : Offered(i)' = Offered(i)
    <2>1. CASE OberonCompilationNeeded(Current, Stale(Current), IsRoot)
      <3>1. /\ bak' = IF sym[Current] = NoFile THEN bak
                      ELSE [bak EXCEPT ![Current] = Lines(sym[Current])]
            /\ sym' = [sym EXCEPT ![Current] = NoFile]
        BY <2>1 DEF UpdateObjectFile
      <3>2. \A i \in Module \ {Current} : bak'[i] = bak[i] /\ sym'[i] = sym[i]
        BY <1>1, <3>1 DEF Table
      <3>3. /\ sym'[Current] = NoFile /\ bak[Current] = NoFile
            /\ bak'[Current] = IF sym[Current] = NoFile THEN NoFile ELSE Lines(sym[Current])
        BY <1>1, <1>2, <3>1 DEF Table, BakInv
      <3>4. sym[Current] /= NoFile => Lines(sym[Current]) /= NoFile
        <4>1. sym[Current] /= NoFile => Lines(sym[Current]) \in SUBSET Decl
          BY <1>1, <1>2 DEF Table, Optional, SymFile, Lines
        <4> QED
          BY <4>1, NoFileAssumption
      <3> QED
        BY <3>2, <3>3, <3>4 DEF Offered
    <2>2. CASE ~OberonCompilationNeeded(Current, Stale(Current), IsRoot)
      BY <2>2 DEF UpdateObjectFile, Offered
    <2> QED
      BY <2>1, <2>2
  <1>4. ASSUME NEW m \in Module, ~Older(gen[m], obn[m].time), ~Compiling(m)',
               NEW i \in obj[m].code.src.imports
        PROVE  \/ Relied(obj[m].code, i) \subseteq Offered(i)
               \/ ~Passed(m)' /\ i \in changed
    <2>1. \/ Relied(obj[m].code, i) \subseteq Offered(i)
          \/ ~Passed(m) /\ i \in changed
      BY <1>1, <1>4 DEF ClientInv, Compiling
    <2>2. CASE m /= Current
      BY <1>1, <2>1, <2>2 DEF Passed
    <2>3. CASE m = Current
      <3>1. pc' = "dir"
        BY <1>1, <1>4, <2>3 DEF Compiling
      <3>2. listed[Current] \cap changed = {}
        BY <3>1 DEF UpdateObjectFile, OberonCompilationNeeded, Stale
      <3>3. i \in listed[Current]
        BY <1>1, <1>2, <1>4, <2>3, PresentImports DEF Compiling
      <3> QED
        BY <2>1, <3>2, <3>3
    <2> QED
      BY <2>2, <2>3
  <1>5. \A m \in Module : ~Older(gen[m], obn[m].time) /\ ~Compiling(m)'
            => obj[m].code.src.imports \subseteq Module
    BY <1>1, PresentImports DEF Compiling
  <1> QED
    BY <1>1, <1>3, <1>4, <1>5 DEF ClientInv, Running

(* A new symbol file may say more than the old one, which still counts.    *)
LEMMA RunObncCompileClients ==
    ASSUME OrderInv, LinesInv, ClientInv, RunObncCompile PROVE ClientInv'
  <1>1. /\ pc = "obnc-compile" /\ UNCHANGED <<pc, path, discovered, changed, obn, bak, obj>>
        /\ Current' = Current /\ Finished' = Finished
    BY DEF RunObncCompile, CompileStep, OpenSource, ImportList, CloseCFile, CloseHeader,
           ExportSymbolTable, written, buildVars, Current, Finished, OnPath
  <1>2. /\ Current \in Module /\ job /= NoJob /\ job.module = Current
        /\ gen \in Table(GenFile) /\ sym \in Table(SymFile)
    BY <1>1, ImportsFinished
       DEF OrderInv, KnownInv, BuildInv, TypeOK, FilesTypeOK, JobInv
  <1>3. \A m \in Module \ {Current} : gen'[m] = gen[m] /\ sym'[m] = sym[m]
    BY <1>2 DEF RunObncCompile, CompileStep, OpenSource, ImportList, CloseCFile, CloseHeader,
                ExportSymbolTable, Table
  <1>4. UNCHANGED sym \/ (At("sym") /\ sym[Current] = NoFile)
    BY <1>2 DEF RunObncCompile, CompileStep, OpenSource, ImportList, CloseCFile, CloseHeader,
                ExportSymbolTable, LinesInv, At
  <1>5. \A i \in Module : Offered(i) \subseteq Offered(i)'
    BY <1>1, <1>3, <1>4 DEF Offered
  <1>6. \A m \in Module : Compiling(m)' = Compiling(m) /\ Passed(m)' = Passed(m)
    BY <1>1 DEF Compiling, Passed
  <1>7. \A m \in Module : ~Older(gen[m], obn[m].time) /\ ~Compiling(m)
            => obj[m].code.src.imports \subseteq Module
    BY PresentImports
  <1>8. \A m \in Module : ~Compiling(m) => m /= Current
    BY <1>1 DEF Compiling
  <1> QED
    BY <1>1, <1>3, <1>5, <1>6, <1>7, <1>8 DEF ClientInv, Running

(* New object code relies on what the imports offer.                       *)
LEMMA CompileCClients ==
    ASSUME OrderInv, BakInv, LinesInv, ReadInv, ClientInv, CompileC PROVE ClientInv'
  <1>1. /\ pc = "cc" /\ pc' = "dir"
        /\ UNCHANGED <<path, discovered, changed, obn, gen, hdr, sym, bak>>
        /\ Current' = Current /\ Finished' = Finished /\ obj \in Table(ObjFile)
    BY DEF CompileC, written, buildVars, Current, Finished, OnPath, OrderInv, KnownInv, BuildInv,
           TypeOK, FilesTypeOK
  <1>2. /\ Current \in Module
        /\ \A i \in obn[Current].text.imports :
              i \in Module /\ i /= Current /\ sym[i] /= NoFile /\ hdr[i] /= NoFile
    BY <1>1, ImportsFinished
  <1>3. gen[Current].text = obn[Current].text
    BY <1>1, <1>2 DEF OrderInv, LinkInv, TextInv, KnownInv, FreshFiles, FreshFile
  <1>4. /\ \A m \in Module \ {Current} : obj'[m] = obj[m]
        /\ obj'[Current].code = ObjectCode(Current)
    BY <1>1, <1>2 DEF CompileC, Table
  <1>5. ASSUME NEW i \in obj'[Current].code.src.imports
        PROVE  Relied(obj'[Current].code, i) \subseteq Offered(i)
    <2>1. i \in gen[Current].text.imports /\ i \in obn[Current].text.imports
      BY <1>3, <1>4, <1>5 DEF ObjectCode
    <2>2. /\ obj'[Current].code.syms[i] = gen[Current].syms[i]
          /\ obj'[Current].code.faces[i] = hdr[i].face
      BY <1>2, <1>4, <2>1 DEF ObjectCode, FaceOf
    <2>3. gen[Current].syms[i] \subseteq Lines(sym[i]) /\ Lines(hdr[i].face) = Lines(sym[i])
      BY <1>1, <1>2, <2>1 DEF ReadInv, LinesInv
    <2>4. Offered(i) = Lines(sym[i])
      BY <1>2, <2>1 DEF Offered, BakInv
    <2> QED
      BY <2>2, <2>3, <2>4 DEF Relied
  <1>6. \A m \in Module \ {Current} : ~Compiling(m) /\ (Passed(m)' => Passed(m))
    BY <1>1 DEF Compiling, Passed
  <1> QED
    BY <1>1, <1>4, <1>5, <1>6 DEF ClientInv, Running, Offered

(* A client that was met already cannot rely on the module that is left    *)
(* now; the others are told when the module has lost a declaration.        *)
LEMMA CompareSymFilesClients ==
    ASSUME OrderInv, BakInv, ClientInv, CompareSymFiles PROVE ClientInv'
  <1>1. /\ pc = "compare" /\ pc' \in {"link", "imports"}
        /\ UNCHANGED <<obn, gen, sym, obj, discovered>> /\ path' = Tail(path)
        /\ bak \in Table(SUBSET Decl) /\ path \in Seq(Module) /\ path /= <<>>
    BY CurrentInModule
       DEF CompareSymFiles, written, OrderInv, KnownInv, BuildInv, TypeOK, FilesTypeOK
  <1>2. /\ Current \in Module /\ Current \notin Finished
        /\ listed[Current] = obn[Current].text.imports
        /\ \A i \in obn[Current].text.imports : i \in Finished
    BY <1>1, ImportsFinished
  <1>3. Finished' \subseteq Finished \union {Current}
    BY <1>1, PopOnPath DEF Finished
  <1>4. \A i \in Module \ {Current} : Offered(i)' = Offered(i)
    BY <1>1 DEF CompareSymFiles, Offered, Table
  <1>5. changed \subseteq changed'
    BY DEF CompareSymFiles
  <1>6. ASSUME NEW i \in Module, i = Current PROVE Offered(i) \subseteq Offered(i)' \/ i \in changed'
    <2>1. CASE sym[i] /= NoFile /\ bak[i] /= NoFile
      <3>1. bak'[i] = NoFile /\ (bak[i] \subseteq Lines(sym[i]) \/ i \in changed')
        BY <1>1, <1>6, <2>1 DEF CompareSymFiles, SymFileIsSubset, Table
      <3> QED
        BY <1>1, <2>1, <3>1 DEF Offered
    <2>2. CASE ~(sym[i] /= NoFile /\ bak[i] /= NoFile)
      BY <1>1, <1>6, <2>2 DEF CompareSymFiles, Offered
    <2> QED
      BY <2>1, <2>2
  <1>7. ASSUME NEW m \in Module, ~Older(gen[m], obn[m].time), NEW i \in obj[m].code.src.imports
        PROVE  \/ Relied(obj[m].code, i) \subseteq Offered(i)'
               \/ ~Passed(m)' /\ i \in changed'
    <2>1. ~Compiling(m) /\ pc /= "idle"
      BY <1>1 DEF Compiling
    <2>2. /\ i \in Module
          /\ Passed(m) => i /= Current
      BY <1>1, <1>2, <1>7, <2>1, PresentImports DEF Passed
    <2>3. Passed(m)' => Passed(m)
      BY <1>1, <1>3 DEF Passed
    <2>4. \/ Relied(obj[m].code, i) \subseteq Offered(i)
          \/ ~Passed(m) /\ i \in changed
      BY <1>7, <2>1 DEF ClientInv
    <2>5. CASE i /= Current
      BY <1>4, <1>5, <2>2, <2>3, <2>4, <2>5
    <2>6. CASE i = Current
      BY <1>5, <1>6, <2>2, <2>3, <2>4, <2>6
    <2> QED
      BY <2>5, <2>6
  <1> DEFINE Good(m, i) == \/ Relied(obj[m].code, i) \subseteq Offered(i)'
                           \/ Running' /\ ~Passed(m)' /\ i \in changed'
  <1>8. \A m \in Module : ~Older(gen[m], obn[m].time) =>
            \A i \in obj[m].code.src.imports : Good(m, i)
    BY <1>1, <1>7 DEF Running
  <1> QED
    BY <1>1, <1>8 DEF ClientInv, Offered

LEMMA NextClients ==
    ASSUME Alone, OrderInv, BakInv, LinesInv, ReadInv, ClientInv, [Next]_vars
    PROVE  ClientInv'
  <1>1. CASE Owner
    BY <1>1, OwnerClients DEF Alone, Steady, Undisturbed
  <1>2. CASE Clock \/ UNCHANGED vars
    <2>1. UNCHANGED <<obn, gen, sym, bak, obj, changed, pc, path, discovered>>
      BY <1>2 DEF Clock, Tick, vars, fileVars, written, generated, buildVars
    <2>2. \A m : Compiling(m)' = Compiling(m) /\ Passed(m)' = Passed(m)
      BY <2>1 DEF Compiling, Passed, Finished, OnPath, Current
    <2> QED
      BY <2>1, <2>2, SameClients DEF Running
  <1>3. ASSUME NEW r \in Root, NEW u \in Mode, Start(r, u) PROVE ClientInv'
    BY <1>3, SettledClients DEF Start, Running, fileVars, written, generated
  <1>4. CASE Visit \/ Descend \/ ImportsDone
    <2>1. /\ UNCHANGED <<obn, gen, sym, bak, obj, changed>>
          /\ pc \in {"visit", "imports"} /\ pc' \in {"visit", "imports", "update"}
      BY <1>4 DEF Visit, Descend, ImportsDone, fileVars, written, generated, buildVars
    <2>2. Finished' \subseteq Finished
      BY <1>4, TraverseFinished DEF OrderInv, KnownInv, SettledInv
    <2> QED
      BY <2>1, <2>2, SameClients DEF Running, Compiling, Passed
  <1>5. CASE ObncCompileDone
    <2>1. /\ UNCHANGED <<obn, gen, sym, bak, obj, changed, path, discovered>>
          /\ pc = "obnc-compile" /\ pc' = "cc"
      BY <1>5 DEF ObncCompileDone, fileVars, written, generated, buildVars, Alone, Steady,
                  OrderInv, KnownInv, BuildInv, TypeOK
    <2> QED
      BY <2>1, SameClients DEF Running, Compiling, Passed, Finished, OnPath, Current
  <1>6. CASE WriteDirFile
    <2>1. /\ UNCHANGED <<obn, gen, sym, bak, obj, changed, path, discovered>>
          /\ pc = "dir" /\ pc' = "compare"
      BY <1>6 DEF WriteDirFile, written, buildVars
    <2> QED
      BY <2>1, SameClients DEF Running, Compiling, Passed, Finished, OnPath, Current
  <1>7. CASE CreateExecutable \/ ExecutableUpToDate
    <2>1. pc = "link" /\ UNCHANGED <<obn, gen, sym, bak, obj>>
      BY <1>7 DEF CreateExecutable, ExecutableUpToDate, fileVars, written, generated
    <2>2. \A m \in Module : Passed(m)
      BY <2>1, AllFinished DEF Passed
    <2> QED
      BY <2>1, <2>2, SettledClients
  <1>8. ~BuildError /\ ~Interrupt
    BY NoCircle DEF Interrupt, Alone, Steady, Undisturbed
  <1> QED
    BY <1>1, <1>2, <1>3, <1>4, <1>5, <1>6, <1>7, <1>8, UpdateObjectFileClients,
       RunObncCompileClients, CompileCClients, CompareSymFilesClients DEF Next, BuildStep

-----------------------------------------------------------------------------
(* What is linked agrees in itself.                                        *)

LEMMA LinkedAgrees ==
    ASSUME Alone, OrderInv, ReliedInv, pc = "link", NEW m \in Module
    PROVE  /\ m \in discovered /\ LinkInput(m) = obj[m].code /\ obj[m].code \in Code
           /\ \A i \in obj[m].code.src.imports :
                 /\ i \in Module
                 /\ Relied(obj[m].code, i) \subseteq Lines(obj[i].code.own)
                 /\ obj[m].code.faces[i].shape = obj[i].code.own.shape
  <1>1. Finished = Module /\ Finished = discovered
    BY AllFinished DEF Finished, OrderInv, KnownInv, BuildInv, TypeOK
  <1>2. \A k \in Module : ~Older(gen[k], obn[k].time) /\ ~Compiling(k) /\ Passed(k)
    BY <1>1 DEF OrderInv, LinkInv, TextInv, Compiling, Passed
  <1>3. \A k \in Module : /\ gen[k] /= NoFile /\ obj[k] /= NoFile /\ MadeHere(k)
                          /\ obj[k].code.src = obn[k].text /\ obn[k].text.imports \subseteq Module
    BY <1>2, PresentImports
  <1>4. LinkInput(m) = obj[m].code
    BY DEF LinkInput, Alone, Steady, OrderInv, KnownInv, BuildInv, TypeOK
  <1>5. obj[m].code \in Code
    <2>1. obj[m] \in ObjFile
      BY <1>3 DEF OrderInv, KnownInv, BuildInv, TypeOK, FilesTypeOK, Table, Optional
    <2> QED
      BY <2>1 DEF ObjFile
  <1>6. ASSUME NEW i \in obj[m].code.src.imports
        PROVE  /\ i \in Module
               /\ Relied(obj[m].code, i) \subseteq Lines(obj[i].code.own)
               /\ obj[m].code.faces[i].shape = obj[i].code.own.shape
    <2>1. i \in Module /\ i \in obn[m].text.imports
      BY <1>3, <1>6
    <2>2. listed[m] = obn[m].text.imports
      BY <1>1 DEF OrderInv, KnownInv, CycleInv, VisitedInv, ListedInv
    <2>3. i /= root
      BY <1>1, <2>1, <2>2 DEF OrderInv, LinkInv, RoleInv
    <2>4. sym[i] /= NoFile
      BY <1>1, <2>1, <2>3 DEF OrderInv, KnownInv, CycleInv, SymbolFilesInv
    <2>5. hdr[i] /= NoFile
      BY <1>3, <2>1, <2>4 DEF OrderInv, LinkInv, RoleInv
    <2>6. hdr[i].face \in Face /\ obj[i].code.own = hdr[i].face /\ obj[i].code.own /= NoFile
      <3>1. hdr[i] \in HdrFile
        BY <2>1, <2>5 DEF OrderInv, KnownInv, BuildInv, TypeOK, FilesTypeOK, Table, Optional
      <3> QED
        BY <1>3, <2>1, <2>5, <3>1, NoFileAssumption DEF MadeHere, FaceOf, HdrFile
    <2>7. Lines(obj[i].code.own) = Lines(sym[i])
      BY <2>1, <2>4, <2>5, <2>6 DEF ReliedInv, LinesInv
    <2>8. Offered(i) = Lines(sym[i])
      BY <2>1, <2>4 DEF ReliedInv, BakInv, Offered
    <2>9. Relied(obj[m].code, i) \subseteq Offered(i)
      BY <1>2, <1>6 DEF ReliedInv, ClientInv
    <2>10. obj[m].code.faces[i].shape = obj[i].code.own.shape
      BY <1>3, <1>6, <2>1, <2>6 DEF ReliedInv, LayoutInv
    <2> QED
      BY <2>1, <2>7, <2>8, <2>9, <2>10
  <1> QED
    BY <1>1, <1>4, <1>5, <1>6

LEMMA NextAgreed == ASSUME Alone, OrderInv, ReliedInv, [Next]_vars PROVE AgreedInv'
  <1>1. CASE UNCHANGED exe
    BY <1>1 DEF ReliedInv, AgreedInv
  <1>2. CASE CreateExecutable
    <2> DEFINE code == [m \in Module |-> IF m \in discovered THEN LinkInput(m) ELSE NoFile]
    <2>1. pc = "link" /\ exe' = [exe EXCEPT ![root] = [code |-> code, time |-> clock]]
      BY <1>2 DEF CreateExecutable
    <2>2. exe \in Table(ExeFile)
      BY DEF OrderInv, KnownInv, BuildInv, TypeOK, FilesTypeOK
    <2>3. \A m \in Module : code[m] = obj[m].code /\ code[m] /= NoFile
      BY <2>1, LinkedAgrees, NoFileAssumption
    <2>4. AgreesInside(code)
      <3> SUFFICES ASSUME NEW m \in Module
                   PROVE  /\ code[m] /= NoFile
                          /\ \A i \in code[m].src.imports :
                                /\ Relied(code[m], i) \subseteq Lines(code[i].own)
                                /\ code[m].faces[i].shape = code[i].own.shape
        BY DEF AgreesInside
      <3> HIDE DEF code
      <3> QED
        BY <2>1, <2>3, LinkedAgrees
    <2>5. ASSUME NEW m \in Module, exe'[m] /= NoFile PROVE AgreesInside(exe'[m].code)
      <3> HIDE DEF code
      <3>1. CASE m = root
        BY <2>1, <2>2, <2>4, <2>5, <3>1 DEF Table
      <3>2. CASE m /= root
        BY <2>1, <2>2, <2>5, <3>2 DEF Table, ReliedInv, AgreedInv
      <3> QED
        BY <3>1, <3>2
    <2> QED
      BY <2>5 DEF AgreedInv
  <1>3. CASE Owner \/ Clock \/ Interrupt \/ BuildError \/ \E r \in Root, u \in Mode : Start(r, u)
    BY <1>1, <1>3 DEF Owner, OwnerStep, Clock, Tick, Interrupt, BuildError, Abandon, Start,
                      fileVars, generated
  <1>4. CASE Visit \/ Descend \/ ImportsDone \/ UpdateObjectFile \/ RunObncCompile \/ ObncCompileDone
    BY <1>1, <1>4 DEF Visit, Descend, ImportsDone, UpdateObjectFile, RunObncCompile, CompileStep,
                      OpenSource, ImportList, CloseCFile, CloseHeader, ExportSymbolTable,
                      ObncCompileDone, fileVars, generated
  <1>5. CASE CompileC \/ WriteDirFile \/ CompareSymFiles \/ ExecutableUpToDate \/ UNCHANGED vars
    BY <1>1, <1>5 DEF CompileC, WriteDirFile, CompareSymFiles, ExecutableUpToDate, vars, fileVars,
                      generated
  <1> QED
    BY <1>2, <1>3, <1>4, <1>5 DEF Next, BuildStep

-----------------------------------------------------------------------------
LEMMA InitDraft == Init => DraftInv
  <1> SUFFICES ASSUME Init PROVE DraftInv
    OBVIOUS
  <1>1. PICK first \in FirstDrafts : obn = [m \in Module |-> [text |-> first[m], time |-> 0]]
    BY DEF Init, FilesInit
  <1>2. \A m \in Module : first[m] \in Draft[m] /\ obn[m].text = first[m]
    BY <1>1 DEF FirstDrafts
  <1> QED
    BY <1>2 DEF DraftInv

LEMMA InitRelied == Init => DraftInv /\ ChainInv /\ ReliedInv
  <1> SUFFICES ASSUME Init PROVE DraftInv /\ ChainInv /\ ReliedInv
    OBVIOUS
  <1>1. /\ pc = "idle" /\ job = NoJob /\ root \in Module
        /\ \A m \in Module : /\ gen[m] = NoFile /\ hdr[m] = NoFile /\ sym[m] = NoFile
                             /\ bak[m] = NoFile /\ obj[m] = NoFile /\ exe[m] = NoFile
    BY RootAssumption DEF Init, FilesInit
  <1>2. DraftInv
    BY InitDraft
  <1> QED
    BY <1>1, <1>2 DEF ChainInv, ReliedInv, BakInv, LayoutInv, LinesInv, ReadInv, ClientInv,
                      AgreedInv, At, Older

LEMMA NextRelied ==
    ASSUME Alone, OrderInv, ReliedInv, [Next]_vars PROVE (OrderInv /\ ReliedInv)'
  <1>1. Steady /\ Undisturbed /\ Orderly /\ Unedited
    BY DEF Alone, Steady, Undisturbed, Orderly, Unedited
  <1>2. (KnownInv /\ LinkInv)'
    BY <1>1, NextInv, NextFresh, NextCycle, NextLink DEF OrderInv, KnownInv
  <1>3. (SettledInv /\ DraftInv /\ ChainInv)'
    BY <1>1, NextRoot, NextSeconds, NextStage, NextDraft, NextChain
       DEF OrderInv, KnownInv, SettledInv
  <1>4. ReliedInv'
    BY NextBak, NextLayout, NextLines, NextRead, NextClients, NextAgreed DEF ReliedInv
  <1> QED
    BY <1>2, <1>3, <1>4 DEF OrderInv

(* In the executable of a finished build, every call from one module to    *)
(* another is to something that the other exports with the same meaning.   *)
THEOREM ClientsInStep == ASSUME Alone PROVE Spec => []ClientsAgree
  <1>1. Init => OrderInv /\ ReliedInv
    BY InitInv, InitFresh, InitCycle, InitLink, InitSettled, InitRelied DEF OrderInv, KnownInv
  <1>2. OrderInv /\ ReliedInv /\ [Next]_vars => (OrderInv /\ ReliedInv)'
    BY NextRelied
  <1>3. OrderInv /\ ReliedInv => ClientsAgree
    <2> SUFFICES ASSUME OrderInv, ReliedInv, pc = "done" PROVE ClientsAgree
      BY DEF ClientsAgree
    <2>1. exe[root] /= NoFile /\ root \in Module /\ discovered \subseteq Module
      BY RootAssumption DEF OrderInv, SettledInv, StageInv, KnownInv, BuildInv, TypeOK
    <2>2. AgreesInside(exe[root].code)
      BY <2>1 DEF ReliedInv, AgreedInv
    <2> QED
      BY <2>1, <2>2 DEF ClientsAgree, AgreesInside, Relied
  <1> QED
    BY <1>1, <1>2, <1>3, PTL DEF Spec

-----------------------------------------------------------------------------
(* Where owners only add declarations, a symbol file only grows: what is   *)
(* left of those of earlier builds is among what the present source says.  *)
Additive == "delete export" \notin Disturbance /\ GrowingMentions

(* The lines left of the symbol file of m, and those a text may still give *)
(* its clients.                                                            *)
Kept(m) == (IF bak[m] = NoFile THEN {} ELSE bak[m])
           \union (IF sym[m] = NoFile THEN {} ELSE Lines(sym[m]))
Exportable(text) ==
    text.exports \union (text.mentions \cap UNION {Kept(i) : i \in text.imports})

ExportableInv ==
    \A m \in Module :
        /\ Kept(m) \subseteq Exportable(obn[m].text)
        /\ bak[m] /= NoFile /\ sym[m] /= NoFile => bak[m] \subseteq Lines(sym[m])

JobExportableInv ==
    job /= NoJob =>
        /\ job.text \in Draft[job.module]
        /\ job.text.exports \subseteq obn[job.module].text.exports
        /\ Kept(job.module) \subseteq Exportable(job.text)
        /\ job.at /= "exit" => sym[job.module] = NoFile
        /\ job.at \in {"c", "h", "sym"} =>
              \A i \in job.text.imports : sym[i] /= NoFile /\ job.syms[i] = Lines(sym[i])

SparedInv == DraftInv /\ ExportableInv /\ JobExportableInv /\ changed = {}

(* A text that has all the declarations of another offers as much.         *)
LEMMA ExportableGrows ==
    ASSUME Additive, NEW m \in Module, NEW t \in Draft[m], NEW u \in Draft[m],
           t.exports \subseteq u.exports
    PROVE  Exportable(t) \subseteq Exportable(u)
  <1>1. t.mentions \subseteq u.mentions /\ (t.mentions /= {} => t.imports \subseteq u.imports)
    BY DEF Additive, GrowingMentions
  <1> SUFFICES ASSUME NEW d \in Exportable(t), d \notin t.exports
               PROVE  d \in Exportable(u)
    BY DEF Exportable
  <1>2. PICK i \in t.imports : d \in t.mentions /\ d \in Kept(i)
    BY DEF Exportable
  <1> QED
    BY <1>1, <1>2 DEF Exportable

(* Nothing of this changes with the files that neither sources nor symbol  *)
(* files are.                                                              *)
LEMMA SameExportable ==
    ASSUME SparedInv, UNCHANGED <<obn, sym, bak, changed>>,
           \/ job' = NoJob
           \/ /\ job /= NoJob /\ job'.module = job.module /\ job'.text = job.text
              /\ job'.at = "exit" \/ (job'.syms = job.syms /\ job'.at \in {"c", "h", "sym"}
                                       /\ job.at \in {"c", "h", "sym"})
           \/ UNCHANGED job
    PROVE  SparedInv'
  <1>1. \A m : Kept(m)' = Kept(m)
    BY DEF Kept
  <1>2. \A t : Exportable(t)' = Exportable(t)
    BY <1>1 DEF Exportable
  <1>3. DraftInv' /\ ExportableInv' /\ changed' = {}
    BY <1>1, <1>2 DEF SparedInv, DraftInv, ExportableInv
  <1>4. JobExportableInv'
    BY <1>1, <1>2 DEF SparedInv, JobExportableInv
  <1> QED
    BY <1>3, <1>4 DEF SparedInv

LEMMA SaveSpared ==
    ASSUME Additive, BuildInv, SparedInv, Owner PROVE SparedInv'
  <1>1. CASE UNCHANGED obn
    BY <1>1, SameExportable DEF Owner, OwnerStep, generated, buildVars
  <1>2. ASSUME NEW m \in Module, SaveSource(m) PROVE SparedInv'
    <2>1. PICK text \in Draft[m] : /\ obn' = [obn EXCEPT ![m] = [text |-> text, time |-> clock]]
                                   /\ obn[m].text.exports \subseteq text.exports
      BY <1>2 DEF SaveSource, Additive
    <2>2. obn \in [Module -> [text : Source, time : Time]]
      BY DEF BuildInv, TypeOK, FilesTypeOK
    <2>3. UNCHANGED <<sym, bak, changed, job>>
      BY DEF Owner, OwnerStep, generated, buildVars
    <2>4. (\A k : Kept(k)' = Kept(k)) /\ (\A t : Exportable(t)' = Exportable(t))
      BY <2>3 DEF Kept, Exportable
    <2>5. /\ obn'[m].text = text
          /\ \A k \in Module : k /= m => obn'[k] = obn[k]
      BY <2>1, <2>2
    <2>6. Exportable(obn[m].text) \subseteq Exportable(text)
      BY <2>1, ExportableGrows DEF SparedInv, DraftInv
    <2>7. DraftInv' /\ ExportableInv'
      BY <2>3, <2>4, <2>5, <2>6 DEF SparedInv, DraftInv, ExportableInv
    <2>8. JobExportableInv'
      BY <2>1, <2>3, <2>4, <2>5 DEF SparedInv, JobExportableInv, BuildInv, TypeOK, Job
    <2> QED
      BY <2>3, <2>7, <2>8 DEF SparedInv
  <1> QED
    BY <1>1, <1>2 DEF Owner, OwnerStep, SaveC, RemoveC, SaveEnv, Rename

(* The symbol file is moved to M.sym.bak, where an older one was part of   *)
(* it.                                                                     *)
LEMMA UpdateSpared ==
    ASSUME BuildInv, SparedInv, UpdateObjectFile PROVE SparedInv'
  <1>1. CASE UNCHANGED <<bak, sym, job>>
    BY <1>1, SameExportable DEF UpdateObjectFile, written, buildVars
  <1>2. CASE OberonCompilationNeeded(Current, Stale(Current), IsRoot)
    <2> DEFINE m == Current
    <2>1. /\ m \in Module
          /\ obn \in [Module -> [text : Source, time : Time]]
          /\ sym \in Table(SymFile) /\ bak \in Table(SUBSET Decl)
      BY CurrentInModule DEF UpdateObjectFile, BuildInv, TypeOK, FilesTypeOK, TraversalInv
    <2>2. /\ bak' = IF sym[m] = NoFile THEN bak ELSE [bak EXCEPT ![m] = Lines(sym[m])]
          /\ sym' = [sym EXCEPT ![m] = NoFile]
          /\ job' = NewJob(m, IsRoot)
          /\ UNCHANGED <<obn, changed>>
      BY <1>2 DEF UpdateObjectFile, written, buildVars
    <2> HIDE DEF m
    <2>3. sym[m] /= NoFile => Lines(sym[m]) /= NoFile
      BY <2>1, NoFileAssumption DEF Table, Optional, SymFile, Lines
    <2>4. \A k \in Module : Kept(k)' = Kept(k)
      BY <2>1, <2>2, <2>3 DEF Kept, SparedInv, ExportableInv, Table
    <2>5. \A t \in Source : Exportable(t)' = Exportable(t)
      BY <2>4 DEF Exportable, Source
    <2>6. DraftInv' /\ ExportableInv'
      BY <2>1, <2>2, <2>4, <2>5 DEF SparedInv, DraftInv, ExportableInv, Table
    <2>7. JobExportableInv'
      BY <2>1, <2>2, <2>4, <2>5 DEF SparedInv, DraftInv, ExportableInv, JobExportableInv, NewJob, Table
    <2> QED
      BY <2>2, <2>6, <2>7 DEF SparedInv
  <1> QED
    BY <1>1, <1>2 DEF UpdateObjectFile

(* What obnc-compile reads is the symbol files as they stay while it runs. *)
LEMMA OpenSpared ==
    ASSUME BuildInv, SparedInv, OpenSource, UNCHANGED buildVars PROVE SparedInv'
  <1>1. job \in Job /\ job /= NoJob /\ job.at = "open"
    BY DEF OpenSource, At, BuildInv, TypeOK
  <1>2. UNCHANGED <<obn, sym, bak, changed>>
    BY DEF OpenSource, written, buildVars
  <1>3. /\ job'.module = job.module /\ job'.text = obn[job.module].text /\ job'.at = "imports"
        /\ job.module \in Module
    BY <1>1 DEF OpenSource, Job
  <1>4. (\A k : Kept(k)' = Kept(k)) /\ (\A t : Exportable(t)' = Exportable(t))
    BY <1>2 DEF Kept, Exportable
  <1>5. DraftInv' /\ ExportableInv' /\ changed' = {}
    BY <1>2, <1>4 DEF SparedInv, DraftInv, ExportableInv
  <1>6. JobExportableInv'
    BY <1>1, <1>2, <1>3, <1>4 DEF SparedInv, DraftInv, ExportableInv, JobExportableInv
  <1> QED
    BY <1>5, <1>6 DEF SparedInv

LEMMA ImportListSpared ==
    ASSUME BuildInv, SparedInv, ImportList, UNCHANGED buildVars PROVE SparedInv'
  <1>1. job \in Job /\ job /= NoJob /\ job.at = "imports" /\ job.text.imports \subseteq Module
    BY DEF ImportList, At, BuildInv, TypeOK, Job, Source
  <1>2. UNCHANGED <<obn, sym, bak, changed>>
    BY DEF ImportList, written, buildVars
  <1>3. /\ job'.module = job.module /\ job'.text = job.text /\ job'.at = "c"
        /\ job'.syms = ImportedSymbols(job.text.imports)
    BY <1>1 DEF ImportList, Job
  <1>4. \A i \in job.text.imports : sym[i] /= NoFile /\ job'.syms[i] = Lines(sym[i])
    BY <1>1, <1>3 DEF ImportList, ImportedSymbols
  <1>5. (\A k : Kept(k)' = Kept(k)) /\ (\A t : Exportable(t)' = Exportable(t))
    BY <1>2 DEF Kept, Exportable
  <1>6. DraftInv' /\ ExportableInv' /\ changed' = {}
    BY <1>2, <1>5 DEF SparedInv, DraftInv, ExportableInv
  <1>7. JobExportableInv'
    BY <1>1, <1>2, <1>3, <1>4, <1>5 DEF SparedInv, JobExportableInv
  <1> QED
    BY <1>6, <1>7 DEF SparedInv

(* The new symbol file has every line of the old one.                      *)
LEMMA ExportSpared ==
    ASSUME Additive, BuildInv, SparedInv, ExportSymbolTable, UNCHANGED buildVars
    PROVE  SparedInv'
  <1> SUFFICES ASSUME NEW m, m = job.module,
                      NEW new, new = [exports |-> job.text.exports,
                                      mentions |-> Mentioned(job), time |-> clock]
               PROVE  SparedInv'
    OBVIOUS
  <1>1. /\ job \in Job /\ job /= NoJob /\ job.at = "sym" /\ m \in Module
        /\ job.text \in Source /\ job.text.imports \subseteq Module
        /\ sym \in Table(SymFile) /\ bak \in Table(SUBSET Decl)
        /\ obn \in [Module -> [text : Source, time : Time]]
    BY DEF ExportSymbolTable, At, BuildInv, TypeOK, FilesTypeOK, Job, Source
  <1>2. /\ UNCHANGED <<obn, bak, changed>>
        /\ sym' = [sym EXCEPT ![m] = IF job.entry THEN NoFile ELSE new]
        /\ job' = [job EXCEPT !.at = "exit"]
    BY DEF ExportSymbolTable, written, buildVars, GoTo
  <1>3. job'.module = m /\ job'.text = job.text /\ job'.at = "exit"
    BY <1>1, <1>2 DEF Job
  <1>4. /\ job.text \in Draft[m] /\ obn[m].text \in Draft[m]
        /\ job.text.exports \subseteq obn[m].text.exports
        /\ Kept(m) \subseteq Exportable(job.text) /\ sym[m] = NoFile
        /\ \A i \in job.text.imports : sym[i] /= NoFile /\ job.syms[i] = Lines(sym[i])
    BY <1>1 DEF SparedInv, DraftInv, JobExportableInv
  <1>5. \A i \in job.text.imports : Kept(i) = job.syms[i] /\ i /= m
    BY <1>1, <1>4 DEF Kept, SparedInv, ExportableInv
  <1>6. UNION {job.syms[i] : i \in job.text.imports} = UNION {Kept(i) : i \in job.text.imports}
    BY <1>5
  <1>7. Lines(new) = Exportable(job.text)
    BY <1>6 DEF Lines, Mentioned, Exportable
  <1>8. new \in SymFile
    BY <1>1 DEF SymFile, Source, Mentioned, BuildInv, TypeOK, FilesTypeOK
  <1>9. new /= NoFile
    BY <1>8, NoFileAssumption
  <1>10. /\ \A k \in Module : k /= m => Kept(k)' = Kept(k)
         /\ Kept(m) \subseteq Kept(m)' /\ Kept(m)' \subseteq Exportable(job.text)
    BY <1>1, <1>2, <1>4, <1>7, <1>9 DEF Kept, Table
  <1>11. \A t \in Source : Exportable(t) \subseteq Exportable(t)'
    <2>1. \A k \in Module : Kept(k) \subseteq Kept(k)'
      BY <1>10
    <2> QED
      BY <2>1 DEF Exportable, Source
  <1>12. Exportable(job.text) \subseteq Exportable(obn[m].text)
    BY <1>1, <1>4, ExportableGrows
  <1>13. ExportableInv'
    <2> SUFFICES ASSUME NEW k \in Module
                 PROVE  /\ Kept(k)' \subseteq Exportable(obn[k].text)'
                        /\ bak'[k] /= NoFile /\ sym'[k] /= NoFile => bak'[k] \subseteq Lines(sym'[k])
      BY DEF ExportableInv, Lines
    <2>1. Kept(k)' \subseteq Exportable(obn[k].text)
      BY <1>10, <1>12 DEF SparedInv, ExportableInv
    <2>2. Exportable(obn[k].text) \subseteq Exportable(obn[k].text)'
      <3>1. obn[k].text \in Source /\ obn'[k] = obn[k]
        BY <1>1, <1>2
      <3> QED
        BY <3>1, <1>11 DEF Exportable, Kept
    <2>3. CASE k /= m
      BY <1>1, <1>2, <2>1, <2>2, <2>3 DEF SparedInv, ExportableInv, Table
    <2>4. CASE k = m
      <3>1. bak[m] /= NoFile => bak[m] \subseteq Lines(new)
        BY <1>4, <1>7 DEF Kept
      <3> QED
        BY <1>1, <1>2, <2>1, <2>2, <2>4, <3>1 DEF Table
    <2> QED
      BY <2>3, <2>4
  <1>14. JobExportableInv'
    <2>1. PICK text : text = job.text
      OBVIOUS
    <2>2. Exportable(text) \subseteq Exportable(text)'
      BY <1>1, <1>11, <2>1
    <2>3. Kept(m)' \subseteq Exportable(text)'
      BY <1>10, <2>1, <2>2
    <2>4. Exportable(job.text)' = Exportable(text)'
      BY <1>3, <2>1 DEF Exportable, Kept
    <2> QED
      BY <1>2, <1>3, <1>4, <2>3, <2>4 DEF JobExportableInv, Kept
  <1>15. DraftInv' /\ changed' = {}
    BY <1>2 DEF SparedInv, DraftInv
  <1> QED
    BY <1>13, <1>14, <1>15 DEF SparedInv

LEMMA CompareSpared ==
    ASSUME BuildInv, SparedInv, CompareSymFiles PROVE SparedInv'
  <1> DEFINE m == Current
  <1>1. /\ m \in Module /\ job = NoJob
        /\ sym \in Table(SymFile) /\ bak \in Table(SUBSET Decl)
    BY CurrentInModule DEF CompareSymFiles, BuildInv, TypeOK, FilesTypeOK, TraversalInv, JobInv
  <1>2. UNCHANGED <<obn, sym, job>>
    BY DEF CompareSymFiles, written
  <1>3. CASE sym[m] /= NoFile /\ bak[m] /= NoFile
    <2>1. bak[m] \subseteq Lines(sym[m])
      BY <1>1, <1>3 DEF SparedInv, ExportableInv
    <2>2. changed' = {} /\ bak' = [bak EXCEPT ![m] = NoFile]
      BY <1>3, <2>1 DEF CompareSymFiles, SymFileIsSubset, SparedInv
    <2> HIDE DEF m
    <2>3. \A k \in Module : Kept(k)' = Kept(k)
      BY <1>1, <1>2, <1>3, <2>1, <2>2 DEF Kept, Table
    <2>4. \A t \in Source : Exportable(t)' = Exportable(t)
      BY <2>3 DEF Exportable, Source
    <2>5. obn \in [Module -> [text : Source, time : Time]]
      BY DEF BuildInv, TypeOK, FilesTypeOK
    <2>6. ExportableInv'
      BY <1>1, <1>2, <2>2, <2>3, <2>4, <2>5 DEF SparedInv, ExportableInv, Table
    <2> QED
      BY <1>1, <1>2, <2>2, <2>6 DEF SparedInv, DraftInv, JobExportableInv
  <1>4. CASE ~(sym[m] /= NoFile /\ bak[m] /= NoFile)
    BY <1>2, <1>4, SameExportable DEF CompareSymFiles
  <1> QED
    BY <1>3, <1>4

LEMMA AbandonSpared ==
    ASSUME SparedInv, Abandon PROVE SparedInv'
  <1>1. UNCHANGED <<obn, sym, bak, changed>> /\ job' = NoJob
    BY DEF Abandon, fileVars, written, generated, SparedInv
  <1> QED
    BY <1>1, SameExportable

LEMMA NextSpared ==
    ASSUME Additive, BuildInv, SparedInv, [Next]_vars PROVE SparedInv'
  <1>1. CASE Owner
    BY <1>1, SaveSpared
  <1>2. CASE UpdateObjectFile
    BY <1>2, UpdateSpared
  <1>3. CASE RunObncCompile
    <2>1. CASE OpenSource
      BY <1>3, <2>1, OpenSpared DEF RunObncCompile
    <2>2. CASE ImportList
      BY <1>3, <2>2, ImportListSpared DEF RunObncCompile
    <2>3. CASE CloseCFile \/ CloseHeader
      <3>1. job \in Job
        BY <2>3 DEF CloseCFile, CloseHeader, At, BuildInv, TypeOK
      <3>2. UNCHANGED <<obn, sym, bak, changed>>
        BY <1>3, <2>3 DEF RunObncCompile, CloseCFile, CloseHeader, written, buildVars
      <3>3. /\ job /= NoJob /\ job'.module = job.module /\ job'.text = job.text
            /\ job'.syms = job.syms /\ job'.at \in {"c", "h", "sym"} /\ job.at \in {"c", "h", "sym"}
        BY <2>3, <3>1 DEF CloseCFile, CloseHeader, At, GoTo, Job
      <3> QED
        BY <3>2, <3>3, SameExportable
    <2>4. CASE ExportSymbolTable
      BY <1>3, <2>4, ExportSpared DEF RunObncCompile
    <2> QED
      BY <1>3, <2>1, <2>2, <2>3, <2>4 DEF RunObncCompile, CompileStep
  <1>4. CASE CompareSymFiles
    BY <1>4, CompareSpared
  <1>5. CASE BuildError \/ Interrupt
    BY <1>5, AbandonSpared DEF BuildError, Interrupt
  <1>6. CASE ObncCompileDone
    BY <1>6, SameExportable DEF ObncCompileDone, fileVars, written, generated, buildVars
  <1>7. ASSUME NEW r \in Root, NEW u \in Mode, Start(r, u) PROVE SparedInv'
    <2>1. UNCHANGED <<obn, sym, bak, changed, job>>
      BY <1>7 DEF Start, fileVars, written, generated, SparedInv
    <2> QED
      BY <2>1, SameExportable
  <1>8. CASE \/ Clock \/ Visit \/ Descend \/ ImportsDone \/ CompileC \/ WriteDirFile
             \/ CreateExecutable \/ ExecutableUpToDate \/ UNCHANGED vars
    <2>1. UNCHANGED <<obn, sym, bak, changed, job>>
      BY <1>8 DEF Clock, Tick, Visit, Descend, ImportsDone, CompileC, WriteDirFile,
                  CreateExecutable, ExecutableUpToDate, vars, buildVars, fileVars, written, generated
    <2> QED
      BY <2>1, SameExportable
  <1> QED
    BY <1>1, <1>2, <1>3, <1>4, <1>5, <1>6, <1>7, <1>8 DEF Next, BuildStep

LEMMA InitSpared == Init => SparedInv
  <1> SUFFICES ASSUME Init PROVE SparedInv
    OBVIOUS
  <1>1. /\ job = NoJob /\ changed = {}
        /\ \A m \in Module : sym[m] = NoFile /\ bak[m] = NoFile
    BY DEF Init, FilesInit
  <1>2. DraftInv
    BY InitDraft
  <1> QED
    BY <1>1, <1>2 DEF SparedInv, ExportableInv, JobExportableInv, Kept

(* Where owners only add declarations, obnc recompiles no client for a     *)
(* change of an import, whatever builds were stopped, whatever was edited  *)
(* while they ran.                                                         *)
THEOREM ClientsNotRecompiled == ASSUME GrowingMentions PROVE Spec => []ClientsSpared
  <1>1. CASE Additive
    <2>1. Init => BuildInv /\ SparedInv
      BY InitInv, InitSpared
    <2>2. BuildInv /\ SparedInv /\ [Next]_vars => (BuildInv /\ SparedInv)'
      BY <1>1, NextInv, NextSpared
    <2>3. BuildInv /\ SparedInv => ClientsSpared
      BY DEF ClientsSpared, SparedInv
    <2> QED
      BY <2>1, <2>2, <2>3, PTL DEF Spec
  <1>2. CASE "delete export" \in Disturbance
    <2>1. ClientsSpared
      BY <1>2 DEF ClientsSpared
    <2> QED
      BY <2>1, PTL
  <1> QED
    BY <1>1, <1>2 DEF Additive
================================================================================
