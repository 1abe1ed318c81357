# Verification of obnc

obnc is a compiler for the programming language Oberon-07 that generates C. One
command builds a program:

    obnc R.obn

visits the module `R` and everything it imports, runs `obnc-compile` on each
source that changed (it writes C), runs the C compiler on each C file that
changed, and links. This directory holds TLA+ modules that model the parts of
obnc where order, interruption and stale files decide whether it is correct, the
TLC configurations that check them, and theorems that TLAPS proves. It also
models the compiler - declarations, dynamic types, CASE statements, expressions,
arrays, symbol files, modules in several directories - by what the generated
program does, and the libraries `Files` and `Strings`.

All paths below are relative to the root of the source tree that is mapped as
`src/` in `PROJECT.json` (so `src/obnc.c` here is `src/src/obnc.c` there).

## 1. Inventory

| part | state it keeps | operations | what is hard |
|---|---|---|---|
| `obnc` (`src/obnc.c`) | in memory: the chain of imports being visited, the modules discovered, which of them changed incompatibly; on disk: everything in `.obnc/` | `Build`, `Traverse1`, `UpdateObjectFile`, `CompileOberon`, `CompileC`, `SymFileIsSubset`, `CreateExecutable`, error exit | decisions from file times; builds that stop halfway; import cycles; the same module as entry point and as import |
| `obnc-compile` (`src/obnc-compile.c`, `src/Oberon.y`, `src/Generate.c`) | one process: symbol table and text collected so far; `.obnc/M.imp`, `.c`, `.h`, `.sym` | parse, import, generate, close, export; `-l` lists imports; `-e` compiles an entry point | its four files appear one after another; it may stop between two |
| symbol table (`src/Table.c`, `Maps.c`) | scopes, symbol file reader and writer | `Table_Put`, `Table_At`, open/close scope, `Table_Import`, `Table_Export` | indirectly exported types are followed to ten levels; aliases of modules; unexported fields |
| parser and static semantics (`src/Oberon.y`) | current scope, list of unresolved pointer types, case label lists, the type of a case variable, procedure stack | one action per grammar rule | forward pointer types, resolved by unlinking from a list; CASE statements that nest |
| types and ranges (`src/Types.c`, `Range.c`) | none | `Types_Extends`, `Types_Same`, `Types_AssignmentCompatible`, range checks | types compared by name, open arrays, overflow found without computing it |
| syntax trees (`src/Trees.c`) | nodes | constructors, accessors | nothing |
| scanner (`src/Oberon.l`) | comment depth | tokens | numeric limits of literals |
| code generator (`src/Generate.c`) | output files, the case variable, nested procedure state | one function per construct | which type descriptor and which length belong to a parameter; when an index is tested; names of modules in C |
| module paths (`src/ModulePaths.c`, `Paths.c`, `obnc-path.c`) | prefix directories from the environment | find the directory of a module | two programs search from two directories; modules with the same name; private modules |
| files, errors, utilities (`src/Files.c`, `Error.c`, `Util.c`, ...) | none | exists, timestamp, move, remove; error handler | times in whole seconds |
| runtime (`lib/obnc/OBNC.c`, `OBNC.h`) | type descriptors, argc, argv, exit handlers | type tests, guards, copies, `DIV`/`MOD`, conversions, traps, allocation | overflow, negative operands, lengths of rows |
| library `Files` (`lib/obnc/Files.c`) | a stream, a name and a registered flag per file; a position and `eof`, `res` per rider | `New`, `Old`, `Register`, `Close`, `Purge`, `Delete`, `Rename`, riders | a file is shared by handles; a name is not a file |
| library `Strings` (`lib/obnc/Strings.obn`) | none | `Insert`, `Append`, `Delete`, `Replace`, `Extract`, `Pos`, `Cap` | characters moved within one array, ends cut off |
| other libraries (`lib/obnc/In.c`, `Out.c`, `ext/`, ...) | little | thin layers over the C library | nothing the models address |
| `obncdoc` and scripts (`src/obncdoc.c`, `bin/`) | none | text conversion, tests, building obnc itself | nothing the models address |

Interactions. `obnc` calls `obnc-compile`, the C compiler and the linker as
child processes and waits for each. They communicate through files only:

* `M.imp` - the import list found by the last compilation of `M`. obnc reads it
  instead of parsing the source when it is as new as the source.
* `M.c`, `M.h` - generated C. The object code of a client depends on the headers
  of its imports.
* `M.sym` - the exported declarations, read by `obnc-compile` when it compiles a
  client. obnc moves it to `M.sym.bak` before it runs `obnc-compile`, and
  compares the two after it: if a line of the old one is missing from the new
  one, clients of `M` are compiled again.
* `M.o`, `M.dir` - object code, and the directory name used as prefix of its
  external names.

What makes it correct: the executable of a finished build is made of the present
sources of exactly the modules the root reaches; modules of one executable agree
on each other's interfaces; imports are compiled before clients; a cycle is
always reported; no build is spoilt for good by an earlier one that was stopped;
nothing is compiled that need not be. Of a program that is accepted: every access
stays within the record or the array, or traps; every expression has the value of
the report, or is warned of; a module means the same to obnc, to obnc-compile, to
the C compiler and to the linker.

## 2. Modules

| module | models | role |
|---|---|---|
| `BuildFiles` | the files of one directory and their times; the owner who edits them | state shared by the two programs |
| `ObncCompile` | one run of `obnc-compile`, one action per file it makes visible | EXTENDS `BuildFiles` |
| `ObncBuild` | `obnc`: traversal, decisions, tools, linking, failure; the properties | EXTENDS `ObncCompile` |
| `BuildPromise` | the abstract specification: what a build promises | refined by `ObncBuild` |
| `MCObncBuild` | small instances: a root `R`, a client `A`, a server `M` | EXTENDS `ObncBuild` |
| `ObncBuildProofs` | `BuildInv` is an invariant, for every instance; `FreshFiles` is one where edits and builds do not share a second; builds that nobody stops find every import and every cycle | EXTENDS `ObncBuild`, `TLAPS` |
| `ObncPromiseProofs` | `ObncBuild` implements `BuildPromise`, in builds that nobody stops, without `-x`; such builds fail for cycles only; a build leaves nothing to do; clients agree with their imports, and are not recompiled for declarations that are only added | EXTENDS `ObncBuildProofs` |
| `SymbolTable` | the scopes of `src/Table.c` | state of `Declarations` |
| `Declarations` | the grammar rules for declarations in `src/Oberon.y` | EXTENDS `SymbolTable` |
| `DeclarationsProofs` | pointer types are bound and identifiers keep their meaning, for every instance | EXTENDS `Declarations`, `TLAPS` |
| `MCDeclarations` | small instances: two or three names, one procedure | EXTENDS `Declarations` |
| `FilesLib` | the library `Files` over streams, inodes and a directory | refines `FilePromise` |
| `FilePromise` | the abstract specification: what `Files.obn` promises | refined by `FilesLib` |
| `FilesProofs` | in ordinary use `FilesInv` is an invariant and `FilesLib` implements `FilePromise`, for every instance | EXTENDS `FilesLib`, `TLAPS` |
| `MCFilesLib` | small instances: two handles, names and riders | EXTENDS `FilesLib` |
| `RecordTypes` | record types, their chains of base types, descriptors | used by the next two |
| `TypeTests` | descriptors at run time: `NEW`, calls, tests, guards, record assignments | EXTENDS `RecordTypes` |
| `Chars` | characters as C has them | used by the next two |
| `CaseStatements` | CASE statements in the parser and in the generator | EXTENDS `RecordTypes`, `Chars` |
| `Arithmetic` | expressions folded by the compiler and evaluated by C | EXTENDS `Chars` |
| `Arrays` | array parameters, indices, copies, comparisons | |
| `GeneratedCodeProofs` | values of expressions of any length, warnings of constant sums, differences and negations, and the ranges of what is held and computed, for every width; lengths passed on are those of the array, and the elements touched those that are meant | EXTENDS `Arithmetic`, `Arrays`, `TLAPS` |
| `SymbolFiles` | `Table_Export` and `Table_Import` | |
| `TypesProofs` | without late guards, descriptors are right and tests exact; a value selects one branch; case variables have the type of their label where type cases are not nested; symbol files are complete and true, and given up on late, for every instance | EXTENDS `TypeTests`, `CaseStatements`, `SymbolFiles`, `TLAPS` |
| `ModulePaths` | modules in several directories: obnc, obnc-compile, headers, linker | |
| `ModulePathsProofs` | a program is what its entry point imports, its names are those that the imports mean, and the tools find the same modules, for every instance with the conditions at the end of `ModulePaths` | EXTENDS `ModulePaths`, `TLAPS` |
| `Strings` | the procedures of `Strings.obn` | |
| `Numbers` | the bytes of `Files.WriteNum` and `Files.ReadNum` | |
| `LibraryProofs` | procedures of `Strings` do as described, and numbers are read as they were written, for arrays, strings and integers of every size | EXTENDS `Strings`, `Numbers`, `TLAPS` |
| `MCTranslation` | small instances of `TypeTests`, `CaseStatements`, `SymbolFiles`, `Arithmetic`, `Arrays`, `ModulePaths`, `Strings` and `Numbers` | EXTENDS these eight |

### BuildFiles

One variable per kind of file, a function from modules to `NoFile` or a record of
the file's contents and its time. Contents are abstracted to what another step
can tell apart: the import list, the set of lines of the symbol file (one per
exported declaration, so *changing* a declaration is deleting one line and adding
another), the lines of imported symbol files that the exported declarations are
made with (`mentions`; `Table_Export` repeats them, so that a client needs no
other symbol file), the layout that only the C header knows (`shape`: unexported
fields of exported records) and everything else (`body`). Times are whole
seconds because `Files_Timestamp` returns `st_mtime`.

`OwnerStep` is the owner: save a source with another of its drafts, write or
delete a handwritten `M.c`, save `M.env`, rename the directory. The constant
`Disturbance` says which of the awkward things may happen: deleting a
declaration, editing within the second of the last build, editing while a build
runs, seconds passing during a build, stopped builds, deleting a handwritten C
file, renaming the directory.

### ObncCompile

`job` is the process. `OpenSource` (`Oberon_Parse`: opens the source, creates an
empty import file or, with `-e`, deletes it), `ImportList` (reads the symbol file
of every import, then writes the import file), `CloseCFile` and `CloseHeader`
(`Generate_Close` moves `M.c` and then `M.h` in place), `ExportSymbolTable`
(writes `M.sym`, or with `-e` deletes it). `SymbolFileNotFound` is its error exit.
Text that is collected under a temporary name is invisible to other steps, so the
step that moves it into place is the one that writes.

### ObncBuild

The control of `obnc.c` with a program counter:

    idle -Start-> visit -Visit-> imports -Descend-> visit (of an import)
                                         -ImportsDone-> update
    update -UpdateObjectFile-> obnc-compile | cc | dir
    obnc-compile -RunObncCompile*-> ... -ObncCompileDone-> cc | dir
    cc -CompileC-> dir -WriteDirFile-> compare -CompareSymFiles-> imports (of the
        importing module) | link
    link -CreateExecutable | ExecutableUpToDate-> done

`path` is `nodePath`, `discovered` is `discoveredModules`, `changed` holds the
modules of `discovered` whose interface was found to have lost a line. `Descend`
takes the imports in any order; the code takes them in the order of the import
list, so the model allows every order an import list may have. `BuildError` is
every exit through `ExitFailure` that the code decides for itself (import cycle,
missing symbol file, failed link); `Interrupt` is every other one (error in a
source, full disk, a kill). Both are `Abandon`: memory is lost, files stay.

`ObjectCode` says what an object file is made of - text, handwritten C, flags,
the symbol files `obnc-compile` had read and the headers the C compiler saw - so
that the properties can compare what two modules of one executable believe of
each other. `Linkable` is the linker: one `main`, every init function, every
prefixed name.

### BuildPromise

An edit changes inputs; a build replaces the executable of its root by one made
of the present inputs of everything the root reaches, or changes nothing.
`PromiseKept` says that `ObncBuild` implements it, with `input` the sources,
handwritten C and flags, `program` the parts of the executables that come from
them, and `built` the root when `pc = "done"`.

### SymbolTable and Declarations

obnc-compile is a one-pass compiler: each grammar rule acts on the symbol table
and on a few global variables at the moment the parser reduces it. `Declarations`
has one action per rule of a declaration; any sequence of actions that the
grammar allows is a source text. `section` is the place in the block, `declaring`
the identifier being declared, `open` the type constructors begun (the parser
stack), `value` the type just reduced. `current`, `records` and `unresolved` are
the global variables `currentTypeIdentdef`, `recordDeclarationStack` (its length)
and `unresolvedPointerTypes`; they survive the rule that sets them.

A reference to a tree node is a tuple with a tag. Only record and pointer types
have identity, so they are in the heap `node` with their base types; the base
type of a pointer is an identifier (whose own type may still be incomplete), an
anonymous record, or `Forward(x)`: the empty record that `PointerType` makes for
an identifier it does not know. The list of unresolved pointer types is a set of
nodes, newest first, because nodes are added at its head only. `NotDeleted` says
which nodes stay on the list although they match; the loop in
`ResolvePointerTypes` sets `prev` to the node it has just deleted.

`"assertion failed"` is the outcome where an `assert` of the compiler fails:
`POINTER TO c` where `c` is no type, and `VAR r: RECORD (P) ... END` where `P` is
a pointer type (`Types_Same` is called with `currentTypeIdentdef`, which is
`NULL` there).

### FilesLib

`disk` and `entry` are the file system: the bytes of inodes and the directory.
`file[h]` is the record that a handle points to: stream, remembered name,
`registered`. A stream is an inode and what is in its buffer; the buffer is
written back by the next seek (every access seeks first), by `Close`, or when
`Purge` closes the stream. A call that makes a file is enabled while an inode is
free; what it does on a full disk is not modelled. `Register` copies the file to a stream opened under
its name and leaves the copy in the buffer of that stream. `Forget` is a program
that drops its last reference; the stream stays open, which nobody sees. `Kill` is a
program that is killed between two calls and started anew: handles and riders are gone, and
so is what was in the buffers. (A program that ends by itself or traps is no such case:
`exit` closes all streams, `lib/obnc/OBNC.c:27`.)

`FilePromise` has no streams, no inodes and no remembered names: a file is a
sequence of bytes that belongs to a handle, the directory maps a name to the
handle or, when nobody uses the file, to its bytes. `unsaved` holds the handles whose files
may not have been written back: only writing to a file or registering it adds its handle, and
`Close` removes it. When the program is killed, a name of an unsaved file may
come to stand for other bytes, and nothing else is lost. `FilesPromised` says that
`FilesLib` implements it. In the refinement mapping, `Text` overlays the buffer on the
inode, `Dir` maps a name to the handle whose stream has its inode or, where there is
none, to the bytes of the inode, and `Unsaved` are the handles with something in their buffers.

`Usage` names what a program may do besides ordinary use. `Files` runs with none
of it, because the promise does not survive it (see section 6).

### RecordTypes and TypeTests

A pointer type is represented by the record type it points to, a record type by
the chain of its base types, which is given: how declarations are accepted is the
subject of `Declarations`. `Descriptor`, `Is` and `RecordAssignable` are the type
descriptors of `Generate.c` and the macros `OBNC_IS` and `OBNC_RAT`.

`TypeTests` runs a generated program: records on the heap with their descriptor,
pointer variables, declared record variables, and the calls in progress, each with
a record parameter and the descriptor that was passed with it. A designator is a
variable with up to two type guards. What the compiler accepts (`Accepted`), what
it generates (`Passes`, `TypeDesc`, `Checked`) and what the record really is
(`DynamicType`) are separate definitions, and the properties compare them.
`LateGuards` says whether the program has guards of records that are not the
first selector of a parameter; they are the finding `LateGuard`.

### CaseStatements

The statements of a procedure body are parsed and generated in one pass. `cases` is
the parser's stack of CASE statements, `symbolType` the type that the parser
gives to a case variable in a branch; `caseVariable` and `caseLabelType` are the
generator's two global variables. The parser's variables nest and the generator's
do not. A text is any sequence of the actions that the grammar allows.
`CaseVariablesTyped` says that parser and generator agree about every possible
use of a case variable; `OneBranch` is about the `switch` of integer and character
labels, with characters as the signed numbers they are in C.

### SymbolFiles

`Table_Export` writes the exported declarations of a module, then the types that
these mention, level by level; `Table_Import` reads them under the name, or
alias, that the client gives to the module. A declaration is the set of named types that
it is made with. An entry of a symbol file is known by the module and the name it
was declared with, and `source` remembers the texts that were compiled, so that
`EntriesTrue` can compare what travelled through several symbol files with what was
written in the module it came from. The symbol table calls a type by the qualifier and its
name, which is not always one of a kind: `IMPORT M := A` is accepted beside a re-exported
type of the module `M`. `NamesClash` says when two types get one name that way.

### Chars and Arithmetic

An expression is built operation by operation from constants and variables, in any
mixture. It carries the value it has in the translated program - computed by the
parser (`Oberon.y`, `Range.c`) as long as all operands are constants, and by C
with its promotions, widths and undefined cases afterwards - together with the
value it has by the report. `IntBits` and `CIntBits` are the widths of
`OBNC_INTEGER` and of `int`, `CharBits` the width of a character. `deviations`
collects the two known deviations so that `ValuesExact` speaks about all other
expressions (section 6 names them), and `WarnedExactly` about constants of which the
compiler knows the value: a folded comparison that deviates can be made a number by
`ORD`, and the sum of that number is another one. `ExpressionCompatible` is the table of
`Types_ExpressionCompatible` for the types of this model: which operators the parser
accepts for which operands.

### Arrays

A type is the sequence of its dimensions. All dimensions lie in one C array; an
open array parameter is a pointer to an element with one length for each
dimension. Each statement records in `access` the elements that the generated code
touches and in `meant` those that the language means, or that it traps;
`AccessExact` compares them. `ArrayUsage` names two kinds of programs for which
they differ and which are left out of the run.

### ModulePaths

obnc searches for a module from the directory in which it was started,
`obnc-compile` from the directory of the importing module; the C compiler reads the
header that `obnc-compile` named, unless one with the same module name has been
read already; the linker knows names with the prefix of a directory. The model has
each of these four notions of "the module `m`", and `Meant`, what the manual
says. Whether a file must be made again is a Boolean here (`modified`,
`incompatible`); `ObncBuild` has it in detail.

The four notions agree in directories and search paths with some conditions, which are
operators at the end of the module: entries of `OBNC_IMPORT_PATH` are the same in every
directory (`AbsoluteEntries`), no directory is reached in two ways (`OnePath`),
directories differ in their prefix (`NamesApart`), installed modules have a directory
without sources (`LibraryApart`), and a name that modules of several directories have
comes first in an import list (`SharedNamesFirst`). The instance of the run satisfies all
of them (`DirectoriesAssumption` in `MCTranslation`, which TLC evaluates) although a
`Util` exists in three directories; the theorems name those that they need. The recursion of
`Headers` is a recursive function, so that the prover can be used.

### Strings and Numbers

`Strings` takes the loops of `Strings.obn` character by character, in the order of
the code, and compares each call with what it should do to whole strings
(`StringsExact`). `Numbers` writes compressed integers to a file that may become
full within a number and reads them back.

### MCTranslation

The eight models share one run. The variable `part` says which of them is taken in
a behaviour; the others stay in their initial states, so the behaviours with
`part = "cases"` are those of `CaseSpec`, and so on. They have no variables in
common.

## 3. Runs

| run | instance | properties | shows |
|---|---|---|---|
| `Graph` | three modules with changing import lists, root `R`, builds stopped anywhere, with and without `-x` | `FreshFiles`, `Settled`, `HeadersFound`, `PromiseKept` | comparing times never takes an old text for the new one; a second build has nothing to do; a header is there whenever C is compiled; the executable is what `BuildPromise` asks |
| `Cycles` | the same, roots `R` and `A` that may import each other | `NoImportCycle`, `ImportsFirst`, `LinksClean`, `FailsForCycles`, `Terminates` | cycles are found whatever `.imp` files say; imports first, even when the list used to order them is old; an entry point becomes an import and back without a failed link; nothing but a cycle makes a build fail; every build ends |
| `Exports` | `M`'s declarations grow, shrink and change, `A` exports declarations made with them, `R` imports only `A`; handwritten `M.c`, `A.env`; seconds pass in a build | `ClientsAgree`, `MadeOfPresentInputs` | recompilation reaches every client that needs it, also the indirect one, and the executable has the present inputs |
| `Retry` | a chain of three, builds stopped anywhere | `RetrySucceeds` | repeating the build is enough, whatever was stopped before, when each module has one role |
| `Disturbed` | `M` as root and as import; stops, a deleted C file, a renamed directory, added declarations | `BuildInv`, `ClientsSpared` | the inductive invariant that is proved; no client is recompiled for an added declaration |
| `Declarations` | three names, one of them predeclared; a procedure in a module; three record and pointer types | `DeclarationsInv`, `DeclaredOnce` | behind a type section every pointer type is bound to a record type of its scope; no identifier changes its meaning while its scope is open |
| `Files` | two handles, two names, two riders, texts of up to two bytes | `FilesInv`, `FilesPromised` | names and handles never share a file; every sequence of calls gives the results that `FilePromise` allows; what was closed survives a program that is killed |
| `Translation` | the eight models of `MCTranslation`, one after another | see below | generated programs and libraries do what the language and their definitions mean |
| `SharedServer` | two roots share a changed server | `ClientsAgree` | violated, see findings |
| `LateGuard` | `TypeTests` with late guards | `AccessWithinRecord` | violated, see findings |
| `NestedCase` | `CaseStatements` with two nested type cases | `UsesTyped` | violated, see findings |
| `ProductWarning` | `Arithmetic` | `ProductsWarned` | violated, see findings |

`Translation` checks, model by model:

| model | properties | show |
|---|---|---|
| `TypeTests` | `TypeTestsInv`, `TestsExact`, `AccessWithinRecord`, `AssignedExtends` | the descriptor that arrives is that of the record; tests and guards decide by the dynamic type; fields and assignments stay within the record |
| `CaseStatements` | `CaseVariablesTyped`, `OneBranch` | the generated code has the type that the parser took a case variable to have; labels select one branch |
| `SymbolFiles` | `ImportsComplete`, `EntriesTrue`, `GivesUpLate` | a client needs no other symbol file, unless an alias gives two types one name; types stay what they are on their way through several; the limit on levels is met by long chains only |
| `Arithmetic` | `ArithmeticInv`, `ValuesExact`, `WarnedExactly` | the value does not depend on which operands are constants, and is that of the report; overflow of constant sums and differences is reported exactly; variables and constants hold values of their types |
| `Arrays` | `ArraysTypeOK`, `LengthsTrue`, `AccessExact` | lengths and elements are those of the array meant, and accesses outside trap |
| `ModulePaths` | `PathsTypeOK`, `ToolsAgree`, `ReachLinked`, `BoundAsMeant` | obnc, `obnc-compile`, the C compiler and the linker find the same module |
| `Strings` | `StringsExact` | each procedure gives the string it should, ended by `0X` and cut off where the array ends |
| `Numbers` | `NumbersReadBack` | what was written is read, also with a number cut off at the end |

Deadlock is checked in every run but `Declarations`, `Translation` and the last three,
where the compiler or the program stops: in the others there is always the owner, the
clock, the next build or the next call.

Bounds of `ObncBuild`. Three modules are enough for a module with a client that is
itself imported (the only chain the code treats specially is root / not root and
import / indirect import through a re-export), for cycles of length one (not through
a draft: obnc-compile rejects a self import before it is a cycle here), two and
three, and for two roots with a common import. `MaxClock` is the number of
distinct moments at which a source can be newer than its files: with 1 there is
one edit epoch after the first builds, with 2 there are two, and within one
epoch any number of edits and builds. `FreshFiles` is proved for all values; the
others do not depend on more than two generations of a file, because each file
has one previous version at most (`M.sym.bak`).

In `Declarations`, `MaxNode` and `MaxOpen` bound the types of a source and
`MaxLevel` the nesting of procedures (scopes between the innermost one and the
module are never looked at, so one procedure shows what several would).
`FewDeclared` leaves out sources with many declarations that are not types and
keeps the types of a procedure small. A pointer with its base type, declared in
either order, in one scope or in two, needs two names and two nodes; the third
name is predeclared or hides one. Declared names are interchangeable (`Symmetry`).

In `Files`, items are a byte `1` that stands for the bytes above 127, and `1 0`,
which is a word, a number, and a string with its end; `MaxLen` is 2, so that an
item can be cut off at the end of the file. `FewTexts` allows one file
at a time with a text other than the empty one and `1 0`, and none while two
handles are in use. Four inodes are enough for two names and two
handles. Handles, names, riders and inodes are interchangeable.

Bounds of `Translation`:

* `TypeTests`: record types `R`, its extensions `S` and `U`, and `T` that extends `S`,
  so that there are an own type, base types two levels up and a sibling; a pointer to
  `R` that is a variable parameter, a pointer to `T`, a record variable of type `U`,
  one record on the heap. `MaxDepth = 2`: a parameter that is passed on.
* `CaseStatements`: two variables; a CASE within a CASE of which one has type labels
  (two of them are the run `NestedCase`); two label ranges over four characters, half
  of them negative in C; `RangeLenMax = 2`.
* `SymbolFiles`: `M`, `A` that imports it under an alias, `C` that imports
  `A` under the name of `M`, or `A` and `M`, with or without an alias; two symbols in `M` and in `A`; two mentions in
  `M`. `MaxLevels = 4`, a limit that chains through three modules can meet.
* `Arithmetic`: integers and `int` of 4 bits, characters of 2, all values; two operations,
  so that the result of one, folded or evaluated, is the operand of the next. The
  theorems are about all widths and any number of operations.
* `Arrays`: a table of 3 x 1 rows of type `Row`, and a line shorter than a `Row`, so that a
  wrong length shows as a wrong element; indices -1, 0 and 1; one parameter list with two
  arrays, a matrix with two open dimensions, a table with two open and one fixed, and a
  procedure variable; `MaxCalls = 2`. Constant indices are taken for elements only.
* `ModulePaths`: the modules `main`, `Util` (in up to three directories), `fooApi` (in a
  subdirectory of the search path) and the installed `Input`, which imports `Input0`. A draft of `Util` in the
  directory of `fooApi` may import `fooApi`, which is a cycle. No draft imports `fooApi`
  before the `Util` of its own directory (that order is in section 6).
* `Strings`: arrays of 3 and 4 characters over two letters and `0X`, every content, every
  position. `Numbers`: groups of 2 bits and integers of 6, so that numbers have one to
  three or more groups; two numbers in a file.

Fairness. `FairSpec` assumes that a started build goes on: `obnc` is one
sequential process that waits in `system()` for tools that end. `RetrySpec` adds
that the owner runs obnc again and again; it is used for `RetrySucceeds` only,
whose premise says that from some time on only builds of one root happen.

Each property of a passing run has a mutant in `PROJECT.json`: a plausible slip
in the code (times not compared, subset test swapped, the import file written
only once, a cycle compared with the root only, the descriptor of the declared
type passed, the length of the wrong dimension ...) for which TLC finds the
property violated.

## 4. Proofs

### The build

There are eight modules of proofs, in the order of the components they are about.

`ObncBuildProofs` proves `BuildInvariant == Spec => []BuildInv`, for every set of
modules, roots, texts, times and disturbances. `BuildInv` has three parts.
`TypeOK` says no step applies an operation to a missing file: `CompileC` reads
`gen[Current].text`, `CCInputFile` reads `obj[m]`. It is not inductive alone.
`JobInv` says `obnc-compile` runs exactly at its place, works on the module being
visited, and has a symbol file of each import once it is past the import list.
`TraversalInv` says that a module the traversal has left has its C file and,
without `-x`, its object file; that the path is empty exactly where `Traverse`
has returned. There is one lemma per action, two sequence lemmas for the path
(`PathPush`, `PathPop`), and `NextInv` puts them together.

Its second part proves `NeverDeceived`: if no source is saved in the second of
a build or during one (`Orderly`), `FreshFiles` is an invariant: `M.c`, `M.h`,
`M.sym` and `M.imp` that look as new as `M.obn` come from it. It is inductive
together with `BuildInv`: the owner acts only while no `obnc-compile` runs, so a
running one has the present text (`CompileFresh`), and every file it writes is
written from that text. That builds may be stopped anywhere needs no case of its
own, which is the strength of this design: each file carries its own time.

The third part needs builds that nobody stops (`Undisturbed`), because a stopped
`obnc-compile` can leave an empty import file that looks up to date. `CycleInv` then
says three things. An import file as new as its source has the list of the source,
but for the moment between its creation and `ImportList`. The modules that the
traversal has left, taken at any time, are closed under imports, and for each of
them the ones left before it are closed and do not hold it: so a module that is in
reach of itself is never left (`CyclesFound`: `NoImportCycle`). And each of them but
the root has a symbol file (`SymbolFilesFound`), so that a missing one is an error of
the source.

`ObncPromiseProofs` proves `PromiseIsKept`: `Spec => PromiseKept`, the refinement of
`BuildPromise`, under `Plain`: builds that nobody stops, no `-x`, handwritten C that is
not deleted. The invariant `PromiseInv` says that generated C as new as its source has
an object file as new; that an object file newer than all inputs is made of the present
ones; that an executable holds exactly the modules in reach of its root by what they
imported when it was linked, and an object file no younger than the executable is made
of the same inputs as the part in it. This last part is what `ExecutableUpToDate`
needs: if no object file of the modules just traversed is younger, these modules are a
closed set within the executable, hence all of it, so that not linking gives what
linking would. `ExecutableTrue` (`MadeOfPresentInputs`) and `ImportsCompiled`
(`ImportsFirst`) follow. `StepPromised` maps the owner's steps to `Edit`, `Start` to
`Begin`, `CreateExecutable` and `ExecutableUpToDate` to a build that succeeds, and
every other step to a stutter. The hypotheses are there for a reason: deleted
handwritten C leaves object code made of it, and with `-x` or after a stop, object code
of a module with handwritten C may be as new as a source it was not made of.

Its second part proves `OnlyCyclesFail` (`FailsForCycles`) under
`Steady`: builds that nobody stops, no `-x`, a directory that keeps its name. The
invariant `LinkInv` follows the role of a module: once a module is compiled, it has a
header and a symbol file exactly if it was compiled as an import, which is how
`OberonCompilationNeeded` knows the role from the existence of `M.sym`
(`src/obnc.c:460`); the C files of the modules left by the traversal are new; object code
is made of the C file and the header that are there. So the C compiler finds its headers
(`HeadersAreThere`: `HeadersFound`), no module imports one that has the role of the root,
and the linker finds one main function and every name (`AlwaysLinks`: `LinksClean`). With
`SymbolFilesFound`, a cycle is the only error left. Without the hypotheses: a build
that is stopped can leave files of two roles, object code keeps the prefix of an old
directory name (section 6), and `-x` leaves object code behind the C files.

Its third part proves three properties of what one build leaves for the next.

* `NothingLeft` (`Settled`) needs only that no file is edited during a build
  (`Unedited`); builds may be stopped anywhere, with and without `-x`. The invariant
  `SettledInv` says that the modules the traversal has left are settled
  (`SettledModule`): their C, header and symbol file are as new as the source and those
  of their role, their object code as new as their C, and no `M.sym.bak` is left. The stages
  between are in `StageInv`, one conjunct for each file that obnc-compile writes; that the
  root is at the end of the path and nowhere else (`RootInv`) makes its role the same
  whenever it is asked for.
* `ClientsInStep` (`ClientsAgree`) is about the one thing that obnc keeps in memory
  only: which imports changed. It holds in `Steady` builds of one program
  (`OneProgram`, `FixedLayout`). `ClientInv` says that what the object code of a client relies
  on - the lines of the symbol file that obnc-compile read and those of the header that
  the C compiler saw - is among what its import offers (`Offered`: the old symbol
  file while there is one, or else the present one), or the import is marked as changed and the client
  has not been met yet in this build. The mark is lost when the build ends; the proof uses
  that then every module has been met, which is what `OneProgram` is for: each program of the
  directory has all modules in it (a module that no build meets would keep its object code) and no
  cycle ends a build early. Section 6 has counterexamples for the three hypotheses.
* `ClientsNotRecompiled` (`ClientsSpared`) holds whatever is stopped or edited during a
  build, where owners only add declarations, made with what they were made with
  (`GrowingMentions`). The difficulty is `M.sym` itself: it has lines of other symbol
  files, as they were when it was written. `ExportableInv` bounds all lines that are left of
  `M` in `M.sym` and `M.sym.bak` by what a compilation of the present text would write
  (`Exportable`), given what is left of its imports.

### The generated program

`DeclarationsProofs` proves `PointersBound` (`DeclarationsInv`) and `DeclaredForGood`
(`DeclaredOnce`), without hypotheses, for any names, any nesting of procedures and of type
constructors and any number of types. The inductive invariant `DeclInv` has four
parts. `TableInv`: an entry of the symbol table is a complete type of its own or an outer
scope (`Built`), another name of one (`Alias`), or belongs to the type being declared
(`current`). `ReadingInv`: the entry of the type being declared, incomplete from its outermost
constructor on, has the form of that constructor, which is the form that the complete type
will have, so that a pointer may be bound to it before it is complete. `NodesInv`: a
pointer type that does not wait for its base type is bound to a record type declared
before it or to an entry that leads to one (`Bound`, `RecordEntry`), and waiting types belong to the
present scope. The lemmas about steps rest on one relation between the tables before and
after (`Stable`): what a declared entry is, in a scope that stays open, does not change but for the
type being declared, and that one stays a record type if it is one. That the list of
unresolved types loses links (`src/Oberon.y:2510`) does not matter for this: what is lost is still waiting and is reported as
undeclared.

`TypesProofs` proves, for any record types, variables and depth of calls and
without late guards, that `TypeTestsInv` is an invariant (`DescriptorsInvariant`): what
is passed with a variable parameter is the descriptor of the record. `AccessSafe`,
`AssignmentSafe` and `TestsDecide` follow from it: the properties
`AccessWithinRecord`, `AssignedExtends` and `TestsExact`. The lemmas on chains say
that `Is` and `RecordAssignable`, which look at one position of a descriptor, decide
extension, which is a statement about all of them. Of `CaseStatements` it proves
`BranchesApart` (`OneBranch`), without hypotheses, and `CasesInStep`
(`CaseVariablesTyped`) where CASE statements with type labels are not nested
(`Unnested`; the run `NestedCase` shows what happens otherwise). `CaseInv` says that then the
generator's two variables belong to the one such statement and follow the parser's, and that
statements of a branch have begun in all CASE statements around the innermost one.

`GeneratedCodeProofs` proves `LengthsInvariant` (`LengthsTrue`) and `ArraysTyped`
(`ArraysTypeOK`) if types have distinct names
and value parameters of a fixed length get arrays of their own length (`SameLengths`). The
inductive invariant `CallsInv` says where in its object the argument of each call lies and
that each length passed is the length of that dimension; a row passed on takes the lengths
that are left, also where the parameter fixes some of them. `AccessInvariant`
(`AccessExact`) needs in addition that no row of an open array that is open itself is assigned
(`ClosedRows`). Its invariant `AccessInv` adds `PlacesInv`: the pointer that is
passed for a parameter is the place, in the object, of the row that the parameter
stands for. The generated code computes an offset step by step from the lengths at hand, and the
report means a path of indices in an object with all its extents; both are products and
sums over dimensions, defined by recursive functions. What these compute is proved by
induction with a set of numbers in the place of a predicate (`SetInduction`,
`BoundedInduction`): that the product of a sequence is its first element times the product of
the rest, that the place of an element of a row is the place of the row plus its own within the row,
and that it lies before the next row, so that what is copied or compared from one place on,
element by element, is the row that is meant.

`TypesProofs` also proves `SymbolFilesSufficient` (`ImportsComplete`) and
`SymbolFilesTrue` (`EntriesTrue`) for any modules, import lists, aliases, texts and
number of levels; an alias may be the name of any module. `EntriesTrue` holds without exception,
`ImportsComplete` for modules whose import lists make no two names the same (`NamesClash`; section
6 has what happens otherwise). `CompleteInv` says that what has been written so far mentions only
what is written or pending, so a list that is empty is a file that is complete;
`TruthInv` says that the names used in the symbol table, each with the alias of its
module, stand for the declaration of the same module as the entry that is written.
`GivesUpNotBefore` (`GivesUpLate`) rests on `DepthInv`: a type on the list was reached by a
chain of as many types as levels were written, which all have lines of their own. The same
type may well come under two names of the symbol table, but not in one chain, since
a chain that has left the module by an import keeps to the symbol file of that import
(`NamesApart`), which has no entry under the import's own name (`NoSelf`).

`GeneratedCodeProofs` also proves `ValuesAreExact` (`ValuesExact`), for expressions of any
number of operations, where INTEGER is as wide as `int` (`SameWidth`; other widths violate
the property, section 6), and `WarnedJustThen` (`WarnedExactly`) for all widths. The
inductive invariant is `ExpressionSound`: where the report's value is one of the type and
no deviation was met, the value computed is the same (`Sound`) and of the type (`Typed`).
Where the widths differ it says this of constants only, with which the compiler computes in
INTEGERs (`Reliable`); that is what the warnings need. Each kind of operation has a lemma: the operands
are `Regular`, and the result is `Sound` if it is `Proper`. They rest on what the
operations compute: `SumWarningExact` and `DifferenceWarningExact` (the tests of `Range.c`
succeed exactly when the result cannot be represented), `RangeExact` (`OBNC_RANGE`),
`DivModExact`, `QuotientExact` and `ModulusExact` (C's truncating division, corrected, is the
report's, unless the subtraction in `OBNC_DIV` overflows), `RotationExact` (`OBNC_ROR`),
`WrapWithin` and `CharactersExact` (conversions to signed types and back). The prover knows
of `2^n` no more than that it is a number: `PowerAssumption` gives it the law of powers, and
`PowersGrow` derives from this, by induction, that a wider type has the numbers of a narrower one.

`ValuesAreInRange` (`ArithmeticInv`) has no hypothesis: INTEGER, `int` and characters are of any
widths, and the report need not give the expression a value. By `ExpressionInRange`, a
constant or a variable holds a value of its type (`ValuesOf`), and what is computed in
between is a number or a set of the wider of INTEGER and `int` (`ComputedOf`), which is what
an assignment has to convert (`ConvertedRange`). Here the deviating and the overflowing operations
count as well: a quotient whose remainder cannot be subtracted is undefined or in range
(`IntegerRange`), a shift or a rotation is wrapped (`WrapRange`), and the number that the bits of a set
make is a number (`UnsignedNumber`, by induction over the bits). The proof found an error in
the model: a constant was kept as it had been computed, while `Trees_NewInteger` and
`Trees_NewSet` convert it (`src/Trees.c:717`, `Kept`), which differs where `int` is the wider type.

`ModulePathsProofs` proves four results about any directories, search paths, import
lists and owners. Two steps make the search something to reason about. What obnc,
`obnc-compile` and the manual find is a function of the set of places that have files
(`Have`, `FoundIn`, `MeantIs`), and this set and the import lists stay as they are during a
build, apart from what the build itself makes of a source that is there (`Settled`). And
reading headers, a recursion over sets that the library's induction theorems do not
reach, is proved to have a solution and to end: each step reads a module name
that was not read before (`HeadersExist`, `HeadersRead`).

* `PathsTypeCorrect` (`PathsTypeOK`), without hypotheses, by `PathsTyped`: a module that is
  visited has been found, and what is remembered of its imports is what the search gives.
* `LinkedIsReach` (`ReachLinked`) under `AbsoluteEntries` and `OnePath`. `TraversedWell` says
  that the imports of a module that the traversal has left, and those that a visited one
  has behind it, have been met, and that what has been met is in reach of the root. A module
  is known by its path; that two paths never lead to one place (`SamePath`, `MetOnce`) makes the number of
  modules linked that of the modules in reach, and `SameSearch` makes the search from an
  importing directory that from the starting one. Reach is the closure that the model
  computes in as many rounds as there are places (`ReachFact`).
* `UsesAreMeant` (`BoundAsMeant`) for owners that rebind no import, under `SharedNamesFirst`. `MadeAsMeant` says of
  everything made that it was bound to what its imports meant among the places there are
  now, however long ago it was made; `OffPathBuilt` that what the traversal has left is as
  new as its source.
* `ToolsFindTheSame` (`ToolsAgree`) needs all five conditions and such owners. The property
  speaks about the steps that compile and link. The C compiler finds each
  header because the import has been left by the traversal or has been compiled before
  (`ImportsCompiled`); the linker finds each name because the object code that defines it is
  among those linked (`AllDefined`), and finds it once because of `NamesApart`.

Section 6 has the counterexamples for these hypotheses.

### The library Files

`FilesProofs` proves `FilesInvariant`: where `Usage = {}` (`Ordinary`), `FilesInv`
is an invariant, for any sets of handles, names, riders, inodes and items. It
says that names and open handles stand for different inodes, that an
unregistered file has no name, and that riders are on open files; it was made
inductive by `Within`, which bounds what a read can reach. One lemma per call;
`Rebuffer`, `OpenAnew` and `Freeing` are the three ways in which calls change the
file system (write a buffer, replace a stream, free what is unused), `ReadOK` is
what all reads share. The central step is `PurgeInPlace`: a registered file has
an inode in use, `fopen` returns the inode of the name or an unused one, hence
the name is still its own.

`FilesKept` is the refinement: `Spec => FilesPromised`, for the same programs. It was not
provable at first, because an inode that is freed was not known to be empty, so that a new file
could start with old bytes; `Cleared` was added to the invariant for it. The proof goes by what
handles and names stand for (`TextIs`, `DirIs`, and `NewText`, `NewDir` after the step),
so that each call is compared with the one of `FilePromise` in those terms. Some facts serve several calls. Writing a
buffer back changes what no handle and no name stands for (`WrittenBack`), and every
access of a rider begins that way (`Accessed`); a file that is
made starts empty and unseen (`Began`); a file that moves to another stream keeps its text
and its name (`Replaced`, for `Register` and `Purge`); changing entries of the
directory changes neither text nor bytes (`Renamed`, `FreedOthers`). A read delivers what is
there, nothing, or less than was asked for (`Delivered`, `NothingDelivered`, `TooLong`), and
both levels agree in which. Each lemma also says what is unsaved after the call, so that
when the program is killed (`KillKept`), what a name of a closed file stands for is
the bytes of its inode.

### Strings, and numbers in files

`LibraryProofs` proves `StringsDoAsDescribed` (`StringsExact`), for arrays and strings of
every length, where an array is not both source and destination (`StringUsage = {}`; section 6 has what happens otherwise).
The procedures move characters one at a time, by loops that count upwards or downwards; in
the model a loop is a recursive function of the number of rounds. Its invariant
(`LoopFact`) is that the places written so far have what their sources had before the loop,
because no source is written before it is read: an upward loop takes
characters from the same place or further up (`UpLoop`), a downward one from further down
(`DownLoop`). What the loops leave is then compared with what the description says of
strings (`InsertedIs`, `DeletedIs`), cut off at the end of the array (`BecomesText`). For `Pos`
it is shown that the search, which compares up to the first difference, finds an occurrence if there is
one, and the first.

Its second result is `NumbersComeBack` (`NumbersReadBack`), for groups of any size and where INTEGER
is not wider than `int` (`NumBits <= NumCBits`; wider ones violate it, section 6). If
`left[k]` is what is left of a number `x` after `k` groups, then what `ReadNum` has added up by then is
`x - left[k] * Group^k`, and this lies in `0..Group^k - 1`; the last group is read with its sign, and
no shift overflows but that for the least number, whose negation overflows back (`NegativeShift`). `NumbersInv` gives each number its place in the file: for every number
entirely written there is an offset, the reader is at one of these offsets or behind a
number that was cut off, and what is behind the last one has no byte that ends a number.

### Assumptions, and what is not proved

Assumptions of the theorems are the named ASSUMEs of the modules, which TLC evaluates
in every run: drafts are texts, roots are modules, modes are Booleans, `MaxClock` is
a natural number, `NoFile` and `NoJob` are not files, headers, object code, times or jobs; in
`FilesLib`, items are sequences of numbers, elements have at least one byte, `None`
is no inode, stream, position or handle, and neither it nor a handle is a sequence of bytes; in the models of `MCTranslation`, that the constants
have their types, that `Undefined` is no number or set, the law of powers
(`2^(n+1) = 2 * 2^n`, `PowerAssumption` and `NumberPowersAssumption`, which restricts no constant), that modules, directories and identifiers are finitely many, that `NoFile` is no import list
and nothing that is made of one, that a chain of base types ends with its type and its initial parts
are the chains of the others, that installed modules are installed with those that they import
(`LibraryAssumption`), that characters are narrower than `int`, and that `Outside` is no contents of
arrays and `Garbage` no number. The further hypotheses
(`Orderly`, `Undisturbed`, `Plain`, `Steady`, `Unedited`, `Alone`, `GrowingMentions`,
`Ordinary`, `~LateGuards`, `Unnested`, `SameLengths`, `ClosedRows`, `SameWidth`, the conditions of
`ModulePaths`, `PathUsage = {}`, `StringUsage = {}`, `NumBits <= NumCBits`) are stated with the theorems; the runs `Graph`, `Exports`, `Disturbed`, `Files` and `Translation` have instances of them.

Only model-checked: `Terminates` and `RetrySucceeds` (liveness under fairness); the proved
properties where their hypotheses are given up (`PromiseKept` and `HeadersFound` with
stopped builds and `-x` in `Graph`). `ENABLED` and liveness are beyond the
prover. Induction is not, where the statement can be put as membership in a set.

## 5. Findings

* **SharedServer** (`src/obnc.c:548`). The comparison of `M.sym` with `M.sym.bak`
  is made in the one build that recompiles `M`, and its result is kept in memory.
  A second program that shares `M` keeps its client compiled for the old
  interface. `bin/obnc-test:97` says that changed or deleted exported
  declarations cause recompilation of client modules.
* **LateGuard** (`src/Generate.c:1451`). A guard of a record that is not the first
  selector of a variable parameter - `r(T)(U)`, `p^(U)`, `p(T)^(U)` - is tested with
  the descriptor of the selector's own type, which is the type that the guard names.
  It never traps, and what follows is taken for a `U`.
  `share/doc/obnc/oberon-report.html:625` says that a guard aborts the program.
* **NestedCase** (`src/Generate.c:1902`). A CASE statement with type labels sets
  `caseVariable` and `caseLabelType` to `NULL` at its end, also within a branch of
  another one. What follows in that branch is generated without the guard although
  the parser took the case variable to have the type of the label
  (`share/doc/obnc/oberon-report.html:1057`), and the C compiler rejects it or, where the field
  exists in both types, reads the base type.
* **ProductWarning** (`src/Range.c:55`). With `b < 0 < a` the check of a constant
  product compares with `<` instead of `>`: `2 * (-3)` is warned of, and
  `1000000 * (-1000000)` is not. With `b = -1` its division overflows, which ends the
  compiler on x86.

## 6. Further limits

The same models show more with other constants; these are not kept as runs, because
they follow from decisions the code documents, from the resolution of times, or show
a small case of what a run shows already.

Of `ObncBuild`:

* a build stopped between `obnc-compile` of a changed server and its clients
  forgets the change when `M.sym.bak` has been removed (`Exports` with
  `"interrupt"`: `ClientsAgree`);
* the same without a stopped build: a module that is out of the program's reach while
  its server changes, and comes back, keeps its object code; and so does every client when the build
  that recompiled the server ends with an import cycle (three modules, one root, drafts
  that change import lists: `ClientsAgree`);
* an unexported field is in the header and not in the symbol file; changing one
  changes the layout of the record and recompiles no client (modules `R` and `M`, a draft
  of `M` with another `shape`: `ClientsAgree`; `src/obnc.c:497`);
* whether `M.c` was made for an entry point is guessed from the existence of `M.sym`,
  which is written last. A module compiled as an import and stopped in between is taken
  for an entry point afterwards, and its build fails to link until the source is touched
  (`RetrySpec`, roots `R` and `M`, `"interrupt"`, `MaxClock = 1`: `RetrySucceeds`;
  `src/obnc.c:460`);
* object code made under `-x` is shared with separate builds (`CModules = {M}`,
  `Mode = BOOLEAN`: `ClientsAgree`); with `-x`, or after a stop, object code of a module
  with handwritten C may keep the old text of its source;
* a deleted handwritten `M.c` leaves object code made of it (`"remove C"`:
  `MadeOfPresentInputs`);
* a renamed directory is noticed for imports only; clients keep the old prefix
  (`"rename"`: `LinksClean`);
* an import file that a stopped `obnc-compile` left empty hides the imports of a
  module in the next traversal (`DraftChain`, `"interrupt"`: `ImportsFirst`), so that a
  cycle may be missed once;
* `"same second"` and `"concurrent edit"` break `FreshFiles`, which is why
  `NeverDeceived` assumes their absence.

Of `Declarations`:

* a type section is rejected with "undeclared pointer base type" although every base
  type is declared: `TYPE C = POINTER TO Y; B = POINTER TO Y; A = POINTER TO X;
  Y = RECORD END; X = RECORD END` (`src/Oberon.y:2522`; five types in one section:
  `ReportedUndeclared`). The pointer types are bound correctly; one of them stays on the
  list;
* a record type may come to extend itself through a pointer type with a forward
  reference (`P = POINTER TO B; R = RECORD (P) END; B = R`, or with a record
  `B = RECORD (R) END`, for which the compiler does not end:
  `Types_ExtensionLevel` follows the chain), because `BaseType` looks one step
  ahead; the anonymous record of a variable with a pointer base type stops the
  compiler with a failed assertion (`Declarations` reaches both states).

Of `FilesLib`:

* `Purge` of a registered file opens the name remembered in the file record. If that name
  was deleted or renamed and given to another file, the other file is emptied,
  or, where nobody has the name, the handle moves to a new file
  (`"purge renamed"`: `FilesPromised`; `lib/obnc/Files.c:193`);
* registering a file under a name that another handle has open empties the file
  of that handle and joins the two (`"register over open"`: `FilesInv`); a file that is
  dropped without `Close` has not got its last bytes until the program ends
  (`"unclosed"`: `FilesPromised`), and a registered one has not got any until then or the
  next access: `lib/obnc/Files.obn:39` says of `Register` that "the file buffers are written
  back", but `Register` leaves the copy in the buffer of the new stream (`lib/obnc/Files.c:155`),
  so that a program killed before it calls `Close` leaves an empty file under that name. This
  is why `Register` makes a file unsaved in `FilePromise`.

Of the models of `MCTranslation`:

* selectors of a case variable are lost when a designator is generated twice
  (`SelectorsKept`; `src/Generate.c:1484`); a type CASE without a match falls through,
  where the man page announces trap 7;
* an alias that is the name of another module can cost a line of a symbol file. `A` exports
  a type `t` made with `M.t`; a client says `IMPORT M := A` and exports a type made with
  this `t`. In its symbol table both types are called `M.t`, and the one that comes second is
  taken for written (`src/Table.c:1283`), so that importing the client stops with "missing
  type name" (`src/Table.c:931`; `Translation`: `ImportsComplete` without its premise on
  `NamesClash`);
* constant comparisons of `CHR` with large ordinals use the signed value
  (`CHR(128) < CHR(127)` when folded, the opposite when evaluated), and `DIV` of a number
  near the least integer overflows before it divides: the two `deviations`;
* an INTEGER wider or narrower than `int` violates `ValuesExact` (`IntBits = 4` with
  `CIntBits` 3 or 5): `1 << x` is of type `int`, and narrower operands are promoted to
  `int`. Compressed numbers
  with `NumBits = 8 > NumCBits = 6` violate `NumbersReadBack`. A build of obnc with
  `OBNC_CONFIG_C_INT_TYPE` is such a case;
* strings and open arrays are accepted for value parameters of a fixed length, and no
  length is passed (`ArrayUsage = {"short values"}`: `AccessExact`); `OBNC_AAT` compares
  first dimensions only, so that the assignment of an open matrix with longer rows goes beyond its
  target (`"open rows"`: `AccessExact`). `Types_Same` compares the names of array types: a
  local type with the name of a global one counts as the same (`NamesDistinct` is false);
* a C file that imports modules of one name from two directories gets the header that is
  read first for both (a draft of `main` with imports `fooApi`, `Util`: `BoundAsMeant`;
  `src/Generate.c:2445`); a module added to or removed from the search path is not noticed
  by clients that are up to date (`PathUsage = {"rebinding"}`: `ToolsAgree`,
  `BoundAsMeant`); a relative entry of `OBNC_IMPORT_PATH`, or an own directory that is on
  the path by its absolute name, means another thing to each tool (`ToolsAgree`); so does
  an installed directory with a `.obnc` of its own (`src/Oberon.y:2233`). Directories
  with the same `DirPrefix` give link errors;
* `Strings.Insert` and `Replace` with the same array as source and destination read what
  they have written (`StringUsage = {"aliased"}`: `StringsExact`).

## 7. Not modelled, and why

`ObncBuild` has one obnc process at a time, one directory (`ModulePaths` has several)
and executables named after their root. Command line parsing, quoting for the shell
and the syntax of symbol files are text. Headers that include other headers are in
`ModulePaths` only (a header face of `ObncBuild` has the lines of its own module and
those they mention). In `Declarations`: fields and their names, element types,
lengths, signatures, export marks, marks for unused identifiers, imported
identifiers. In `FilesLib`: failures of the C library, `GetDate`, a file open in two
streams, files longer than a stream buffer. In the translation: real numbers, control
statements other than CASE, local procedures that refer to outer variables, SYSTEM,
fields and what records contain. The scanner, the utilities, `obncdoc`, the
libraries over the C library and the scripts have no behaviour that depends on an
order of steps. Components with status `not_modelled` in `PROJECT.json` say why in
their notes.

## 8. Plan

1. `Declarations`: element types and fields (a record that contains itself through
   an array), the chains of base types.
2. Two obnc processes in one directory (`ObncBuild` with a set of processes), and two
   programs with one `-o` name.
3. FOR, REPEAT and WHILE and the variables that the generator makes for local
   procedures.
4. `In.c`: one character of look-ahead shared by all readers.
5. Theorems: the promise with stopped builds and `-x` when no module has
   handwritten C.
