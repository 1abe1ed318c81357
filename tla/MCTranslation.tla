----------------------------- MODULE MCTranslation -----------------------------
(***************************************************************************)
(* Small instances of the modules on the translation of a program: what    *)
(* the generated program knows of dynamic types (TypeTests), CASE          *)
(* statements (CaseStatements), symbol files (SymbolFiles), expressions    *)
(* (Arithmetic), arrays (Arrays), the search for modules in several        *)
(* directories (ModulePaths), and the library's strings (Strings) and      *)
(* compressed integers (Numbers). The first two share the record types: R  *)
(* with the extensions S and U, and T that extends S. part says which of   *)
(* them is taken in a behaviour; the others stay in their initial states.  *)
(*                                                                         *)
(* For the symbol files there is a module M, a module A that imports it    *)
(* under an alias, and C that imports A under the name of M, or A and M,   *)
(* with or without an alias.                                               *)
(*                                                                         *)
(* The arrays are table, of 3 x 1 rows of type Row, and line, which is     *)
(* shorter than a Row. There are procedures for two arrays of one list,    *)
(* for a string, a matrix, a table and a Row, and a procedure variable for *)
(* strings.                                                                *)
(*                                                                         *)
(* The module main is built in directory home, with a directory path that  *)
(* has a library foo in a subdirectory: fooApi, which uses a module Util   *)
(* of its own, where there is one, or that of path; home and path may have *)
(* a Util too. Input is installed, and Input0, which it imports.           *)
(*                                                                         *)
(* The strings are a of three and b of four characters.                    *)
(***************************************************************************)
EXTENDS TypeTests, CaseStatements, SymbolFiles, Arithmetic, Arrays,
        ModulePaths, Strings, Numbers, TLC

CONSTANTS p, q, v

VARIABLE part

RecordTypes4 == {"R", "S", "T", "U"}
Chains ==
    [R |-> <<"R">>, S |-> <<"R", "S">>, T |-> <<"R", "S", "T">>, U |-> <<"R", "U">>]
PointerTypes == (p :> "R") @@ (q :> "T")
VariableTypes == (p :> "R") @@ (q :> "S")
RecordVarTypes == v :> "U"
Declarings == [M |-> {"t", "u"}, A |-> {"t", "u"}, C |-> {"t"}]
Imports ==
    [M |-> {<<>>},
     A |-> {"X" :> "M"},
     C |-> {"M" :> "A", ("M" :> "M") @@ ("A" :> "A"), ("X" :> "M") @@ ("A" :> "A")}]
Mentions == [M |-> 2, A |-> 1, C |-> 1]
NoneOrField == {<<>>, <<".">>}

Fixed(id, name, n) == <<[id |-> id, name |-> name, len |-> n]>>
OpenArray(id) == <<[id |-> id, name |-> "", len |-> Open]>>
Row == Fixed("row", "Row", 2)
Arrays2 ==
    [table |-> Fixed("table", "", 3) \o Fixed("rows", "", 1) \o Row, line |-> Fixed("line", "Line", 1)]
OneCharacter == [s |-> 1]
Formal(kind, type) == [kind |-> kind, type |-> type]
Procedures5 ==
    [copy |-> <<Formal("var", OpenArray("a")), Formal("var", OpenArray("a"))>>,
     show |-> <<Formal("value", OpenArray("b"))>>,
     matrix |-> <<Formal("var", OpenArray("c") \o OpenArray("d"))>>,
     table |-> <<Formal("var", OpenArray("e") \o OpenArray("f") \o Row)>>,
     row |-> <<Formal("value", Row)>>]
StringProcedure == [show |-> <<Formal("value", OpenArray("g"))>>]
Around0 == {-1, 0, 1}

Below4 == [home |-> <<>>, path |-> [foo |-> "foo"], foo |-> <<>>, lib |-> <<>>]
ModulePrefixes == [main |-> "", Util |-> "", fooApi |-> "foo", Input |-> "", Input0 |-> ""]
Entries == <<[d \in Directory |-> "path"], [d \in Directory |-> "lib"]>>
DirPrefixes == [d \in Directory |-> d]
InstalledInput == (<<"lib", "Input">> :> <<"Input0">>) @@ (<<"lib", "Input0">> :> <<>>)
Drafts(d, m) ==
    CASE d = "home" /\ m = "main" -> {<<"Util", "fooApi">>, <<"fooApi">>}
      [] d = "home" /\ m = "Util" -> {<<"fooApi">>}
      [] d = "foo" /\ m = "fooApi" -> {<<"Util">>}
      [] d = "foo" /\ m = "Util" -> {<<"Input">>, <<"fooApi">>}
      [] d = "path" /\ m = "Util" -> {<<>>}
      [] OTHER -> {}
DraftsAt == [l \in Location |-> Drafts(l[1], l[2])]
ASSUME DirectoriesAssumption ==
    AbsoluteEntries /\ OnePath /\ NamesApart /\ LibraryApart /\ SharedNamesFirst

Sizes2 == [a |-> 3, b |-> 4]
LastLetter == [c \in Letter |-> 2]

Parts ==
    {"tests", "cases", "symbol files", "arithmetic", "arrays", "paths", "strings", "numbers"}

Init ==
    /\ part \in Parts
    /\ TypeTestsInit /\ CaseInit /\ SymbolFilesInit /\ ArithmeticInit
    /\ ArraysInit /\ PathsInit /\ StringsInit /\ NumbersInit

Next ==
    /\ UNCHANGED part
    /\ \/ part = "tests" /\ TypeTestsNext
          /\ UNCHANGED <<caseVars, symbolFileVars, expVars, arrayVars,
                         pathVars, stringVars, numberVars>>
       \/ part = "cases" /\ CaseNext
          /\ UNCHANGED <<typeTestVars, symbolFileVars, expVars, arrayVars,
                         pathVars, stringVars, numberVars>>
       \/ part = "symbol files" /\ SymbolFilesNext
          /\ UNCHANGED <<typeTestVars, caseVars, expVars, arrayVars,
                         pathVars, stringVars, numberVars>>
       \/ part = "arithmetic" /\ ArithmeticNext
          /\ UNCHANGED <<typeTestVars, caseVars, symbolFileVars, arrayVars,
                         pathVars, stringVars, numberVars>>
       \/ part = "arrays" /\ ArraysNext
          /\ UNCHANGED <<typeTestVars, caseVars, symbolFileVars, expVars,
                         pathVars, stringVars, numberVars>>
       \/ part = "paths" /\ PathsNext
          /\ UNCHANGED <<typeTestVars, caseVars, symbolFileVars, expVars,
                         arrayVars, stringVars, numberVars>>
       \/ part = "strings" /\ StringsNext
          /\ UNCHANGED <<typeTestVars, caseVars, symbolFileVars, expVars,
                         arrayVars, pathVars, numberVars>>
       \/ part = "numbers" /\ NumbersNext
          /\ UNCHANGED <<typeTestVars, caseVars, symbolFileVars, expVars,
                         arrayVars, pathVars, stringVars>>

vars ==
    <<part, typeTestVars, caseVars, symbolFileVars, expVars, arrayVars, pathVars,
      stringVars, numberVars>>
Spec == Init /\ [][Next]_vars
==============================================================================
