----------------------------- MODULE CaseStatements -----------------------------
(***************************************************************************)
(* CASE statements, as the parser checks them (src/Oberon.y) and as C code *)
(* is generated for them (src/Generate.c). In a branch of a CASE statement *)
(* with type labels the parser gives the case variable the type of the     *)
(* label; the generator knows of it from two global variables and guards   *)
(* every use of the case variable. Statements are parsed and generated one *)
(* after another, and the two agree only if they are in step.              *)
(*                                                                         *)
(* Of a statement within a branch only the case variables that it uses     *)
(* matter: the properties speak of all the uses that are possible where    *)
(* the program has come to. The labels of integral CASE statements are     *)
(* ranges, a single label being a range of one.                            *)
(***************************************************************************)
EXTENDS RecordTypes, Chars, FiniteSets

CONSTANTS
    Variable,      \* pointer variables and record parameters
    VariableType,  \* VariableType[v]: the declared type of v
    Selectors,     \* sequences of selectors that a statement may have
    RangeLenMax,   \* the longest range of integers
    MaxCases,      \* bound: how deep CASE statements are nested
    MaxTypeCases,  \* bound: how deep those with type labels are
    MaxRanges,     \* bound: label ranges of a CASE statement
    None

ASSUME CaseAssumption ==
    /\ VariableType \in [Variable -> RecordType]
    /\ None \notin RecordType \union Variable
    /\ <<>> \in Selectors

VARIABLES
    symbolType,     \* Trees_Type(v), while the program is parsed
    cases,          \* CASE statements that have begun, the outermost first
    caseVariable,   \* the generator's variables
    caseLabelType,
    rejected        \* whether a label was reported

caseVars == <<symbolType, cases, caseVariable, caseLabelType, rejected>>

-----------------------------------------------------------------------------
(* A CASE statement: the case expression, with the type it was parsed      *)
(* with; the type labels or the label ranges before; whether statements    *)
(* may come next; the guard that the expression's tree was given.          *)
NewCase(kind, v) ==
    [kind |-> kind, variable |-> v,
     type |-> IF kind = "type" THEN symbolType[v] ELSE None,
     labels |-> {}, branch |-> 0, statements |-> FALSE, guard |-> None]

Innermost == cases[Len(cases)]
Change(c) == cases' = [cases EXCEPT ![Len(cases)] = c]

(* Whether a statement may come next.                                      *)
StatementsHere == IF cases = <<>> THEN TRUE ELSE Innermost.statements

(* CaseExpression; GenerateTypeCaseStatement begins.                       *)
BeginCase(kind, v) ==
    /\ StatementsHere
    /\ Len(cases) < MaxCases
    /\ kind = "type" =>
          Cardinality({k \in DOMAIN cases : cases[k].kind = "type"}) < MaxTypeCases
    /\ cases' = Append(cases, NewCase(kind, v))
    /\ caseVariable' = IF kind = "type" THEN v ELSE caseVariable
    /\ UNCHANGED <<symbolType, caseLabelType, rejected>>

(* GenerateDesignatorUpTo: v is guarded with the label of the branch.      *)
GuardOf(v) ==
    IF /\ caseVariable = v
       /\ caseLabelType \notin {None, VariableType[v]}
    THEN caseLabelType ELSE None

(* A type label: the case variable is given its type, the test is          *)
(* generated, and the branch begins. The guard that is put into the tree   *)
(* of the case expression stays there for the next labels.                 *)
TestGuard == IF Innermost.guard /= None THEN Innermost.guard ELSE GuardOf(Innermost.variable)
TypeLabel(t) ==
    /\ cases /= <<>> /\ Innermost.kind = "type" /\ ~Innermost.statements
    /\ IF Extends(Innermost.type, t) /\ t \notin Innermost.labels
       THEN /\ symbolType' = [symbolType EXCEPT ![Innermost.variable] = t]
            /\ Change([Innermost EXCEPT !.labels = @ \union {t}, !.statements = TRUE,
                                        !.guard = TestGuard])
            /\ caseLabelType' = t
            /\ UNCHANGED <<caseVariable, rejected>>
       ELSE rejected' = TRUE /\ UNCHANGED <<symbolType, cases, caseVariable, caseLabelType>>

(* Mutant of Disjoint: a range around the other one is not found.          *)
DisjointMin(a, b) == ~(a.min \in b.min .. b.max)

(* CheckIntegerLabelDisjointness, CheckCharLabelDisjointness               *)
Disjoint(a, b) == ~(a.min \in b.min .. b.max \/ b.min \in a.min .. a.max)

(* LabelRange: a range of integers or of characters, in the same branch as *)
(* the labels before or in a new one. (A range of one character is taken   *)
(* for a single label; written as a range it would be rejected.)           *)
RangeOf(kind, first, last) ==
    [min |-> IF kind = "char" THEN Signed(first) ELSE first,
     max |-> IF kind = "char" THEN Signed(last) ELSE last]
Ordered(kind, range, single) ==
    IF kind = "char" THEN single \/ range.min < range.max
    ELSE range.min <= range.max /\ range.max - range.min <= RangeLenMax
RangeLabel(first, last, newBranch) ==
    /\ cases /= <<>> /\ Innermost.kind \in {"integer", "char"} /\ ~Innermost.statements
    /\ newBranch \/ Innermost.branch > 0
    /\ Cardinality(Innermost.labels) < MaxRanges
    /\ LET kind == Innermost.kind
           range == RangeOf(kind, first, last)
           branch == Innermost.branch + (IF newBranch THEN 1 ELSE 0)
       IN  IF /\ Ordered(kind, range, first = last)
              /\ \A other \in Innermost.labels : Disjoint(other, range)
           THEN /\ Change([Innermost EXCEPT
                       !.labels = @ \union {[branch |-> branch, min |-> range.min,
                                             max |-> range.max]},
                       !.branch = branch])
                /\ UNCHANGED rejected
           ELSE rejected' = TRUE /\ UNCHANGED cases
    /\ UNCHANGED <<symbolType, caseVariable, caseLabelType>>

(* The colon after the last label of a branch.                             *)
BeginStatements ==
    /\ cases /= <<>> /\ Innermost.kind /= "type" /\ Innermost.branch > 0
    /\ ~Innermost.statements
    /\ Change([Innermost EXCEPT !.statements = TRUE])
    /\ UNCHANGED <<symbolType, caseVariable, caseLabelType, rejected>>

(* Mutants of EndBranch and EndCase: the label is not reset; the case      *)
(* variable is not given its type again.                                   *)
EndBranchKeepingLabel ==
    /\ cases /= <<>> /\ Innermost.statements
    /\ Change([Innermost EXCEPT !.statements = FALSE])
    /\ UNCHANGED <<symbolType, caseLabelType, caseVariable, rejected>>
EndCaseKeepingType ==
    /\ cases /= <<>> /\ ~Innermost.statements
    /\ cases' = SubSeq(cases, 1, Len(cases) - 1)
    /\ caseVariable' = IF Innermost.kind = "type" THEN None ELSE caseVariable
    /\ UNCHANGED <<symbolType, caseLabelType, rejected>>

(* The end of a branch, and that of a CASE statement.                      *)
EndBranch ==
    /\ cases /= <<>> /\ Innermost.statements
    /\ Change([Innermost EXCEPT !.statements = FALSE])
    /\ caseLabelType' = IF Innermost.kind = "type" THEN None ELSE caseLabelType
    /\ UNCHANGED <<symbolType, caseVariable, rejected>>
EndCase ==
    /\ cases /= <<>> /\ ~Innermost.statements
    /\ cases' = SubSeq(cases, 1, Len(cases) - 1)
    /\ IF Innermost.kind = "type"
       THEN /\ symbolType' = [symbolType EXCEPT ![Innermost.variable] = Innermost.type]
            /\ caseVariable' = None
       ELSE UNCHANGED <<symbolType, caseVariable>>
    /\ UNCHANGED <<caseLabelType, rejected>>

CaseInit ==
    /\ symbolType = VariableType
    /\ cases = <<>>
    /\ caseVariable = None /\ caseLabelType = None
    /\ rejected = FALSE

CaseNext ==
    /\ ~rejected
    /\ \/ \E v \in Variable : BeginCase("type", v)
       \/ \E kind \in {"integer", "char"} : BeginCase(kind, None)
       \/ \E t \in RecordType : TypeLabel(t)
       \/ \E first, last \in Char, newBranch \in BOOLEAN : RangeLabel(first, last, newBranch)
       \/ BeginStatements
       \/ EndBranch
       \/ EndCase

CaseSpec == CaseInit /\ [][CaseNext]_caseVars

-----------------------------------------------------------------------------
(* Where a statement may be, a variable has the same type in the C code    *)
(* that is generated for it as the parser took it to have: the fields that *)
(* were accepted are those of the struct. The test of a case variable      *)
(* looks at it as it was before the branch.                                *)
UsesTyped ==
    StatementsHere =>
        \A v \in Variable :
            symbolType[v] = IF GuardOf(v) = None THEN VariableType[v] ELSE GuardOf(v)
TestsTyped ==
    \A k \in DOMAIN cases : cases[k].kind = "type" => cases[k].guard \in {None, cases[k].type}
CaseVariablesTyped == UsesTyped /\ TestsTyped

(* Every value selects at most one branch of the switch statement that is  *)
(* generated, and a range has as many labels as there are characters, or   *)
(* integers from 0 to RangeLenMax, at most.                                *)
OneBranch ==
    \A k \in DOMAIN cases : cases[k].kind /= "type" =>
        \A a, b \in cases[k].labels :
            /\ a /= b => a.min .. a.max \intersect b.min .. b.max = {}
            /\ a.max - a.min <= IF cases[k].kind = "char" THEN 2 ^ CharBits ELSE RangeLenMax

(* What is generated for v with selectors, the first and the second time:  *)
(* the guard replaces the selectors in the tree. Generated twice are the   *)
(* operand of a type test and of a type guard that is a pointer, and a     *)
(* record behind a pointer that is passed as a variable parameter.         *)
Generated(v, selectors) == [guard |-> GuardOf(v), selectors |-> selectors]
GeneratedAgain(v, selectors) ==
    [guard |-> GuardOf(v), selectors |-> IF GuardOf(v) = None THEN selectors ELSE <<>>]

(* Both times the same variable is meant, the one that was written.        *)
SelectorsKept ==
    StatementsHere =>
        \A v \in Variable, selectors \in Selectors :
            GeneratedAgain(v, selectors) = Generated(v, selectors)
==============================================================================
