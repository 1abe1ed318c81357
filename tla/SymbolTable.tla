----------------------------- MODULE SymbolTable ------------------------------
(***************************************************************************)
(* The scopes of the symbol table (src/Table.c): one for the module and    *)
(* one for each procedure being declared. An identifier is looked up in    *)
(* the innermost scope, then in the one of the module, then among the      *)
(* predeclared ones; scopes in between are skipped.                        *)
(*                                                                         *)
(* Not modelled: qualified identifiers, exports and the marks for used     *)
(* identifiers.                                                            *)
(***************************************************************************)
EXTENDS Integers, Sequences, FiniteSets

CONSTANTS
    Name,
    Predeclared,   \* the names of predeclared types
    MaxLevel       \* bound: how deep procedures are nested

ASSUME PredeclaredAssumption == Predeclared \subseteq Name
ASSUME MaxLevelAssumption == MaxLevel \in Nat

VARIABLES
    scope,   \* scope[l][x]: what x is declared as at level l
    level    \* the current scope; 0 is the module

tableVars == <<scope, level>>

Level == 0 .. MaxLevel

(* References to tree nodes are tuples that begin with a tag.              *)
Nothing == <<"none">>
Basic == <<"basic">>
Ident(l, x) == <<"ident", l, x>>

Undeclared == [kind |-> "none", type |-> Nothing]
Empty == [x \in Name |-> Undeclared]

TableInit == scope = [l \in Level |-> Empty] /\ level = 0

LocallyDeclared(x) == scope[level][x] /= Undeclared

At(x) ==
    IF LocallyDeclared(x) THEN Ident(level, x)
    ELSE IF scope[0][x] /= Undeclared THEN Ident(0, x)
    ELSE IF x \in Predeclared THEN Basic ELSE Nothing

(* Table_Put asserts that the name is not declared in the current scope.   *)
Put(x, kind, type) ==
    scope' = [scope EXCEPT ![level][x] = [kind |-> kind, type |-> type]]

(* A procedure is declared in the scope around it, its parameters are in   *)
(* the one it opens.                                                       *)
PutProcedure(x, params) ==
    /\ level' = level + 1
    /\ scope' = [[scope EXCEPT ![level][x] = [kind |-> "procedure", type |-> Nothing]]
                    EXCEPT ![level + 1] =
                        [y \in Name |-> IF y \in params
                                        THEN [kind |-> "parameter", type |-> Basic]
                                        ELSE Undeclared]]

CloseScope == level' = level - 1 /\ scope' = [scope EXCEPT ![level] = Empty]
==============================================================================
