---------------------------- MODULE MCDeclarations ----------------------------
(***************************************************************************)
(* Small instances of Declarations. Names that are not predeclared are     *)
(* interchangeable.                                                        *)
(***************************************************************************)
EXTENDS Declarations, TLC

Symmetry == Permutations(Name \ Predeclared)

(* Bound: at most one declaration, apart from the procedure being read, is *)
(* not one of a type; in a procedure at most one type of the module is     *)
(* declared, there are two nodes, and type constructors are not nested.    *)
Declared(kinds) ==
    {<<l, x>> \in Level \X Name : scope[l][x].kind \in kinds}
FewDeclared ==
    /\ Cardinality(Declared({"constant", "variable", "parameter", "procedure"})) <= level + 1
    /\ level > 0 => Cardinality(Declared({"type"}) \cap ({0} \X Name)) <= 1
                  /\ Len(open) <= 1 /\ Len(node) <= 2
==============================================================================
