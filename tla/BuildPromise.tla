----------------------------- MODULE BuildPromise -----------------------------
(***************************************************************************)
(* What obnc promises its user, with nothing said of how: a build that     *)
(* succeeds leaves an executable made of the present inputs of the root    *)
(* module and of everything it imports, directly or not, and of nothing    *)
(* else; a build that does not succeed leaves every executable alone.      *)
(***************************************************************************)
CONSTANTS
    Module, Root,
    Input,     \* what a module is made of: a record, src.imports its imports
    None

VARIABLES
    input,     \* the inputs of each module
    program,   \* what each root's executable is made of
    built      \* the root just built, or None

(* The modules that every set holding r and closed under imports holds.    *)
Reach(r) ==
    {m \in Module : \A S \in SUBSET Module :
        (r \in S /\ \A x \in S : input[x].src.imports \subseteq S) => m \in S}

(* No module in reach of r imports itself through others.                  *)
Acyclic(r) ==
    \A m \in Reach(r) : \A i \in input[m].src.imports : m \notin Reach(i)

Init ==
    /\ input \in [Module -> Input]
    /\ program = [r \in Module |-> None]
    /\ built = None

Edit ==
    /\ input' \in [Module -> Input]
    /\ built' = None
    /\ UNCHANGED program

Begin == built' = None /\ UNCHANGED <<input, program>>

Build(r) ==
    /\ program' = [program EXCEPT ![r] = [m \in Reach(r) |-> input[m]]]
    /\ built' = r
    /\ UNCHANGED input

Next == Edit \/ Begin \/ \E r \in Root : Build(r)

Spec == Init /\ [][Next]_<<input, program, built>>
==============================================================================
