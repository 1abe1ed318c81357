------------------------------ MODULE MCObncBuild ------------------------------
(***************************************************************************)
(* Small instances of ObncBuild: a root R, a client A and a server M.      *)
(***************************************************************************)
EXTENDS ObncBuild

CONSTANTS R, A, M

Text(imports, exports, shape, body) ==
    [imports |-> imports, exports |-> exports, mentions |-> {}, shape |-> shape,
     body |-> body]

(* The declarations of a text may mention those of M.                      *)
Mentioning(text) == [text EXCEPT !.mentions = {"x", "y"}]

(* Import lists that change, cycles among them.                            *)
DraftGraph ==
    [m \in Module |->
        CASE m = R -> {Text({A}, {}, 0, 0), Text({A, M}, {}, 0, 0)}
          [] m = A -> {Text({M}, {"a"}, 0, 0), Text({}, {"a"}, 0, 0), Text({R}, {"a"}, 0, 0)}
          [] m = M -> {Text({}, {"x"}, 0, 0), Text({A}, {"x"}, 0, 0)}]

(* A fixed import graph; M's exported declarations grow, shrink and        *)
(* change, and its body changes. What A exports is made with what M        *)
(* exports, and R imports M through A only.                                *)
DraftExports ==
    [m \in Module |->
        CASE m = R -> {Text(IF A \in Module THEN {A} ELSE {M}, {}, 0, 0)}
          [] m = A -> {Mentioning(Text({M}, {"a"}, 0, 0)),
                       Mentioning(Text({M}, {"b"}, 0, 0))}
          [] m = M -> {Text({}, {"x"}, 0, 0), Text({}, {"x", "y"}, 0, 0),
                       Text({}, {"y"}, 0, 0), Text({}, {"x"}, 0, 1)}]

(* Declarations to add to A and M, and an unexported field.                *)
DraftAdditions ==
    [m \in Module |->
        CASE m = R -> {Text({A, M} \cap Module, {}, 0, 0)}
          [] m = A -> {Text({M}, {"a"}, 0, 0), Text({M}, {"a", "b"}, 0, 0)}
          [] m = M -> {Text({}, {"x"}, 0, 0), Text({}, {"x", "y"}, 1, 0)}]

(* One text of R and A, two of M.                                          *)
DraftChain ==
    [m \in Module |->
        CASE m = R -> {Text({A}, {}, 0, 0)}
          [] m = A -> {Text({M}, {"a"}, 0, 0)}
          [] m = M -> {Text({}, {"x"}, 0, 0), Text({}, {"y"}, 0, 0)}]

(* Two programs R and A that share the server M, and nothing else changes. *)
DraftShared ==
    [m \in Module |->
        CASE m \in {R, A} -> {Text({M}, {}, 0, 0)}
          [] m = M -> {Text({}, {"x"}, 0, 0), Text({}, {"y"}, 0, 0)}]

(* The instances that the limits of ClientsAgree and ClientsSpared admit.  *)
ASSUME LimitsAssumption ==
    /\ Draft = DraftExports => OneProgram /\ FixedLayout
    /\ Draft \in {DraftGraph, DraftAdditions} => GrowingMentions
================================================================================
