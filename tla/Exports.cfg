CONSTANTS
    R = R
    A = A
    M = M
    NoFile = NoFile
    NoJob = NoJob
    Module = {R, A, M}
    Root = {R}
    Decl = {"a", "b", "x", "y"}
    Shape = {0, 1}
    Body = {0, 1}
    Draft <- DraftExports
    CModules = {M}
    EnvModules = {A}
    DirName = {"dir"}
    Disturbance = {"delete export", "slow build"}
    Mode = {FALSE}
    MaxClock = 2
SPECIFICATION Spec
INVARIANTS
    ClientsAgree
    MadeOfPresentInputs
