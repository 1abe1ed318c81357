CONSTANTS
    R = R
    A = A
    M = M
    NoFile = NoFile
    NoJob = NoJob
    Module = {R, A, M}
    Root = {R, A}
    Decl = {"a", "b", "x", "y"}
    Shape = {0, 1}
    Body = {0, 1}
    Draft <- DraftGraph
    CModules = {}
    EnvModules = {}
    DirName = {"dir"}
    Disturbance = {"delete export"}
    Mode = {FALSE}
    MaxClock = 1
SPECIFICATION FairSpec
INVARIANTS
    NoImportCycle
    ImportsFirst
    LinksClean
PROPERTIES
    FailsForCycles
    Terminates
