CONSTANTS
    R = R
    A = A
    M = M
    NoFile = NoFile
    NoJob = NoJob
    Module = {R, A, M}
    Root = {R}
    Decl = {"a", "b", "x", "y"}
    Shape = {0, 1}
    Body = {0, 1}
    Draft <- DraftGraph
    CModules = {}
    EnvModules = {}
    DirName = {"dir"}
    Disturbance = {"delete export", "interrupt"}
    Mode = {FALSE, TRUE}
    MaxClock = 1
SPECIFICATION Spec
INVARIANTS
    FreshFiles
    Settled
    HeadersFound
PROPERTIES
    PromiseKept
