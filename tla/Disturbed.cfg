CONSTANTS
    R = R
    A = A
    M = M
    NoFile = NoFile
    NoJob = NoJob
    Module = {R, M}
    Root = {R, M}
    Decl = {"a", "b", "x", "y"}
    Shape = {0, 1}
    Body = {0, 1}
    Draft <- DraftAdditions
    CModules = {M}
    EnvModules = {}
    DirName = {"dir", "other"}
    Disturbance = {"interrupt", "remove C", "rename"}
    Mode = {FALSE}
    MaxClock = 1
SPECIFICATION Spec
INVARIANTS
    BuildInv
    ClientsSpared
