CONSTANTS
    p = p
    q = q
    v = v
    RecordType <- RecordTypes4
    Chain <- Chains
    Pointer = {p, q}
    Param = {p}
    PointerType <- PointerTypes
    RecordVar = {v}
    RecordVarType <- RecordVarTypes
    Heap = {1}
    LateGuards = FALSE
    MaxDepth = 2
    NoType = NoType
    NIL = NIL
    Variable = {p, q}
    VariableType <- VariableTypes
    Selectors <- NoneOrField
    CharBits = 2
    RangeLenMax = 2
    MaxCases = 2
    MaxTypeCases = 1
    MaxRanges = 2
    None = None
    Module = {"M", "A", "C"}
    Symbol = {"t", "u"}
    Declaring <- Declarings
    ImportLists <- Imports
    MaxMentions <- Mentions
    MaxLevels = 4
    Own = "own"
    NoSym = NoSym
    NoExport = NoExport
    IntBits = 4
    IntMax = 7
    CIntBits = 4
    CIntMax = 7
    MaxOperations = 2
    Undefined = Undefined
    ArrayVar = {"table", "line"}
    ArrayVarType <- Arrays2
    Literal = {"s"}
    LiteralLength <- OneCharacter
    Procedure = {"copy", "show", "matrix", "table", "row"}
    Formals <- Procedures5
    ProcedureVar = {"show"}
    VarFormals <- StringProcedure
    IndexValue <- Around0
    MaxCalls = 2
    ArrayUsage = {}
    Open = Open
    NoProcedure = NoProcedure
    Directory = {"home", "path", "foo", "lib"}
    ModuleName = {"main", "Util", "fooApi", "Input", "Input0"}
    Home = "home"
    Below <- Below4
    Prefix <- ModulePrefixes
    SearchEntry <- Entries
    DirPrefix <- DirPrefixes
    InstalledImports <- InstalledInput
    Draft <- DraftsAt
    Root = {"main"}
    PathUsage = {}
    Nowhere = Nowhere
    NoFile = NoFile
    StringVar = {"a", "b"}
    StringSize <- Sizes2
    Letter = {1, 2}
    Capital <- LastLetter
    StringUsage = {}
    Outside = Outside
    NoCall = NoCall
    GroupBits = 2
    NumBits = 6
    NumCBits = 6
    MaxNumbers = 2
    Garbage = Garbage
SPECIFICATION Spec
CHECK_DEADLOCK FALSE
INVARIANTS
    ProductsWarned
