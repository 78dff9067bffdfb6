SPECIFICATION Spec
CONSTANT
    NFILES = 2
    FileObj = {f1, f2}
    Vnode = {"f", "d"}
    Kind <- MCKind
    PageSize = 2
    DirSlots = {0}
    MaxDirent = 2
    DirentSize = 2
    Counts = {2}
    Offsets <- MCOffsets
    Bytes = {"x", "y"}
    OFlags <- MCOFlags
    MaxRef = 2
    MaxPos = 3
VIEW View
SYMMETRY Symmetry
\* execve returns and a process may fault: those models stop
CHECK_DEADLOCK FALSE
INVARIANT ReferencesCounted
INVARIANT CallsEndClean
INVARIANT ExecAllOrNothing
INVARIANT MemoryPartitioned
PROPERTY JoinsOnlyFreeBlocks
PROPERTY ScreenFollowsTerminal
PROPERTY LeaksOnlyOnErrors
PROPERTY AccessConfined
