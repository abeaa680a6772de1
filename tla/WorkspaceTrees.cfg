SPECIFICATION MCSpec
CONSTANTS
    a = a
    A = A
    b = b
    z = z
    c1 = c1
    MaxEntry = 12
    Names = {a, A, b, z}
    LowerName = a
    UpperName = A
    Spare = b
    Contents = {c1, c2}
    None = None
    Refused = Refused
    Answered = Answered
    BaseTrees <- MCBaseTrees
    RunPaths <- MCRunPaths
    MaxEdits = 3
    MaxEntries = 5
    MaxDepth = 2
    MaxOperations = 3
    OddNames = {z}
    Crossed <- MCCrossed
    MainTrees <- MCMainTrees
    WorkspaceTrees <- MCExchangeTrees
    ExchangeIds = {x1}
    MaxMainRevision = 2
    MaxWorkspaceRevision = 2
    MaxRevisions = 2
INVARIANTS
    TreesInvariant
    CommittedTreeIsWhatTheRunLeft
    RefusedForCause
PROPERTIES
    AddedOnlyToAQuietWorkspace
    ExchangeCopiesWhatWasShown
    DiffDescribesTheWorkspace
CHECK_DEADLOCK FALSE
