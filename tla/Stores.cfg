SPECIFICATION StoresSpec
CONSTANTS
    MaxEntry = 5
    Names = {a, A, b}
    LowerName = a
    UpperName = A
    Contents = {c1, c2}
    EmptyFile = c1
    None = None
    Refused = Refused
    Clients = {x}
    Manager = Manager
    Tokens = {k1}
    RequestIds = {r1, r2}
    FirstTrees <- SmallTrees
    MaxRevision = 2
    Ended = Ended
    LockPaths <- OneLockPath

    Refs = {m1, m2}
    HeadIds = {h1, h2}
    FileContents = {f1}
    Large = {f1}
    Pieces = {p1}
    PiecesOf <- EqualPieces
    Writers = {w1}
    Absent = Absent

    AppIds = {m1, m2}
    Commits = {r1, r2}
    Inspections = {h1, h2}
    Requests = {q1, q2}
    Nil = Nil
SYMMETRY StoresSymmetry
INVARIANTS
    StoresInvariant
    HeadsAreComplete
    ProtectedHeadsAreReadable
    CandidatesAreGarbage
PROPERTIES
    NothingUnseenIsLost
    SelectionArrivesWhole
    WormholeAddsNoCaseConflict
    OtherRecordsAreKept
CHECK_DEADLOCK FALSE
