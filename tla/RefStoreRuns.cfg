CONSTANTS
    Workspaces = {w1}
    Runs = {r1, r2}
    Applications = {a1}
    Instances = {i1, i2}
    Digests = {d1, d2}
    StopReasons = {USER_STOP}
    Main = main
    None = None
    MaxFid = 4

SPECIFICATION Spec
SYMMETRY Symmetry
INVARIANTS
    InductiveInvariant
    UnresolvedRunPinsHead
    NoConflict
PROPERTIES
    UnresolvedRunIsKept
    ImplementsWorkspaceHistory
