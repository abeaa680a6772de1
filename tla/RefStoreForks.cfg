CONSTANTS
    Workspaces = {w1, w2}
    Runs = {r1}
    Applications = {a1}
    Instances = {i1, i2}
    Digests = {d1}
    StopReasons = {}
    Main = main
    None = None
    MaxFid = 4

SPECIFICATION Spec
SYMMETRY Symmetry
INVARIANTS
    CommittedOutputFollowsInput
PROPERTIES
    LinearHistory
