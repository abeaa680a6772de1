SPECIFICATION ServicesSpec
CONSTANTS
    Instances = {i1, i2}
    Digests = {d1, d2}
    Updates = {u1, u2}
    None = None
    MaxRuns = 2

    EnvInstances = {i1}
    TheApp = TheApp
    Names = {n1}
    Calls = {c1, c2}
    NoScope = NoScope
INVARIANTS
    ImageUpdateInvariant
    EnvironmentInvariant
PROPERTIES
    StoppedIsRestarted
    EveryUpdateEnds
CHECK_DEADLOCK FALSE
