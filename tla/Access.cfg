\* The main Workspace has two files; the clock runs as far as one lease of a
\* session, two of the other registries.
SPECIFICATION AccessSpec
CONSTANTS
    Files = {i1, i2}
    Contents = {c1, c2}
    Unborn = Unborn
    Gone = Gone
    None = None
    MaxClock = 2
    MaxRevision = 2
    Windows = {w1}
    HandleIds = {h1}
    TransferIds = {n1, n2}
    InstanceTtl = 2
    HandleTtl = 2
    TransferTtl = 1
    MaxInstances = 1
    MaxHandles = 1
    MaxTransfers = 2
    Apps = {a1}
    SessionIds = {n1, n2}
    UseIds = {u1}
    LeaseTtl = 1
    MaxSessions = 2
    TargetApps = {i1, i2}
    LaunchIds = {n1, n2}
    LaunchTtl = 1
    MaxLaunches = 1
    Instances = {i1, i2}
    TicketIds = {n1, n2}
    SessionKeys = {n1, n2}
    TicketTtl = 1
    SessionIdle = 2
    MaxTickets = 1
    MaxBrowserSessions = 1
    NoRequest = NoRequest
    MaxTime = 3
    SessionClock = 1
SYMMETRY AccessSymmetry
INVARIANTS
    CapabilitiesInvariant
    SessionsInvariant
    LaunchesInvariant
    BrowserSessionsInvariant
PROPERTIES
    SavesReplaceTheirBase
    ExpiredLeaseIsNotRevived
CHECK_DEADLOCK FALSE
