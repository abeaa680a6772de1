CONSTANTS
    Workspaces = {w1}
    Applications = {a1}
    Instances = {i1}
    Digests = {d1}
    TheWorkspace = w1
    TheApplication = a1
    TheInstance = i1
    TheDigest = d1
    StopReasons = {"USER_STOP", "SAVE_RESTART", "HOST_SHUTDOWN", "EXITED"}
    Main = main
    None = None
    Runs = {r1}
    MaxFid = 3
    MaxCrashes = 1
    DockerMayFail = FALSE
    CrashTearsRemoval = FALSE
    DaemonMayClose = TRUE
    Requests = {"USER_STOP", "SAVE_RESTART", "OPEN", "PUBLISH", "DISCARD"}

SPECIFICATION FairLifecycle
INVARIANTS
    LifecycleInvariant
    CommitScansAQuietUpper
PROPERTIES
    RecoveryReachesAVerdict
    OperationsEnd
    ExitIsFinalized
    CommitIsDecided
    DaemonComesBack
