CONSTANTS
    Workspaces = {w1}
    Applications = {a1}
    Instances = {i1}
    Digests = {d1}
    TheWorkspace = w1
    TheApplication = a1
    TheInstance = i1
    TheDigest = d1
    StopReasons = {"USER_STOP", "SAVE_RESTART", "HOST_SHUTDOWN", "EXITED"}
    Main = main
    None = None
    Runs = {r1}
    MaxFid = 3
    MaxCrashes = 0
    DockerMayFail = FALSE
    CrashTearsRemoval = FALSE
    DaemonMayClose = FALSE
    Requests = {"USER_STOP", "SAVE_RESTART", "OPEN", "PUBLISH", "DISCARD"}

SPECIFICATION LifecycleSpec

PROPERTIES
    AbnormalExitWaitsForTheOwner

\* Every Run id used, or a Run nothing can end: the bounded system stops.
CHECK_DEADLOCK FALSE
