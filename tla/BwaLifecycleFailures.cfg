\* Two Runs, in the part "docker" one of them; constants of the part "torn".
CONSTANTS
    Workspaces = {w1}
    Applications = {a1}
    Instances = {i1}
    Digests = {d1}
    TheWorkspace = w1
    TheApplication = a1
    TheInstance = i1
    TheDigest = d1
    StopReasons = {"USER_STOP", "SAVE_RESTART", "HOST_SHUTDOWN", "EXITED"}
    Main = main
    None = None
    Runs = {r1, r2}
    MaxFid = 3
    MaxCrashes = 1
    DockerMayFail = FALSE
    CrashTearsRemoval = TRUE
    DaemonMayClose = FALSE
    Requests = {"USER_STOP", "SAVE_RESTART", "PUBLISH", "DISCARD"}

SPECIFICATION FailuresSpec
SYMMETRY Symmetry
INVARIANTS
    OneContainer
PROPERTIES
    UpperIsRemovedOnPurpose

\* A directory that is half removed keeps the daemon from starting again.
CHECK_DEADLOCK FALSE
