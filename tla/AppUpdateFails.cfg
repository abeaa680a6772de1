\* An application is installed, and its update outlasts the inspection.
SPECIFICATION InstalledAppsSpec
CONSTANTS
    AppIds = {a1}
    Commits = {c1, c2}
    Inspections = {n1, n2}
    Requests = {r1}
    Nil = Nil
PROPERTIES
    FailedUpdateKeepsTheCommit
CHECK_DEADLOCK FALSE
