\* One session whose lease ends while a save is on its way.
SPECIFICATION SessionsSpec
CONSTANTS
    Files = {f1}
    Contents = {c1, c2}
    Unborn = Unborn
    Gone = Gone
    None = None
    MaxClock = 2
    MaxRevision = 2
    Apps = {a1}
    SessionIds = {s1}
    UseIds = {u1}
    LeaseTtl = 1
    MaxSessions = 1
PROPERTIES
    PublishedSaveAdvancesItsSession
CHECK_DEADLOCK FALSE
