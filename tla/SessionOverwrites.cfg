\* One session; somebody else writes the file between the publication of its
\* first save and the read-back, and the application saves again.
SPECIFICATION SavesSpec
CONSTANTS
    Files = {f1}
    Contents = {c1, c2}
    Unborn = Unborn
    Gone = Gone
    None = None
    MaxClock = 1
    MaxRevision = 3
    Apps = {a1}
    SessionIds = {s1}
    UseIds = {u1}
    LeaseTtl = 1
    MaxSessions = 1
PROPERTIES
    SaveReplacesWhatWasSeen
CHECK_DEADLOCK FALSE
