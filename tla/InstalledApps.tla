---------------------------- MODULE InstalledApps ----------------------------
(***************************************************************************)
(* Static applications of the desktop.  An inspection downloads a          *)
(* repository into staging and remembers it, in memory, until it expires   *)
(* (InspectionService).  Install and update move the staged directory into *)
(* apps/<app>/<commit> and then write the record that makes it visible;    *)
(* patch and uninstall change the record (AppService).  These four run     *)
(* under one lock; inspections run beside them.                            *)
(***************************************************************************)
EXTENDS Naturals, FiniteSets

CONSTANTS
    AppIds,       \* applications
    Commits,      \* commits of their repositories
    Inspections,  \* ids of inspections, each used once: the bound of their number
    Requests,     \* requests for install, update, patch or uninstall
    Nil

ASSUME InstalledAppsAssumption == Nil \notin AppIds \cup Commits \cup Inspections

VARIABLES
    records,      \* installed-apps.json
    versions,     \* apps/<app>/<commit>: absent, whole, or missing some files
    staging,      \* staging/<inspection>
    inspected,    \* the inspections in memory
    expired,      \* ids of those whose half hour is over
    call,         \* per request: what it does and how far it is
    removing,     \* staging directories an rm is at work on
    late          \* history: applications moved in after their inspection expired

appVars == <<records, versions, staging, inspected, expired, call, removing, late>>

Directory == {"absent", "torn", "whole"}
Record    == [commit : Commits, status : {"active", "disabled"}]
Inspected == [app : AppIds, commit : Commits, operation : {"install", "update"}]

\* id, from: the inspection a request uses; apps: the state file as it read it.
\* A call that has been answered makes way for the next one.
RequestRows == [kind : {"install", "update", "patch", "uninstall"},
                step : {"none", "failed", "read", "move", "write", "undo", "consume", "trash"},
                app : AppIds \cup {Nil}, id : Inspections \cup {Nil},
                from : Inspected \cup {Nil}, apps : [AppIds -> Record \cup {Nil}]]
NothingInstalled == [a \in AppIds |-> Nil]
NewRequest == [kind |-> "patch", step |-> "none", app |-> Nil, id |-> Nil, from |-> Nil,
               apps |-> NothingInstalled]

InstalledAppsInit ==
    /\ records = NothingInstalled
    /\ versions = [a \in AppIds |-> [c \in Commits |-> "absent"]]
    /\ staging = [n \in Inspections |-> "unused"]
    /\ inspected = [n \in Inspections |-> Nil]
    /\ expired = {}
    /\ call = [r \in Requests |-> NewRequest]
    /\ removing = {}
    /\ late = {}
-----------------------------------------------------------------------------
(***************************************************************************)
(* InspectionService                                                       *)
(***************************************************************************)

Valid(n) == inspected[n] # Nil /\ n \notin expired

\* GitHubSource.prepare: fetch the archive of a commit and unpack it.
Prepare(n) == staging[n] = "unused" /\ staging' = [staging EXCEPT ![n] = "whole"]

\* create, when the repository passes: prepare, scan, validate, and look up
\* what is installed.  A failure on the way removes the directory again.
Inspect(n, a, c) ==
    /\ Prepare(n)
    /\ inspected' = [inspected EXCEPT ![n] =
          [app |-> a, commit |-> c,
           operation |-> IF records[a] = Nil THEN "install" ELSE "update"]]
    /\ UNCHANGED <<records, versions, call, removing, late, expired>>

Expire(n) ==
    /\ n \notin expired
    /\ inspected[n] # Nil \/ \E r \in Requests : call[r].id = n
    /\ expired' = expired \cup {n}
    /\ UNCHANGED <<records, versions, staging, inspected, call, removing, late>>

Expired == {n \in Inspections : inspected[n] # Nil /\ ~Valid(n)}

\* cleanupExpired, the first thing a create does: forget, then rm.
CleanupExpired ==
    /\ Expired # {}
    /\ inspected' = [n \in Inspections |-> IF n \in Expired THEN Nil ELSE inspected[n]]
    /\ removing' = removing \cup Expired
    /\ UNCHANGED <<records, versions, staging, call, late, expired>>

\* rm deletes file by file, and takes a directory that was moved away as gone.
RemoveStaging(n) ==
    /\ n \in removing
    /\ \/ /\ staging[n] = "whole"
          /\ staging' = [staging EXCEPT ![n] = "torn"]
          /\ UNCHANGED removing
       \/ /\ staging' = [staging EXCEPT ![n] = "absent"]
          /\ removing' = removing \ {n}
    /\ UNCHANGED <<records, versions, inspected, call, late, expired>>
-----------------------------------------------------------------------------
(***************************************************************************)
(* AppService: the operations under the OperationLock                      *)
(***************************************************************************)

Busy(r) == call[r].step \notin {"none", "failed"}

\* Mutant of LockIsFree: an operation does not wait for the one before it.
LockIsNeverTaken == TRUE

LockIsFree == \A r \in Requests : ~Busy(r)

Commit(r)     == call[r].from.commit
Goto(r, step) == call' = [call EXCEPT ![r].step = step]
Done(r)       == call' = [call EXCEPT ![r] = NewRequest]
Fail(r)       == call' = [call EXCEPT ![r] = [NewRequest EXCEPT !.step = "failed"]]
IsInstallOrUpdate(r) == call[r].kind \in {"install", "update"}

\* get: an inspection that expired is forgotten, and its directory stays.
UseInspection(r, n, kind) ==
    /\ ~Busy(r) /\ LockIsFree /\ inspected[n] # Nil
    /\ IF Valid(n)
       THEN /\ IF inspected[n].operation = kind
               THEN call' = [call EXCEPT ![r] =
                       [NewRequest EXCEPT !.kind = kind, !.app = inspected[n].app, !.id = n,
                                          !.from = inspected[n], !.step = "read"]]
               ELSE Fail(r)
            /\ UNCHANGED inspected
       ELSE Fail(r) /\ inspected' = [inspected EXCEPT ![n] = Nil]
    /\ UNCHANGED <<records, versions, staging, removing, late, expired>>

UseRecord(r, a, kind) ==
    /\ ~Busy(r) /\ LockIsFree
    /\ call' = [call EXCEPT ![r] = [NewRequest EXCEPT !.kind = kind, !.app = a, !.step = "read"]]
    /\ UNCHANGED <<records, versions, staging, inspected, removing, late, expired>>

\* What an operation asks of the record of its application.
Accepts(r, record) ==
    CASE call[r].kind = "install" -> record = Nil
      [] call[r].kind = "update"  -> record # Nil /\ record.commit # Commit(r)
      [] OTHER                       -> record # Nil

ReadRecords(r) ==
    /\ call[r].step = "read"
    /\ IF Accepts(r, records[call[r].app])
       THEN call' = [call EXCEPT ![r].step = IF IsInstallOrUpdate(r) THEN "move" ELSE "write",
                                 ![r].apps = records]
       ELSE Fail(r)
    /\ UNCHANGED <<records, versions, staging, inspected, removing, late, expired>>

\* Mutant of MoveFiles: a rename that fails is passed over.
MoveFilesIfAny(r) ==
    LET a == call[r].app
        n == call[r].id
        moves == staging[n] # "absent" /\ versions[a][Commit(r)] = "absent"
    IN  /\ call[r].step = "move"
        /\ IF moves
           THEN /\ versions' = [versions EXCEPT ![a][Commit(r)] = staging[n]]
                /\ staging' = [staging EXCEPT ![n] = "absent"]
                /\ late' = IF n \in expired THEN late \cup {a} ELSE late
                /\ Goto(r, "write")
           ELSE Goto(r, "write") /\ UNCHANGED <<versions, staging, late>>
        /\ UNCHANGED <<records, inspected, removing, expired>>

\* rename, onto a directory that must not be there: one of an earlier install
\* of the commit makes it fail.
MoveFiles(r) ==
    LET a == call[r].app
        n == call[r].id
        moves == staging[n] # "absent" /\ versions[a][Commit(r)] = "absent"
    IN  /\ call[r].step = "move"
        /\ IF moves
           THEN /\ versions' = [versions EXCEPT ![a][Commit(r)] = staging[n]]
                /\ staging' = [staging EXCEPT ![n] = "absent"]
                /\ late' = IF n \in expired THEN late \cup {a} ELSE late
                /\ Goto(r, "write")
           ELSE Fail(r) /\ UNCHANGED <<versions, staging, late>>
        /\ UNCHANGED <<records, inspected, removing, expired>>

\* The new record; an update keeps the status, a patch sets it.
NewRecords(r) ==
    LET old == call[r].apps[call[r].app]
    IN  CASE call[r].kind = "install" -> {[commit |-> Commit(r), status |-> "active"]}
          [] call[r].kind = "update"  -> {[old EXCEPT !.commit = Commit(r)]}
          [] call[r].kind = "patch"   -> {[old EXCEPT !.status = s] : s \in {"active", "disabled"}}
          [] OTHER                       -> {Nil}

\* AppStore.write replaces the whole file, or fails, and then the files of the
\* version are removed.
WriteRecords(r) ==
    /\ call[r].step = "write"
    /\ \/ /\ \E record \in NewRecords(r) :
                records' = [call[r].apps EXCEPT ![call[r].app] = record]
          /\ CASE IsInstallOrUpdate(r) -> Goto(r, "consume")
               [] call[r].kind = "patch" -> Done(r)
               [] OTHER -> Goto(r, "trash")
          /\ UNCHANGED versions
       \/ /\ IF IsInstallOrUpdate(r)
             THEN /\ versions' = [versions EXCEPT ![call[r].app][Commit(r)] = "torn"]
                  /\ Goto(r, "undo")
             ELSE Fail(r) /\ UNCHANGED versions
          /\ UNCHANGED records
    /\ UNCHANGED <<staging, inspected, removing, late, expired>>

RemoveVersion(r) ==
    /\ call[r].step = "undo"
    /\ versions' = [versions EXCEPT ![call[r].app][Commit(r)] = "absent"]
    /\ Fail(r)
    /\ UNCHANGED <<records, staging, inspected, removing, late, expired>>

\* consume gets the inspection again, which throws when it expired meanwhile:
\* the request fails, and the record stays written.
Consume(r) ==
    LET n == call[r].id
    IN  /\ call[r].step = "consume"
        /\ inspected' = [inspected EXCEPT ![n] = Nil]
        /\ IF Valid(n)
           THEN staging' = [staging EXCEPT ![n] = "absent"] /\ Done(r)
           ELSE Fail(r) /\ UNCHANGED staging
        /\ UNCHANGED <<records, versions, removing, late, expired>>

\* The whole directory of the application, as far as the rename succeeds.
MoveToTrash(r) ==
    /\ call[r].step = "trash"
    /\ \/ versions' = [versions EXCEPT ![call[r].app] = [c \in Commits |-> "absent"]]
       \/ UNCHANGED versions
    /\ Done(r)
    /\ UNCHANGED <<records, staging, inspected, removing, late, expired>>

\* The server stops and starts: the directories and the records are what is left.
Restart ==
    /\ inspected' = [n \in Inspections |-> Nil]
    /\ removing' = {}
    /\ call' = [r \in Requests |-> NewRequest]
    /\ UNCHANGED <<records, versions, staging, late, expired>>

InstalledAppsNext ==
    \/ \E n \in Inspections, a \in AppIds, c \in Commits : Inspect(n, a, c)
    \/ CleanupExpired \/ \E n \in Inspections : Expire(n) \/ RemoveStaging(n)
    \/ \E r \in Requests :
          \/ \E n \in Inspections, kind \in {"install", "update"} : UseInspection(r, n, kind)
          \/ \E a \in AppIds, kind \in {"patch", "uninstall"} : UseRecord(r, a, kind)
          \/ ReadRecords(r) \/ MoveFiles(r) \/ WriteRecords(r) \/ RemoveVersion(r)
          \/ Consume(r) \/ MoveToTrash(r)
    \/ Restart

InstalledAppsSpec == InstalledAppsInit /\ [][InstalledAppsNext]_appVars
-----------------------------------------------------------------------------
AppsTypeOK ==
    /\ records \in [AppIds -> Record \cup {Nil}]
    /\ versions \in [AppIds -> [Commits -> Directory]]
    /\ staging \in [Inspections -> Directory \cup {"unused"}]
    /\ inspected \in [Inspections -> Inspected \cup {Nil}]
    /\ call \in [Requests -> RequestRows]
    /\ removing \subseteq Inspections /\ expired \subseteq Inspections /\ late \subseteq AppIds

VersionOf(a) == versions[a][records[a].commit]

(***************************************************************************)
(* The record is written after the files are in place and removed before   *)
(* they go, so an application that is installed has the directory of its   *)
(* commit, after any failure or restart (install, update, uninstall).      *)
(***************************************************************************)
InstalledAppHasFiles == \A a \in AppIds : records[a] # Nil => VersionOf(a) # "absent"

(***************************************************************************)
(* Nothing of them is missing, unless they were moved in after their       *)
(* inspection had expired, when a cleanup may be removing them (install,   *)
(* InspectionService.cleanupExpired).                                      *)
(***************************************************************************)
OnlyALateInstallIsTorn ==
    \A a \in AppIds : records[a] # Nil /\ VersionOf(a) = "torn" => a \in late

(***************************************************************************)
(* An operation writes the whole state file from what it read, and no      *)
(* other application's record is lost (OperationLock).                     *)
(***************************************************************************)
OtherRecordsAreKept ==
    [][\A a \in AppIds : records'[a] # records[a] =>
          \E r \in Requests : call[r].app = a /\ call'[r].step # call[r].step]_appVars

(***************************************************************************)
(* The V0.2 design says of an update that a failure does not change the    *)
(* current commit: one that answers with an error left the record as it    *)
(* was.                                                                    *)
(***************************************************************************)
FailedUpdateKeepsTheCommit ==
    [][\A r \in Requests :
          call[r].kind = "update" /\ call[r].step \in {"move", "undo", "consume"}
          /\ call'[r].step = "failed" =>
              records'[call[r].app] = call[r].apps[call[r].app]]_appVars
-----------------------------------------------------------------------------
(***************************************************************************)
(* What the proofs need to know of the request that holds the lock: the    *)
(* state file is as it read it until it writes it, and the directory that  *)
(* its failure removes is of no record.                                    *)
(***************************************************************************)
FilesAreIn(r) ==
    /\ versions[call[r].app][Commit(r)] # "absent"
    /\ versions[call[r].app][Commit(r)] = "torn" => call[r].app \in late

RequestIsInOrder(r) ==
    LET record == records[call[r].app]
    IN  /\ call[r].app \in AppIds
        /\ IsInstallOrUpdate(r) => /\ call[r].id \in Inspections /\ call[r].from \in Inspected
                                   /\ staging[call[r].id] # "unused"
        /\ call[r].step \in {"move", "undo", "consume"} => IsInstallOrUpdate(r)
        /\ call[r].step \in {"move", "write"} => call[r].apps = records /\ Accepts(r, record)
        /\ call[r].step = "write" /\ IsInstallOrUpdate(r) => FilesAreIn(r)
        /\ call[r].step = "undo" => record = Nil \/ record.commit # Commit(r)
        /\ call[r].step = "trash" => record = Nil

RequestsAreInOrder ==
    /\ \A q, r \in Requests : Busy(q) /\ Busy(r) => q = r
    /\ \A r \in Requests : Busy(r) => RequestIsInOrder(r)

\* A staged directory loses files only after its inspection expired.
OnlyTheExpiredIsTorn ==
    /\ removing \subseteq expired
    /\ \A n \in Inspections : /\ inspected[n] # Nil => staging[n] # "unused"
                              /\ staging[n] = "torn" => n \in expired

\* The inductive invariant.
AppsInductive ==
    /\ AppsTypeOK /\ InstalledAppHasFiles /\ OnlyALateInstallIsTorn
    /\ RequestsAreInOrder /\ OnlyTheExpiredIsTorn
=============================================================================
