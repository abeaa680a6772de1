------------------------------ MODULE RefStore ------------------------------
(***************************************************************************)
(* The SQLite control database of Biunivers (server/files/sqliteRefStore). *)
(*                                                                         *)
(* Two processes share it: the Desktop Server, which holds the Workspace   *)
(* Application manager and the File Service, and the Compute Runtime       *)
(* daemon.  Every public method of SqliteRefStore is one synchronous       *)
(* SQLite transaction, so every method is one action here.  What is NOT    *)
(* atomic is the read a caller makes before it calls: a caller reads a Ref,*)
(* awaits object-store traffic, and only then asks for a compare-and-swap. *)
(* The actions therefore take the version the caller saw as a parameter,   *)
(* and Next lets that be ANY version the Ref ever had.                     *)
(*                                                                         *)
(* Content is abstracted to FIDs.  A head object embeds its base head, its *)
(* revision and a random transaction id, so a newly built head never       *)
(* equals an older one: heads are numbered in the order they are built.    *)
(***************************************************************************)
EXTENDS Integers, FiniteSets

CONSTANTS
    Workspaces,     \* Workspace ids; the Ref id ws-<id> is derived from it
    Runs,           \* Workspace Run ids
    Applications,   \* BWA application ids
    Instances,      \* BWA instance ids
    Digests,        \* OCI image digests
    StopReasons,    \* USER_STOP, SAVE_RESTART, HOST_SHUTDOWN, EXITED
    Main,           \* the Ref of the owner's own file system
    None,           \* SQL NULL in an id column
    MaxFid          \* bound: how many head objects are ever built

ASSUME BoundIsPositive == MaxFid \in Nat \ {0}

VARIABLES
    refs,           \* filesystem_refs, with the base each head object names
    published,      \* history: every version a Ref has had
    lastFid,        \* the newest head object built
    leases,         \* workspace_records.active_write_run_id
    runs,           \* workspace_runs joined with bwa_run_bindings
    applications,   \* bwa_applications
    instances       \* bwa_instances

storeVars == <<refs, published, lastFid, leases, runs, applications, instances>>
-----------------------------------------------------------------------------
RefIds == Workspaces \cup {Main}

NoFid == 0
Fid   == Nat \ {NoFid}

Version == [head : Fid, revision : Nat]
RefRow  == [head : Nat, base : Nat, revision : Nat]
NoRef   == [head |-> NoFid, base |-> NoFid, revision |-> 0]

RefExists(ref) == refs[ref].head # NoFid
Current(ref)   == [head |-> refs[ref].head, revision |-> refs[ref].revision]

RunState   == {"PREPARING", "RUNNING", "STOPPED", "COMMITTING",
               "COMMITTED", "CONFLICT", "FAILED", "DISCARDED"}

RunRow == [state      : RunState \cup {None},
           workspace  : Workspaces \cup {None},
           inputHead  : Nat,
           outputHead : Nat,
           instance   : Instances \cup {None},
           digest     : Digests \cup {None},
           stopReason : StopReasons \cup {None}]
ASSUME NamesAreDistinct ==
    /\ Main \notin Workspaces
    /\ None \notin Workspaces \cup Runs \cup Applications \cup Instances
                     \cup Digests \cup StopReasons \cup RunState \cup {Main}

NoRun == [state |-> None, workspace |-> None, inputHead |-> NoFid,
          outputHead |-> NoFid, instance |-> None, digest |-> None,
          stopReason |-> None]

ApplicationRow == [digest : Digests \cup {None}, previous : Digests \cup {None},
                   enabled : BOOLEAN, default : Instances \cup {None}]
NoApplication  == [digest |-> None, previous |-> None, enabled |-> FALSE,
                   default |-> None]

InstanceRow == [application : Applications \cup {None},
                workspace   : Workspaces \cup {None},
                desired     : {"STOPPED", "RUNNING"}]
NoInstance  == [application |-> None, workspace |-> None, desired |-> "STOPPED"]

IsTerminal(state)   == state \in {"COMMITTED", "CONFLICT", "FAILED", "DISCARDED"}
OpenStates          == {"PREPARING", "RUNNING", "STOPPED", "COMMITTING"}
IsUnresolved(state) == state \in OpenStates \cup {"CONFLICT", "FAILED"}

\* The state machine transitionWorkspaceRun accepts.
AllowedRunTransition ==
    ({"PREPARING"}  \X {"RUNNING", "FAILED", "DISCARDED"}) \cup
    ({"RUNNING"}    \X {"STOPPED", "FAILED"}) \cup
    ({"STOPPED"}    \X {"COMMITTING", "FAILED", "DISCARDED"}) \cup
    ({"COMMITTING"} \X {"CONFLICT", "FAILED"})

\* The part of it some caller asks for (managedComputeRuntime,
\* controlRunRecovery, bwaHostRecovery, bwaLifecycleService,
\* workspaceCommitCoordinator).
RequestedRunTransition ==
    {<<"PREPARING", "RUNNING">>, <<"RUNNING", "STOPPED">>,
     <<"STOPPED", "COMMITTING">>} \cup (OpenStates \X {"FAILED"})

RunsOf(w)         == {r \in Runs : runs[r].workspace = w}
BindingsOf(i)     == {r \in Runs : runs[r].instance = i}
InstancesOf(a)    == {i \in Instances : instances[i].application = a}
InstanceExists(i) == instances[i].application # None
-----------------------------------------------------------------------------
Init ==
    /\ refs = [ref \in RefIds |->
                 IF ref = Main THEN [NoRef EXCEPT !.head = 1] ELSE NoRef]
    /\ published = [ref \in RefIds |->
                 IF ref = Main THEN {[head |-> 1, revision |-> 0]} ELSE {}]
    /\ lastFid = 1
    /\ leases = [w \in Workspaces |-> None]
    /\ runs = [r \in Runs |-> NoRun]
    /\ applications = [a \in Applications |-> NoApplication]
    /\ instances = [i \in Instances |-> NoInstance]
-----------------------------------------------------------------------------
(***************************************************************************)
(* Refs and Workspaces                                                     *)
(***************************************************************************)

\* A writer has built and uploaded the head it now wants to publish.
NewHead   == lastFid + 1
BuildHead == lastFid < MaxFid /\ lastFid' = NewHead

\* Mutant of AdvanceRef: the WHERE clause is gone, the last writer wins.
AdvanceAnyRef(ref, seen) ==
    LET next == [head |-> NewHead, revision |-> seen.revision + 1]
    IN  /\ refs' = [refs EXCEPT ![ref] = [head |-> next.head, base |-> seen.head,
                                          revision |-> next.revision]]
        /\ published' = [published EXCEPT ![ref] = @ \cup {next}]

\* Mutant of AdvanceRef: the new row keeps the old revision.
AdvanceRefKeepingRevision(ref, seen) ==
    LET next == [head |-> NewHead, revision |-> seen.revision]
    IN  /\ Current(ref) = seen
        /\ refs' = [refs EXCEPT ![ref].head = next.head, ![ref].base = seen.head]
        /\ published' = [published EXCEPT ![ref] = @ \cup {next}]

\* The UPDATE ... WHERE head_fid = ? AND revision = ? that every publication
\* ends in: it changes a row only if the Ref still is what the writer saw.
AdvanceRef(ref, seen) ==
    LET next == [head |-> NewHead, revision |-> seen.revision + 1]
    IN  /\ Current(ref) = seen
        /\ refs' = [refs EXCEPT ![ref] = [head |-> next.head, base |-> seen.head,
                                          revision |-> next.revision]]
        /\ published' = [published EXCEPT ![ref] = @ \cup {next}]

\* FileSystemTransactions on main: every change the owner makes to files.
CompareAndSwap(ref, seen) ==
    /\ RefExists(ref)
    /\ BuildHead
    /\ AdvanceRef(ref, seen)
    /\ UNCHANGED <<leases, runs, applications, instances>>

\* Mutants of WritableWorkspace: one of its two checks is missing.
WritableDespiteFailedRun(w) == RefExists(w) /\ leases[w] = None
WritableDespiteLease(w) ==
    RefExists(w) /\ \A r \in RunsOf(w) : runs[r].state \notin {"FAILED", "CONFLICT"}

WritableWorkspace(w) ==
    /\ RefExists(w)
    /\ leases[w] = None
    /\ \A r \in RunsOf(w) : runs[r].state \notin {"FAILED", "CONFLICT"}

\* workspaceContentImportService copies main entries into a Workspace that no
\* Run is using, guarded by the version of main its plan was made from.
CompareAndSwapGuarded(w, seen, guard) ==
    /\ WritableWorkspace(w)
    /\ Current(Main) = guard
    /\ BuildHead
    /\ AdvanceRef(w, seen)
    /\ UNCHANGED <<leases, runs, applications, instances>>

\* A Workspace is born with a Ref of its own: a fresh genesis head for a
\* derived or blank one, the source's head and revision for a fork.
NewWorkspace(w, source, seenHead, fork) ==
    /\ ~RefExists(w)
    /\ RefExists(source)
    /\ refs[source].head = seenHead
    /\ leases' = [leases EXCEPT ![w] = None]
    /\ IF fork
         THEN /\ refs' = [refs EXCEPT ![w] = refs[source]]
              /\ published' = [published EXCEPT ![w] = {Current(source)}]
              /\ UNCHANGED lastFid
         ELSE /\ BuildHead
              /\ refs' = [refs EXCEPT ![w] = [NoRef EXCEPT !.head = NewHead]]
              /\ published' = [published EXCEPT
                    ![w] = {[head |-> NewHead, revision |-> 0]}]

CreateWorkspace(w, source, seenHead) ==
    /\ NewWorkspace(w, source, seenHead, FALSE)
    /\ UNCHANGED <<runs, applications, instances>>

\* The INSERT of createBwaInstance: the Workspace column is UNIQUE, and the
\* first Instance of an Application becomes its default.
NewInstance(i, a, w) ==
    /\ applications[a].digest # None
    /\ ~InstanceExists(i)
    /\ \A j \in Instances : instances[j].workspace # w
    /\ instances' = [instances EXCEPT ![i] =
          [application |-> a, workspace |-> w, desired |-> "STOPPED"]]
    /\ applications' = [applications EXCEPT ![a].default =
          IF @ = None THEN i ELSE @]

\* fork checks that the Application is enabled in the same turn; the blank
\* creator checked it before it built the genesis objects.
CreateWorkspaceWithBwaInstance(w, source, seenHead, fork, i, a) ==
    /\ fork => applications[a].enabled
    /\ NewWorkspace(w, source, seenHead, fork)
    /\ NewInstance(i, a, w)
    /\ UNCHANGED runs

\* Mutant of DeleteWorkspace: nobody asks whether an Instance still uses it.
DeleteUsedWorkspace(w) ==
    /\ RefExists(w)
    /\ leases[w] = None
    /\ runs' = [r \in Runs |-> IF r \in RunsOf(w) THEN NoRun ELSE runs[r]]
    /\ refs' = [refs EXCEPT ![w] = NoRef]
    /\ published' = [published EXCEPT ![w] = {}]
    /\ UNCHANGED <<lastFid, leases, applications, instances>>

\* The runs, their bindings, the record and the Ref go in one transaction.
DeleteWorkspace(w) ==
    /\ RefExists(w)
    /\ leases[w] = None
    /\ \A i \in Instances : instances[i].workspace # w
    /\ runs' = [r \in Runs |-> IF r \in RunsOf(w) THEN NoRun ELSE runs[r]]
    /\ refs' = [refs EXCEPT ![w] = NoRef]
    /\ published' = [published EXCEPT ![w] = {}]
    /\ UNCHANGED <<lastFid, leases, applications, instances>>
-----------------------------------------------------------------------------
(***************************************************************************)
(* Workspace Runs                                                          *)
(***************************************************************************)

\* createWorkspaceRun inside createBwaWorkspaceRun, its only caller.
CreateBwaWorkspaceRun(r, i) ==
    LET w == instances[i].workspace
        a == instances[i].application
    IN  /\ InstanceExists(i)
        /\ applications[a].enabled
        /\ \A q \in BindingsOf(i) : ~IsUnresolved(runs[q].state)
        /\ leases[w] = None
        /\ runs[r] = NoRun
        /\ runs' = [runs EXCEPT ![r] =
              [NoRun EXCEPT !.state = "PREPARING", !.workspace = w,
                            !.inputHead = refs[w].head, !.instance = i,
                            !.digest = applications[a].digest]]
        /\ leases' = [leases EXCEPT ![w] = r]
        /\ instances' = [instances EXCEPT ![i].desired = "RUNNING"]
        /\ UNCHANGED <<refs, published, lastFid, applications>>

OwnsLease(r) == leases[runs[r].workspace] = r

ReleaseLease(r) == leases' = [leases EXCEPT ![runs[r].workspace] = None]

TransitionWorkspaceRun(r, expected, new) ==
    /\ runs[r].state = expected
    /\ <<expected, new>> \in AllowedRunTransition
    /\ OwnsLease(r)
    /\ runs' = [runs EXCEPT ![r].state = new]
    /\ IF IsTerminal(new) THEN ReleaseLease(r) ELSE UNCHANGED leases
    /\ UNCHANGED <<refs, published, lastFid, applications, instances>>

\* publishFailedUpper's first step: take the lease back, if the Workspace is
\* still at the head the Run started from.
ReopenFailedWorkspaceRun(r) ==
    LET w == runs[r].workspace
    IN  /\ runs[r].state = "FAILED"
        /\ leases[w] = None
        /\ refs[w].head = runs[r].inputHead
        /\ leases' = [leases EXCEPT ![w] = r]
        /\ runs' = [runs EXCEPT ![r].state = "STOPPED"]
        /\ UNCHANGED <<refs, published, lastFid, applications, instances>>

DiscardFailedWorkspaceRun(r) ==
    /\ runs[r].state = "FAILED"
    /\ leases[runs[r].workspace] = None
    /\ runs' = [runs EXCEPT ![r].state = "DISCARDED"]
    /\ UNCHANGED <<refs, published, lastFid, leases, applications, instances>>

\* Publish the head built on the Run's input, or report a conflict and leave
\* the Ref alone.  Either way the Run is over and the lease is free.
CommitWorkspaceRun(r, seen) ==
    LET w == runs[r].workspace
    IN  /\ runs[r].state = "COMMITTING"
        /\ runs[r].inputHead = seen.head
        /\ OwnsLease(r)
        /\ BuildHead
        /\ \/ /\ AdvanceRef(w, seen)
              /\ runs' = [runs EXCEPT ![r].state = "COMMITTED",
                                      ![r].outputHead = NewHead]
           \/ /\ Current(w) # seen
              /\ runs' = [runs EXCEPT ![r].state = "CONFLICT",
                                      ![r].outputHead = NewHead]
              /\ UNCHANGED <<refs, published>>
        /\ ReleaseLease(r)
        /\ UNCHANGED <<applications, instances>>

CompleteUnchangedWorkspaceRun(r, seen) ==
    /\ runs[r].state = "COMMITTING"
    /\ runs[r].inputHead = seen.head
    /\ OwnsLease(r)
    /\ runs' = [runs EXCEPT
          ![r].state = IF Current(runs[r].workspace) = seen
                         THEN "COMMITTED" ELSE "CONFLICT",
          ![r].outputHead = seen.head]
    /\ ReleaseLease(r)
    /\ UNCHANGED <<refs, published, lastFid, applications, instances>>

\* The first reason sticks: a later, different one is refused.
StopReasonAccepted(r, reason) == runs[r].stopReason \in {None, reason}

SetBwaRunStopReason(r, reason) ==
    /\ runs[r].instance # None
    /\ StopReasonAccepted(r, reason)
    /\ runs' = [runs EXCEPT ![r].stopReason = reason]
    /\ UNCHANGED <<refs, published, lastFid, leases, applications, instances>>
-----------------------------------------------------------------------------
(***************************************************************************)
(* BWA Applications and Instances                                          *)
(***************************************************************************)
CreateBwaApplication(a, digest) ==
    /\ applications[a].digest = None
    /\ applications' = [applications EXCEPT ![a] =
          [NoApplication EXCEPT !.digest = digest, !.enabled = TRUE]]
    /\ UNCHANGED <<refs, published, lastFid, leases, runs, instances>>

DeleteBwaApplication(a) ==
    /\ applications[a].digest # None
    /\ InstancesOf(a) = {}
    /\ applications' = [applications EXCEPT ![a] = NoApplication]
    /\ UNCHANGED <<refs, published, lastFid, leases, runs, instances>>

SetBwaApplicationEnabled(a, enabled) ==
    /\ applications[a].digest # None
    /\ applications' = [applications EXCEPT ![a].enabled = enabled]
    /\ UNCHANGED <<refs, published, lastFid, leases, runs, instances>>

\* update and rollback: refused while any Instance has an unresolved Run.
UpdateBwaApplicationImage(a, expected, digest) ==
    /\ applications[a].digest = expected
    /\ \A i \in InstancesOf(a), r \in Runs :
          runs[r].instance = i => runs[r].state \in {"COMMITTED", "DISCARDED"}
    /\ applications' = [applications EXCEPT ![a].digest = digest,
                                            ![a].previous = expected]
    /\ UNCHANGED <<refs, published, lastFid, leases, runs, instances>>

CreateBwaInstance(i, a, w) ==
    /\ RefExists(w)
    /\ applications[a].enabled
    /\ NewInstance(i, a, w)
    /\ UNCHANGED <<refs, published, lastFid, leases, runs>>

SetBwaInstanceDesiredState(i, desired) ==
    /\ InstanceExists(i)
    /\ instances' = [instances EXCEPT ![i].desired = desired]
    /\ UNCHANGED <<refs, published, lastFid, leases, runs, applications>>

\* Detach: the Workspace and its Runs stay, the bindings cascade away, and
\* another Instance becomes the default (the oldest; here, any).
DeleteBwaInstancePreservingWorkspace(i) ==
    LET a      == instances[i].application
        others == InstancesOf(a) \ {i}
    IN  /\ InstanceExists(i)
        /\ leases[instances[i].workspace] = None
        /\ \A r \in BindingsOf(i) : ~IsUnresolved(runs[r].state)
        /\ \E next \in IF others = {} THEN {None} ELSE others :
              applications' = [applications EXCEPT ![a].default =
                  IF @ = i THEN next ELSE @]
        /\ instances' = [instances EXCEPT ![i] = NoInstance]
        /\ runs' = [r \in Runs |-> IF r \in BindingsOf(i)
              THEN [runs[r] EXCEPT !.instance = None, !.digest = None,
                                   !.stopReason = None]
              ELSE runs[r]]
        /\ UNCHANGED <<refs, published, lastFid, leases>>
-----------------------------------------------------------------------------
\* Everything another process may do to the store while a caller is between
\* two of its own transactions.
WorkspaceStep ==
    \/ \E seen \in published[Main] : CompareAndSwap(Main, seen)
    \/ \E w \in Workspaces, guard \in published[Main] :
          \E seen \in published[w] : CompareAndSwapGuarded(w, seen, guard)
    \/ \E w \in Workspaces, source \in RefIds :
          \E seen \in published[source] :
             \/ CreateWorkspace(w, source, seen.head)
             \/ \E fork \in BOOLEAN, i \in Instances, a \in Applications :
                  CreateWorkspaceWithBwaInstance(w, source, seen.head, fork, i, a)
    \/ \E w \in Workspaces : DeleteWorkspace(w)

RunStep ==
    \/ \E r \in Runs, i \in Instances : CreateBwaWorkspaceRun(r, i)
    \/ \E r \in Runs, t \in RequestedRunTransition :
          TransitionWorkspaceRun(r, t[1], t[2])
    \/ \E r \in Runs : ReopenFailedWorkspaceRun(r)
    \/ \E r \in Runs : DiscardFailedWorkspaceRun(r)
    \/ \E r \in Runs, w \in Workspaces : \E seen \in published[w] :
          /\ runs[r].workspace = w
          /\ CommitWorkspaceRun(r, seen) \/ CompleteUnchangedWorkspaceRun(r, seen)
    \/ \E r \in Runs, reason \in StopReasons : SetBwaRunStopReason(r, reason)

ApplicationStep ==
    \/ \E a \in Applications, d \in Digests : CreateBwaApplication(a, d)
    \/ \E a \in Applications : DeleteBwaApplication(a)
    \/ \E a \in Applications, b \in BOOLEAN : SetBwaApplicationEnabled(a, b)
    \/ \E a \in Applications, d, e \in Digests : UpdateBwaApplicationImage(a, d, e)
    \/ \E i \in Instances, a \in Applications, w \in Workspaces :
          CreateBwaInstance(i, a, w)
    \/ \E i \in Instances, s \in {"STOPPED", "RUNNING"} :
          SetBwaInstanceDesiredState(i, s)
    \/ \E i \in Instances : DeleteBwaInstancePreservingWorkspace(i)

Next == WorkspaceStep \/ RunStep \/ ApplicationStep

Spec == Init /\ [][Next]_storeVars
-----------------------------------------------------------------------------
(***************************************************************************)
(* Properties                                                              *)
(***************************************************************************)

\* The columns hold values of their types.
TypeOK ==
    /\ refs \in [RefIds -> RefRow]
    /\ published \in [RefIds -> SUBSET Version]
    /\ lastFid \in Fid
    /\ leases \in [Workspaces -> Runs \cup {None}]
    /\ runs \in [Runs -> RunRow]
    /\ applications \in [Applications -> ApplicationRow]
    /\ instances \in [Instances -> InstanceRow]

\* A Workspace's write lease is held exactly by its open Run: no transition
\* leaves the lease with a finished Run, or an open Run without it.
LeaseHeldByTheOpenRun ==
    \A w \in Workspaces, r \in Runs :
        leases[w] = r <=> runs[r].workspace = w /\ runs[r].state \in OpenStates

\* While a Run is open, or has failed and waits for the owner's decision, its
\* Workspace exists and stays at the head the Run started from, so that the
\* upper it left can always be published: deletion, imports from main, other
\* Runs and updates are all kept away from it.
UnresolvedRunPinsHead ==
    \A r \in Runs : IsUnresolved(runs[r].state) =>
        LET w == runs[r].workspace
        IN  w \in Workspaces /\ RefExists(w) /\ refs[w].head = runs[r].inputHead

\* No commit ever reports a conflict.  The lifecycle service destroys the upper
\* after every commit that returned, also after one that returned "conflict".
NoConflict == \A r \in Runs : runs[r].state # "CONFLICT"

\* A Workspace never has two Runs whose result is still open.
OneUnresolvedRunPerWorkspace ==
    \A r, q \in Runs :
        /\ IsUnresolved(runs[r].state) /\ IsUnresolved(runs[q].state)
        /\ runs[r].workspace = runs[q].workspace
        => r = q

\* An unresolved Run belongs to an Instance that still exists and still owns
\* the Run's Workspace, and was started from the image that is still installed.
UnresolvedRunIsBound ==
    \A r \in Runs : IsUnresolved(runs[r].state) =>
        LET i == runs[r].instance
        IN  /\ i \in Instances
            /\ InstanceExists(i)
            /\ instances[i].workspace = runs[r].workspace
            /\ applications[instances[i].application].digest = runs[r].digest

\* An Application with Instances has one of them as its default, and one
\* without has none: the default never dangles after a detach.
DefaultIsAnInstance ==
    \A a \in Applications :
        IF InstancesOf(a) = {} THEN applications[a].default = None
                               ELSE applications[a].default \in InstancesOf(a)

\* What a COMMITTED Run reports as its output is a version of its Workspace
\* and directly follows the Run's input (or is the input, if nothing changed).
CommittedOutputFollowsInput ==
    \A r \in Runs : runs[r].state = "COMMITTED" =>
        \E old, new \in published[runs[r].workspace] :
            /\ old.head = runs[r].inputHead
            /\ new.head = runs[r].outputHead
            /\ new = old \/ new.revision = old.revision + 1

\* No lost update: a Ref only ever moves to a head that was built on the head
\* it moves away from, and its revision counts those moves.
LinearHistory ==
    [][\A ref \in RefIds :
         RefExists(ref) /\ refs'[ref] # refs[ref] /\ refs'[ref] # NoRef =>
            /\ refs'[ref].base = refs[ref].head
            /\ refs'[ref].revision = refs[ref].revision + 1]_storeVars

\* A Run whose result is still open is never forgotten: no deletion takes its
\* row, its binding or the image it ran with.
UnresolvedRunIsKept ==
    [][\A r \in Runs : IsUnresolved(runs[r].state) =>
         /\ runs'[r].workspace = runs[r].workspace
         /\ runs'[r].instance = runs[r].instance
         /\ runs'[r].inputHead = runs[r].inputHead]_storeVars

-----------------------------------------------------------------------------
(***************************************************************************)
(* The inductive invariant of RefStoreProofs: the safety properties above  *)
(* and the facts about rows and versions they rest on.                     *)
(***************************************************************************)

\* An absent row is empty; a present one names rows that are present.
RowsAreConsistent ==
    /\ \A r \in Runs : IF runs[r].state = None
                        THEN runs[r] = NoRun
                        ELSE /\ runs[r].workspace \in Workspaces
                             /\ RefExists(runs[r].workspace)
    /\ \A i \in Instances : IF InstanceExists(i)
                             THEN /\ instances[i].workspace \in Workspaces
                                  /\ RefExists(instances[i].workspace)
                                  /\ applications[instances[i].application].digest # None
                             ELSE instances[i] = NoInstance
    /\ \A i, j \in Instances :
          /\ InstanceExists(i) /\ InstanceExists(j)
          /\ instances[i].workspace = instances[j].workspace
          => i = j

\* A Ref shows one of its versions, the only one with that head; no version is
\* newer than the newest head object, and a revision counts built heads.
VersionsAreConsistent ==
    /\ lastFid <= MaxFid
    /\ \A ref \in RefIds :
          IF RefExists(ref) THEN Current(ref) \in published[ref]
                            ELSE refs[ref] = NoRef /\ published[ref] = {}
    /\ \A ref \in RefIds : \A v \in published[ref] :
          /\ v.head <= lastFid /\ v.revision < v.head
          /\ v.head = refs[ref].head => v = Current(ref)

\* The invariant the proofs show to be inductive.
InductiveInvariant ==
    /\ TypeOK
    /\ RowsAreConsistent
    /\ VersionsAreConsistent
    /\ LeaseHeldByTheOpenRun
    /\ UnresolvedRunPinsHead
    /\ NoConflict
    /\ OneUnresolvedRunPerWorkspace
    /\ UnresolvedRunIsBound
    /\ DefaultIsAnInstance
    /\ CommittedOutputFollowsInput
-----------------------------------------------------------------------------
\* The database implements WorkspaceHistory: whatever the two processes do to
\* leases, Instances and images, a Run's work is published on exactly the
\* version it started from, or discarded, and nobody edits below it.
Phase(state) == IF IsUnresolved(state)       THEN "pending"
                ELSE IF state = "COMMITTED"  THEN "done"
                ELSE IF state = "DISCARDED"  THEN "discarded"
                ELSE "none"

History == INSTANCE WorkspaceHistory WITH
    Heads     <- 1 .. MaxFid,
    Revisions <- 0 .. MaxFid,
    current   <- [ref \in RefIds |-> Current(ref)],
    history   <- published,
    work      <- [r \in Runs |-> [phase     |-> Phase(runs[r].state),
                                  workspace |-> runs[r].workspace,
                                  input     |-> runs[r].inputHead]]

ImplementsWorkspaceHistory == History!Spec
=============================================================================
