---------------------------- MODULE BwaLifecycle ----------------------------
(***************************************************************************)
(* The lifecycle of one BWA Instance, from "start" to a published or       *)
(* discarded Upper.  Three programs and a disk take part:                  *)
(*                                                                         *)
(*  - the manager, inside the Desktop Server (server/bwa): per Instance it *)
(*    runs one operation at a time, each a chain of store transactions and *)
(*    calls over a Unix socket;                                            *)
(*  - the Compute Runtime daemon (server/computeRuntime): it serves those  *)
(*    calls concurrently, stops Instances when it is closed, and           *)
(*    reconciles what it finds when it starts;                             *)
(*  - the control database, RefStore, which both of them write: every      *)
(*    change of it below is one of RefStore's actions;                     *)
(*  - the Run directory with its manifest ("local" state), and the         *)
(*    container, which survive a crash of either program.                  *)
(*                                                                         *)
(* Either program may crash between any two steps.  A call in flight when  *)
(* the manager crashes goes on in the daemon with nobody waiting for it.   *)
(***************************************************************************)
EXTENDS RefStore

CONSTANTS
    TheWorkspace, TheApplication, TheInstance, TheDigest,
    DockerMayFail,      \* docker, and the removal of a directory, may fail
    CrashTearsRemoval,  \* a daemon crash may leave a Run directory half removed
    Requests,           \* bound: what the owner may ask of a started Instance
    DaemonMayClose,     \* the daemon may be shut down under control
    MaxCrashes          \* bound: how many crashes, of either program

ASSUME LifecycleConstants ==
    /\ TheWorkspace \in Workspaces /\ TheApplication \in Applications
    /\ TheInstance \in Instances /\ TheDigest \in Digests
    /\ StopReasons = {"USER_STOP", "SAVE_RESTART", "HOST_SHUTDOWN", "EXITED"}
    /\ DockerMayFail \in BOOLEAN /\ CrashTearsRemoval \in BOOLEAN
    /\ DaemonMayClose \in BOOLEAN
    /\ Requests \subseteq {"USER_STOP", "SAVE_RESTART", "OPEN", "PUBLISH", "DISCARD"}
    /\ MaxCrashes \in Nat /\ MaxFid >= 2

VARIABLES
    local,      \* the state in a Run's manifest, ABSENT without a directory
    container,  \* the Run's Docker container
    launches,   \* daemon memory: bwaLaunches
    daemon,     \* the phase the daemon process is in
    handlers,   \* the calls the daemon is executing
    tasks,      \* the operation each lifecycle service is executing
    replies,    \* the answers on their way back
    waits,      \* manager memory: who waits for which Run to become ready
    exitSeen,   \* manager memory: the supervisor saw an exited container
    discards,   \* manager memory: failed starts it is about to discard
    recovery,   \* daemon memory: what the running pass of its recovery has listed
    crashes     \* how many crashes there were

runtimeVars == <<local, container, launches>>
callVars    == <<handlers, replies>>
managerVars == <<tasks, waits, exitSeen, discards>>
daemonVars  == <<daemon, recovery>>
lifecycleVars == <<storeVars, runtimeVars, callVars, managerVars, daemonVars, crashes>>
-----------------------------------------------------------------------------
LocalRunState == {"ABSENT", "PREPARING", "PREPARED", "RUNNING", "STOPPED",
                  "FAILED", "DESTROYED", "CORRUPT"}
Interrupted   == {"PREPARING", "PREPARED", "RUNNING"}
ContainerState == {"none", "running", "exited0", "exited1"}

\* The phases of startComputeRuntimeDaemon, of which the first three are passes
\* over the Runs and the last makes the network and the socket; and of close.
Recovering == {"interrupted", "control", "host", "listening"}
Closing    == {"closing", "saving"}
DaemonPhase == {"down", "up"} \cup Recovering \cup Closing

\* The daemon's controlled shutdown has a lifecycle service of its own, whose
\* lock is not the manager's.
Drivers == {"manager", "shutdown"}

\* Who a running call belongs to; "orphan" is one whose caller has crashed.
Slots == Drivers \cup {"orphan", "recovery"}

Calls == {"prepareBwa", "start", "stop", "finalizeExited", "reopenFailed",
          "commit", "destroy", "preserve"}   \* destroy(run, FALSE), (run, TRUE)

\* by is no part of a call: it says, for the properties, which operation of its
\* caller the call belongs to.
NoHandler == [op |-> None, run |-> None, pc |-> None, by |-> None]
NoTask    == [op |-> None, run |-> None, pc |-> None]

\* A pass of the recovery lists rows and visits them one by one: rows holds the
\* listed state of the Runs it still has to visit, intent whether it is to write
\* the Instance's intent at its end.  reopened is no memory of the daemon: it
\* says, for the properties, which Runs the owner reopened meanwhile.
NoRecovery == [rows |-> [r \in Runs |-> None], intent |-> FALSE, reopened |-> {}]

Control(r) == runs[r].state
ActiveRuns == {r \in BindingsOf(TheInstance) : Control(r) \in OpenStates}

FirstHead(ref) == IF ref = Main THEN 1 ELSE IF ref = TheWorkspace THEN 2 ELSE NoFid

\* The store after the Application was installed and the Instance created.
LifecycleInit ==
    /\ refs = [ref \in RefIds |-> [NoRef EXCEPT !.head = FirstHead(ref)]]
    /\ published = [ref \in RefIds |->
          {[head |-> n, revision |-> 0] : n \in {FirstHead(ref)} \ {NoFid}}]
    /\ lastFid = 2
    /\ leases = [w \in Workspaces |-> None]
    /\ runs = [r \in Runs |-> NoRun]
    /\ applications = [a \in Applications |-> IF a = TheApplication
          THEN [digest |-> TheDigest, previous |-> None, enabled |-> TRUE,
                default |-> TheInstance]
          ELSE NoApplication]
    /\ instances = [i \in Instances |-> IF i = TheInstance
          THEN [application |-> TheApplication, workspace |-> TheWorkspace,
                desired |-> "STOPPED"]
          ELSE NoInstance]
    /\ local = [r \in Runs |-> "ABSENT"]
    /\ container = [r \in Runs |-> "none"]
    /\ launches = {}
    /\ daemon = "down" /\ recovery = NoRecovery
    /\ handlers = [s \in Slots |-> NoHandler]
    /\ tasks = [d \in Drivers |-> NoTask]
    /\ replies = [d \in Drivers |-> "none"]
    /\ waits = {} /\ exitSeen = FALSE /\ discards = {} /\ crashes = 0
-----------------------------------------------------------------------------
(***************************************************************************)
(* The daemon's side of a call (managedComputeRuntime over                 *)
(* computeRuntimeCoordinator over runDirectoryManager).                    *)
(***************************************************************************)
At(s, op, pc) == handlers[s].op = op /\ handlers[s].pc = pc

Goto(s, pc) == handlers' = [handlers EXCEPT ![s].pc = pc] /\ UNCHANGED replies

Reply(s, answer) ==
    /\ handlers' = [handlers EXCEPT ![s] = NoHandler]
    /\ replies' = [d \in Drivers |-> IF d = s THEN answer ELSE replies[d]]

SetLocal(r, state) == local' = [local EXCEPT ![r] = state]
Forget(r)          == launches' = launches \ {r}

\* #markFailed leaves a Run that is already STOPPED or FAILED alone.
MarkFailed(r) ==
    SetLocal(r, IF local[r] \in {"ABSENT", "CORRUPT", "STOPPED"} THEN local[r] ELSE "FAILED")

\* The checks a call makes before it changes anything.
Accepts(op, r) ==
    \/ op = "prepareBwa" /\ local[r] = "ABSENT" /\ Control(r) = "PREPARING"
    \/ op = "start" /\ local[r] = "PREPARED" /\ r \in launches
    \/ op = "stop" /\ local[r] = "RUNNING" /\ r \in launches
    \/ /\ op = "finalizeExited" /\ local[r] = "RUNNING" /\ r \in launches
       /\ container[r] # "running"
    \/ op = "reopenFailed" /\ local[r] = "FAILED"
    \/ op = "commit" /\ local[r] = "STOPPED" /\ Control(r) = "STOPPED"
    \/ /\ op \in {"destroy", "preserve"} /\ local[r] \notin {"PREPARING", "CORRUPT"}
       /\ local[r] = "RUNNING" => r \in launches

\* Mutant of Refuse: the refusal is not sent to the caller.
RefuseSilently(s) ==
    /\ handlers[s].pc = "begin" /\ ~Accepts(handlers[s].op, handlers[s].run)
    /\ handlers' = [handlers EXCEPT ![s] = NoHandler]
    /\ UNCHANGED <<storeVars, managerVars, runtimeVars, replies, daemonVars, crashes>>

\* A commit refused because the control Run is not STOPPED fails the manifest.
Refuse(s) ==
    LET r == handlers[s].run
    IN  /\ handlers[s].pc = "begin"
        /\ ~Accepts(handlers[s].op, r)
        /\ Reply(s, "error")
        /\ SetLocal(r, IF handlers[s].op = "commit" /\ local[r] = "STOPPED"
                         THEN "FAILED" ELSE local[r])
        /\ UNCHANGED <<storeVars, managerVars, container, launches, daemonVars, crashes>>

PrepareDirectory(s) ==
    LET r == handlers[s].run
    IN  /\ At(s, "prepareBwa", "begin") /\ Accepts("prepareBwa", r)
        /\ SetLocal(r, "PREPARING")
        /\ launches' = launches \cup {r}
        /\ Goto(s, "mount")
        /\ UNCHANGED <<storeVars, managerVars, container, daemonVars, crashes>>

PrepareMounts(s) ==
    LET r == handlers[s].run
    IN  /\ At(s, "prepareBwa", "mount")
        /\ \/ SetLocal(r, "PREPARED") /\ Reply(s, "ok") /\ UNCHANGED launches
           \/ SetLocal(r, "FAILED") /\ Reply(s, "error") /\ Forget(r)
        /\ UNCHANGED <<storeVars, managerVars, container, daemonVars, crashes>>

\* A start that fails removes the container it created, and does not mind if
\* Docker cannot.
StartContainer(s) ==
    LET r == handlers[s].run
    IN  /\ At(s, "start", "begin") /\ Accepts("start", r)
        /\ \/ /\ container' = [container EXCEPT ![r] = "running"]
              /\ Goto(s, "mark")
              /\ UNCHANGED <<local, launches>>
           \/ /\ SetLocal(r, "FAILED") /\ Forget(r)
              /\ Reply(s, "error")
              /\ \E left \in {"none"} \cup IF DockerMayFail THEN {"running"} ELSE {} :
                    container' = [container EXCEPT ![r] = left]
        /\ UNCHANGED <<storeVars, managerVars, daemonVars, crashes>>

MarkRunning(s) ==
    /\ At(s, "start", "mark")
    /\ SetLocal(handlers[s].run, "RUNNING")
    /\ Goto(s, "record")
    /\ UNCHANGED <<storeVars, managerVars, container, launches, daemonVars, crashes>>

RecordRunning(s) ==
    /\ At(s, "start", "record")
    /\ TransitionWorkspaceRun(handlers[s].run, "PREPARING", "RUNNING")
    /\ Reply(s, "ok")
    /\ UNCHANGED <<runtimeVars, managerVars, daemonVars, crashes>>

\* Mutant of StopContainer: the stopped container is left in place.
StopWithoutRemoval(s) ==
    LET r == handlers[s].run
    IN  /\ handlers[s].op \in {"stop", "destroy", "preserve"}
        /\ handlers[s].pc = "begin" /\ Accepts(handlers[s].op, r)
        /\ local[r] = "RUNNING" /\ container[r] # "none"
        /\ container' = [container EXCEPT
              ![r] = IF @ = "running" THEN "exited0" ELSE @]
        /\ Goto(s, "mark")
        /\ UNCHANGED <<storeVars, managerVars, local, launches, daemonVars, crashes>>

\* coordinator.stop, called by "stop" and, for a running container, by destroy.
Stops(s) == handlers[s].op \in {"stop", "destroy", "preserve"}

StopContainer(s) ==
    LET r == handlers[s].run
    IN  /\ Stops(s) /\ handlers[s].pc = "begin" /\ Accepts(handlers[s].op, r)
        /\ local[r] = "RUNNING" /\ container[r] # "none"
        /\ container' = [container EXCEPT
              ![r] = IF @ = "running" THEN "exited0" ELSE @]
        /\ Goto(s, "removeContainer")
        /\ UNCHANGED <<storeVars, managerVars, local, launches, daemonVars, crashes>>

\* finalizeExited looks at the exit code before it removes the container.
RemoveContainer(s) ==
    LET r == handlers[s].run
    IN  /\ \/ handlers[s].pc = "removeContainer" /\ Goto(s, "mark")
           \/ /\ At(s, "finalizeExited", "begin") /\ Accepts("finalizeExited", r)
              /\ Goto(s, IF container[r] = "exited0" THEN "mark" ELSE "markFailed")
        /\ container[r] # "none"
        /\ container' = [container EXCEPT ![r] = "none"]
        /\ UNCHANGED <<storeVars, managerVars, local, launches, daemonVars, crashes>>

\* Docker reports an error, or another call has already removed the container.
\* finalizeExited's inspection is not yet inside its try block.
DockerFails(s) ==
    LET r == handlers[s].run
    IN  /\ \/ Stops(s) /\ handlers[s].pc = "begin" /\ local[r] = "RUNNING"
           \/ handlers[s].pc = "removeContainer"
           \/ At(s, "finalizeExited", "begin")
        /\ handlers[s].pc = "begin" => Accepts(handlers[s].op, r)
        /\ DockerMayFail \/ container[r] = "none"
        /\ \/ At(s, "finalizeExited", "begin") /\ UNCHANGED local
           \/ /\ At(s, "finalizeExited", "begin") => container[r] # "none"
              /\ MarkFailed(r)
        /\ Reply(s, "error")
        /\ UNCHANGED <<storeVars, managerVars, container, launches, daemonVars, crashes>>

MarkStopped(s) ==
    LET r == handlers[s].run
    IN  /\ handlers[s].pc \in {"mark", "markFailed"} /\ handlers[s].op # "start"
        /\ IF local[r] = "RUNNING"
             THEN /\ SetLocal(r, IF handlers[s].pc = "mark" THEN "STOPPED" ELSE "FAILED")
                  /\ Forget(r)
                  /\ Goto(s, IF handlers[s].pc = "markFailed" THEN "recordFailed"
                             ELSE IF handlers[s].op \in {"destroy", "preserve"} THEN "remove"
                             ELSE "record")
             ELSE MarkFailed(r) /\ Reply(s, "error") /\ UNCHANGED launches
        /\ UNCHANGED <<storeVars, managerVars, container, daemonVars, crashes>>

RecordStopped(s) ==
    LET r   == handlers[s].run
        new == IF handlers[s].pc = "record" THEN "STOPPED" ELSE "FAILED"
    IN  /\ handlers[s].pc \in {"record", "recordFailed"} /\ handlers[s].op # "start"
        /\ IF Control(r) = "RUNNING"
             THEN TransitionWorkspaceRun(r, "RUNNING", new) /\ Reply(s, "ok")
             ELSE UNCHANGED storeVars /\ Reply(s, "error")
        /\ UNCHANGED <<runtimeVars, managerVars, daemonVars, crashes>>

ReopenFailed(s) ==
    LET r == handlers[s].run
    IN  /\ At(s, "reopenFailed", "begin") /\ Accepts("reopenFailed", r)
        /\ SetLocal(r, "STOPPED")
        /\ Reply(s, "ok")
        /\ UNCHANGED <<storeVars, managerVars, container, launches, daemonVars, crashes>>

\* workspaceCommitCoordinator: COMMITTING first, then a scan of the Upper
\* against the head the Run started from, then one publishing transaction.
BeginCommit(s) ==
    /\ At(s, "commit", "begin") /\ Accepts("commit", handlers[s].run)
    /\ TransitionWorkspaceRun(handlers[s].run, "STOPPED", "COMMITTING")
    /\ Goto(s, "publish")
    /\ UNCHANGED <<runtimeVars, managerVars, daemonVars, crashes>>

Publish(s) ==
    LET r == handlers[s].run
    IN  /\ At(s, "commit", "publish")
        /\ \E seen \in published[TheWorkspace] :
              /\ seen.head = runs[r].inputHead
              /\ CommitWorkspaceRun(r, seen) \/ CompleteUnchangedWorkspaceRun(r, seen)
        /\ Reply(s, "ok")
        /\ UNCHANGED <<runtimeVars, managerVars, daemonVars, crashes>>

\* The scan or an upload fails: the control Run first, the manifest second.
FailCommit(s) ==
    /\ At(s, "commit", "publish")
    /\ TransitionWorkspaceRun(handlers[s].run, "COMMITTING", "FAILED")
    /\ Goto(s, "failUpper")
    /\ UNCHANGED <<runtimeVars, managerVars, daemonVars, crashes>>

FailUpper(s) ==
    LET r == handlers[s].run
    IN  /\ At(s, "commit", "failUpper")
        /\ SetLocal(r, IF local[r] = "STOPPED" THEN "FAILED" ELSE local[r])
        /\ Reply(s, "error")
        /\ UNCHANGED <<storeVars, managerVars, container, launches, daemonVars, crashes>>

\* A directory that is not there counts as destroyed.
BeginDestroy(s) ==
    LET r == handlers[s].run
    IN  /\ handlers[s].op \in {"destroy", "preserve"} /\ handlers[s].pc = "begin"
        /\ Accepts(handlers[s].op, r) /\ local[r] # "RUNNING"
        /\ IF local[r] = "ABSENT"
             THEN Forget(r) /\ Reply(s, "ok") /\ UNCHANGED local
             ELSE /\ SetLocal(r, IF local[r] = "PREPARED" THEN "STOPPED" ELSE local[r])
                  /\ Goto(s, "remove")
                  /\ UNCHANGED launches
        /\ UNCHANGED <<storeVars, managerVars, container, daemonVars, crashes>>

RemoveDirectory(s) ==
    LET r == handlers[s].run
    IN  /\ handlers[s].op \in {"destroy", "preserve"} /\ handlers[s].pc = "remove"
        /\ IF local[r] \in {"STOPPED", "FAILED", "DESTROYED"}
             THEN /\ SetLocal(r, IF handlers[s].op = "preserve" THEN "DESTROYED" ELSE "ABSENT")
                  /\ Forget(r) /\ Reply(s, "ok")
             ELSE Reply(s, "error") /\ UNCHANGED <<local, launches>>
        /\ UNCHANGED <<storeVars, managerVars, container, daemonVars, crashes>>

\* rm fails, before the manifest is gone or after it.
RemovalFails(s) ==
    LET r == handlers[s].run
    IN  /\ DockerMayFail
        /\ handlers[s].op \in {"destroy", "preserve"} /\ handlers[s].pc = "remove"
        /\ \/ local[r] \in {"STOPPED", "FAILED"}
           \/ local[r] = "DESTROYED" /\ handlers[s].op = "destroy"
        /\ \/ UNCHANGED local
           \/ handlers[s].op = "destroy" /\ SetLocal(r, "CORRUPT")
        /\ Reply(s, "error")
        /\ UNCHANGED <<storeVars, managerVars, container, launches, daemonVars, crashes>>
-----------------------------------------------------------------------------
(***************************************************************************)
(* The manager's side (bwaLifecycleService, and above it                   *)
(* bwaManagerControlService and bwaLifecycleSupervisor).  A task's pc is   *)
(* the call it is about to make or waits for, or the store transaction it  *)
(* does next.                                                              *)
(***************************************************************************)
Idle(d)  == tasks[d] = NoTask

\* The Instance's lock is free and nobody waits for it.  The lock is handed on
\* in order, so the supervisor and the discard of a failed start come before
\* the owner's next request.  (Bound: the owner's requests do not queue.)
LockIsFree == Idle("manager") /\ ~exitSeen /\ discards = {}

Step(d, pc) == tasks' = [tasks EXCEPT ![d].pc = pc]
Begin(d, op, r, pc) == tasks' = [tasks EXCEPT ![d] = [op |-> op, run |-> r, pc |-> pc]]
End(d) ==
    /\ tasks' = [tasks EXCEPT ![d] = NoTask]
    /\ waits' = waits \ {<<tasks[d].run, tasks[d].op>>}

Memory == <<waits, exitSeen, discards>>

\* waitUntilReady is called at the end of a start, and by the page that opens a
\* running Instance.  Each names the operation that follows if it gives up.
Waiters == {"FAIL_STARTUP", "FAIL_OPEN"}

\* startingRunIds
Starting == {r \in Runs : <<r, "FAIL_STARTUP">> \in waits}

\* Send the call, if somebody listens on the socket.
Call(d) ==
    /\ tasks[d].pc \in Calls
    /\ handlers[d] = NoHandler /\ replies[d] = "none"
    /\ IF d = "shutdown" \/ daemon = "up"
         THEN /\ handlers' = [handlers EXCEPT ![d] =
                    [op |-> tasks[d].pc, run |-> tasks[d].run, pc |-> "begin",
                     by |-> tasks[d].op]]
              /\ UNCHANGED replies
         ELSE replies' = [replies EXCEPT ![d] = "error"] /\ UNCHANGED handlers
    /\ UNCHANGED <<storeVars, runtimeVars, managerVars, daemonVars, crashes>>

\* What each operation does after an answer; "end" releases the lock.
AfterOk(task) ==
    LET pc == task.pc
    IN  IF pc = "prepareBwa" THEN "start"
        ELSE IF pc \in {"stop", "reopenFailed"} THEN "commit"
        ELSE IF pc = "finalizeExited"
               THEN IF Control(task.run) = "FAILED" THEN "end" ELSE "commit"
        ELSE IF pc = "commit" THEN "destroy"
        ELSE IF pc = "preserve" \/ task.op \in Waiters THEN "fail"
        ELSE IF task.op \in {"DISCARD", "DISCARD_FAILED_START"} THEN "discard"
        ELSE IF task.op = "SAVE_RESTART" THEN "create"
        ELSE "end"

\* Mutant of AfterError: the directory is removed after a failed commit too.
DestroyAfterAnyCommit(task) ==
    LET pc == task.pc
    IN  IF pc \in {"prepareBwa", "start"} THEN "preserve"
        ELSE IF pc \in {"preserve", "stop", "reopenFailed"} THEN "fail"
        ELSE IF task.op \in Waiters THEN "failKept"
        ELSE IF pc = "commit" THEN "destroy"
        ELSE "end"

AfterError(task) ==
    LET pc == task.pc
    IN  IF pc \in {"prepareBwa", "start"} THEN "preserve"
        ELSE IF pc \in {"preserve", "stop", "reopenFailed"} THEN "fail"
        ELSE IF task.op \in Waiters THEN "failKept"
        ELSE "end"

Answered(d) ==
    LET next == IF replies[d] = "ok" THEN AfterOk(tasks[d]) ELSE AfterError(tasks[d])
    IN  /\ replies[d] # "none"
        /\ replies' = [replies EXCEPT ![d] = "none"]
        /\ IF next = "end" THEN tasks' = [tasks EXCEPT ![d] = NoTask] ELSE Step(d, next)
        /\ waits' = IF tasks[d].op = "START" /\ tasks[d].pc = "start" /\ next = "end"
                      THEN waits \cup {<<tasks[d].run, "FAIL_STARTUP">>} ELSE waits
        /\ UNCHANGED <<storeVars, runtimeVars, handlers, exitSeen, discards, daemonVars, crashes>>

\* start: create the Run, prepare it, start it.
CreateRun(op, r) ==
    /\ CreateBwaWorkspaceRun(r, TheInstance)
    /\ Begin("manager", op, r, "prepareBwa")

Start(r) ==
    /\ LockIsFree
    /\ CreateRun("START", r)
    /\ UNCHANGED <<runtimeVars, callVars, Memory, daemonVars, crashes>>

\* A refused start takes the latest Run, if that is FAILED, for the Run of
\* this start, and goes on to discard it.
StartRefused(r) ==
    /\ LockIsFree
    /\ r \in BindingsOf(TheInstance) /\ Control(r) = "FAILED"
    /\ discards' = discards \cup {r}
    /\ UNCHANGED <<storeVars, runtimeVars, callVars, tasks, waits, exitSeen, daemonVars, crashes>>

\* saveAndRestart's second half, under the same lock.
Restart ==
    /\ tasks["manager"].pc = "create"
    /\ \/ \E r \in Runs : CreateRun("RESTART", r)
       \/ /\ \A r \in Runs : runs[r] # NoRun
          /\ tasks' = [tasks EXCEPT !["manager"] = NoTask]
          /\ UNCHANGED storeVars
    /\ UNCHANGED <<runtimeVars, callVars, Memory, daemonVars, crashes>>

\* #failRunIfActive
FailRun(d) ==
    LET r == tasks[d].run
    IN  /\ tasks[d].pc \in {"fail", "failKept"}
        /\ IF Control(r) \in {"PREPARING", "RUNNING", "STOPPED"}
             THEN TransitionWorkspaceRun(r, Control(r), "FAILED")
             ELSE UNCHANGED storeVars
        /\ IF tasks[d].op \in {"START", "RESTART"} \cup Waiters
             THEN Step(d, IF tasks[d].pc = "fail" THEN "intent" ELSE "intentKept")
                    /\ UNCHANGED waits
             ELSE End(d)
        /\ UNCHANGED <<runtimeVars, callVars, exitSeen, discards, daemonVars, crashes>>

\* What becomes of the wish to have the Instance running.  A start that failed
\* is followed by a discard of its own, under a new lock.
SetIntent ==
    LET task == tasks["manager"]
    IN  /\ task.pc \in {"intent", "intentKept"}
        /\ SetBwaInstanceDesiredState(TheInstance,
              IF task.op = "RESTART" THEN "RUNNING" ELSE "STOPPED")
        /\ IF task.op = "EXITED" \/ (task.op \in Waiters /\ task.pc = "intent")
             THEN /\ Step("manager", IF task.op = "EXITED" THEN "finalizeExited" ELSE "discard")
                  /\ UNCHANGED <<waits, discards>>
             ELSE IF task.op = "USER_STOP"
             THEN Step("manager", "reason") /\ UNCHANGED <<waits, discards>>
             ELSE /\ End("manager")
                  /\ discards' = IF task.op = "START" /\ Control(task.run) = "FAILED"
                                   THEN discards \cup {task.run} ELSE discards
        /\ UNCHANGED <<runtimeVars, callVars, exitSeen, daemonVars, crashes>>

\* stop, saveAndRestart, and the shutdown's stop.
Stop(d, reason) ==
    /\ d = "manager" <=> reason \in {"USER_STOP", "SAVE_RESTART"}
    /\ reason \in StopReasons \ {"EXITED"}
    /\ \E r \in ActiveRuns :
          /\ Control(r) = "RUNNING"
          /\ Begin(d, reason, r, IF reason = "USER_STOP" THEN "intent" ELSE "reason")

UserStop(reason) ==
    /\ LockIsFree
    /\ Stop("manager", reason)
    /\ UNCHANGED <<storeVars, runtimeVars, callVars, Memory, daemonVars, crashes>>

RecordReason(d) ==
    LET task == tasks[d]
    IN  /\ task.pc = "reason"
        /\ IF StopReasonAccepted(task.run, task.op)
             THEN /\ SetBwaRunStopReason(task.run, task.op)
                  /\ Step(d, IF task.op = "EXITED" THEN "intent" ELSE "stop")
             ELSE UNCHANGED storeVars /\ tasks' = [tasks EXCEPT ![d] = NoTask]
        /\ UNCHANGED <<runtimeVars, callVars, Memory, daemonVars, crashes>>

\* Mutant of SeeExit: an abnormal exit is taken for a restarting container.
SeeNormalExit(r) ==
    /\ Control(r) = "RUNNING" /\ r \notin Starting /\ daemon = "up"
    /\ local[r] = "RUNNING" /\ r \in launches
    /\ container[r] = "exited0"
    /\ exitSeen' = TRUE
    /\ UNCHANGED <<storeVars, runtimeVars, callVars, tasks, waits, discards, daemonVars, crashes>>

\* The supervisor asks every two seconds; it skips the Runs in startingRunIds.
SeeExit(r) ==
    /\ Control(r) = "RUNNING" /\ r \notin Starting /\ daemon = "up"
    /\ local[r] = "RUNNING" /\ r \in launches
    /\ container[r] \in {"exited0", "exited1"}
    /\ exitSeen' = TRUE
    /\ UNCHANGED <<storeVars, runtimeVars, callVars, tasks, waits, discards, daemonVars, crashes>>

\* finalizeExited names the Instance, not the Run that was seen to exit.
FinalizeExited ==
    /\ exitSeen /\ Idle("manager")
    /\ exitSeen' = FALSE
    /\ IF \E r \in ActiveRuns : Control(r) = "RUNNING"
         THEN \E r \in ActiveRuns : Begin("manager", "EXITED", r, "reason")
         ELSE UNCHANGED tasks
    /\ UNCHANGED <<storeVars, runtimeVars, callVars, waits, discards, daemonVars, crashes>>

\* The page that opens a running Instance asks whether it is ready.
OpenInstance(r) ==
    /\ r \in BindingsOf(TheInstance) /\ Control(r) = "RUNNING"
    /\ <<r, "FAIL_OPEN">> \notin waits
    /\ waits' = waits \cup {<<r, "FAIL_OPEN">>}
    /\ UNCHANGED <<storeVars, runtimeVars, callVars, tasks, exitSeen, discards, daemonVars, crashes>>

\* waitUntilReady ends without a verdict on the Run: ready, or its inspection
\* failed.
EndReadinessWait(r, waiter) ==
    /\ <<r, waiter>> \in waits
    /\ tasks["manager"].op = waiter => tasks["manager"].run # r
    /\ waits' = waits \ {<<r, waiter>>}
    /\ UNCHANGED <<storeVars, runtimeVars, callVars, tasks, exitSeen, discards, daemonVars, crashes>>

\* failStartup: the container exited before it was ready, or did not become
\* ready in time.
FailStartup(r, waiter) ==
    /\ <<r, waiter>> \in waits /\ Idle("manager")
    /\ IF r \in ActiveRuns
         THEN Begin("manager", waiter, r, "destroy") /\ UNCHANGED waits
         ELSE waits' = waits \ {<<r, waiter>>} /\ UNCHANGED tasks
    /\ UNCHANGED <<storeVars, runtimeVars, callVars, exitSeen, discards, daemonVars, crashes>>

PublishFailedUpper(r) ==
    /\ LockIsFree
    /\ r \in BindingsOf(TheInstance) /\ Control(r) = "FAILED"
    /\ ReopenFailedWorkspaceRun(r)
    /\ Begin("manager", "PUBLISH", r, "reopenFailed")
    /\ recovery' = [recovery EXCEPT !.reopened =
          IF daemon \in Recovering THEN @ \cup {r} ELSE @]
    /\ UNCHANGED <<runtimeVars, callVars, Memory, daemon, crashes>>

\* The owner's discard, or the one that follows a failed start.
DiscardFailedUpper(r, op) ==
    /\ Idle("manager")
    /\ IF op = "DISCARD" THEN LockIsFree ELSE r \in discards
    /\ discards' = IF op = "DISCARD" THEN discards ELSE discards \ {r}
    /\ IF r \in BindingsOf(TheInstance) /\ Control(r) = "FAILED"
         THEN Begin("manager", op, r, "destroy")
         ELSE op = "DISCARD_FAILED_START" /\ UNCHANGED tasks
    /\ UNCHANGED <<storeVars, runtimeVars, callVars, waits, exitSeen, daemonVars, crashes>>

DiscardRow ==
    LET r == tasks["manager"].run
    IN  /\ tasks["manager"].pc = "discard"
        /\ IF Control(r) = "FAILED" /\ leases[TheWorkspace] = None
             THEN DiscardFailedWorkspaceRun(r) ELSE UNCHANGED storeVars
        /\ End("manager")
        /\ UNCHANGED <<runtimeVars, callVars, exitSeen, discards, daemonVars, crashes>>
-----------------------------------------------------------------------------
(***************************************************************************)
(* The daemon process: start with reconciliation, controlled close.        *)
(***************************************************************************)
\* RunDirectoryManager.reconcile reads every known manifest first, and gives
\* up on one it cannot read.
StartDaemon ==
    /\ daemon = "down"
    /\ \A r \in Runs : local[r] # "CORRUPT"
    /\ daemon' = "interrupted"
    /\ UNCHANGED <<storeVars, runtimeVars, callVars, managerVars, recovery, crashes>>

\* Mutant of RecoverInterrupted: the manifest is failed, the container stays.
RecoverManifestOnly(r) ==
    /\ daemon = "interrupted" /\ local[r] \in Interrupted
    /\ SetLocal(r, "FAILED")
    /\ UNCHANGED <<storeVars, callVars, managerVars, container, launches, daemonVars, crashes>>

\* InterruptedRunRecovery: remove the container, fail the manifest.
RecoverInterrupted(r) ==
    /\ daemon = "interrupted" /\ local[r] \in Interrupted
    /\ container' = [container EXCEPT ![r] = "none"]
    /\ SetLocal(r, "FAILED")
    /\ UNCHANGED <<storeVars, callVars, managerVars, launches, daemonVars, crashes>>

\* Mutant of RecoveredControl: a Run that was being committed is left alone.
RecoveredWithoutCommitting(r) ==
    LET row == recovery.rows[r]
    IN  IF local[r] = "ABSENT" THEN IF row = "PREPARING" THEN None ELSE "FAILED"
        ELSE IF local[r] = "STOPPED" /\ row = "RUNNING" THEN "STOPPED"
        ELSE IF local[r] \in {"FAILED", "DESTROYED"} \/ row = "PREPARING" THEN "FAILED"
        ELSE None

\* Mutant of RecoveredControl: a stopped Run is not compared with its manifest.
RecoveredWithoutStopped(r) ==
    LET row == recovery.rows[r]
    IN  IF row = "STOPPED" THEN None
        ELSE IF local[r] = "ABSENT" THEN IF row = "PREPARING" THEN None ELSE "FAILED"
        ELSE IF local[r] = "STOPPED" /\ row = "RUNNING" THEN "STOPPED"
        ELSE "FAILED"

\* What ControlRunRecovery makes of a Run it has listed; None: nothing.  (After
\* the first pass a manifest is STOPPED, FAILED or DESTROYED, so that the code's
\* last branch, which throws, is never taken.)
RecoveredControl(r) ==
    LET row == recovery.rows[r]
    IN  IF local[r] = "ABSENT" THEN IF row = "PREPARING" THEN None ELSE "FAILED"
        ELSE IF local[r] = "STOPPED" /\ row = "RUNNING" THEN "STOPPED"
        ELSE IF \/ local[r] \in {"FAILED", "DESTROYED"}
                \/ row \in {"COMMITTING", "PREPARING"} THEN "FAILED"
        ELSE None

\* A transition expects the state that was listed.
RecoverControl(r) ==
    /\ daemon = "control" /\ recovery.rows[r] # None
    /\ IF RecoveredControl(r) = None THEN UNCHANGED storeVars
         ELSE TransitionWorkspaceRun(r, recovery.rows[r], RecoveredControl(r))
    /\ recovery' = [recovery EXCEPT !.rows[r] = None]
    /\ UNCHANGED <<runtimeVars, callVars, managerVars, daemon, crashes>>

\* BwaHostRecovery: a Run that was stopped but not committed is failed, first
\* in its manifest, then in the store.
RecoverStopped(r) ==
    /\ daemon = "host" /\ handlers["recovery"] = NoHandler
    /\ recovery.rows[r] # None /\ local[r] = "STOPPED"
    /\ SetLocal(r, "FAILED")
    /\ recovery' = [recovery EXCEPT !.rows[r] = None]
    /\ handlers' = [handlers EXCEPT
          !["recovery"] = [op |-> None, run |-> r, pc |-> "control", by |-> None]]
    /\ UNCHANGED <<storeVars, managerVars, replies, container, launches, daemon, crashes>>

RecoverStoppedControl ==
    /\ daemon = "host" /\ handlers["recovery"] # NoHandler
    /\ TransitionWorkspaceRun(handlers["recovery"].run, "STOPPED", "FAILED")
    /\ handlers' = [handlers EXCEPT !["recovery"] = NoHandler]
    /\ UNCHANGED <<runtimeVars, managerVars, replies, daemonVars, crashes>>

Visited == handlers["recovery"] = NoHandler /\ \A r \in Runs : recovery.rows[r] = None

RecoverIntent ==
    /\ daemon = "host" /\ Visited /\ recovery.intent
    /\ SetBwaInstanceDesiredState(TheInstance, "STOPPED")
    /\ recovery' = [recovery EXCEPT !.intent = FALSE]
    /\ UNCHANGED <<runtimeVars, callVars, managerVars, daemon, crashes>>

\* What the second and the third pass list when they begin.
ListControl ==
    [recovery EXCEPT !.rows =
        [r \in Runs |-> IF Control(r) \in OpenStates THEN Control(r) ELSE None]]

ListHost ==
    [recovery EXCEPT
        !.rows = [r \in Runs |-> IF Control(r) = "STOPPED" THEN "STOPPED" ELSE None],
        !.intent = /\ instances[TheInstance].desired # "STOPPED"
                   /\ \E r \in BindingsOf(TheInstance) :
                         Control(r) \in {"STOPPED", "FAILED", "CONFLICT"}]

\* Mutant of NextPhase: the third pass goes by the list of the second.
NextPhaseListsOnce ==
    /\ Visited
    /\ \/ /\ daemon = "interrupted" /\ \A r \in Runs : local[r] \notin Interrupted
          /\ daemon' = "control" /\ recovery' = ListControl
       \/ daemon = "control" /\ daemon' = "host" /\ UNCHANGED recovery
       \/ daemon = "host" /\ daemon' = "listening" /\ UNCHANGED recovery
       \/ daemon = "listening" /\ daemon' = "up" /\ recovery' = NoRecovery
    /\ UNCHANGED <<storeVars, runtimeVars, callVars, managerVars, crashes>>

\* A pass is over when every Run it listed was visited.  Nobody but the first
\* pass writes a manifest meanwhile, so its list is what it finds.
NextPhase ==
    /\ Visited
    /\ \/ /\ daemon = "interrupted" /\ \A r \in Runs : local[r] \notin Interrupted
          /\ daemon' = "control" /\ recovery' = ListControl
       \/ daemon = "control" /\ daemon' = "host" /\ recovery' = ListHost
       \/ /\ daemon = "host" /\ ~recovery.intent
          /\ daemon' = "listening" /\ UNCHANGED recovery
       \/ daemon = "listening" /\ daemon' = "up" /\ recovery' = NoRecovery
    /\ UNCHANGED <<storeVars, runtimeVars, callVars, managerVars, crashes>>

\* The manager changed a Run between its listing and its transition, or Docker
\* fails: the recovery throws, and the start of the daemon fails.
RecoveryFails ==
    /\ \/ /\ daemon = "control"
          /\ \E r \in Runs : /\ recovery.rows[r] \notin {None, Control(r)}
                             /\ RecoveredControl(r) # None
       \/ /\ daemon = "host" /\ handlers["recovery"] = NoHandler
          /\ \E r \in Runs : recovery.rows[r] # None /\ local[r] # "STOPPED"
       \/ /\ daemon = "host" /\ handlers["recovery"] # NoHandler
          /\ Control(handlers["recovery"].run) # "STOPPED"
       \/ /\ DockerMayFail
          /\ \/ daemon = "interrupted" /\ \E r \in Runs : local[r] \in Interrupted
             \/ daemon = "listening"
    /\ daemon' = "down" /\ recovery' = NoRecovery
    /\ handlers' = [handlers EXCEPT !["recovery"] = NoHandler]
    /\ UNCHANGED <<storeVars, runtimeVars, managerVars, replies, crashes>>

\* close: refuse new calls, wait for the running ones, stop and commit what
\* runs, fail the rest, exit.
CloseDaemon ==
    /\ DaemonMayClose
    /\ daemon = "up" /\ daemon' = "closing"
    /\ UNCHANGED <<storeVars, runtimeVars, callVars, managerVars, recovery, crashes>>

SaveInstances ==
    /\ daemon = "closing" /\ daemon' = "saving"
    /\ handlers["manager"] = NoHandler /\ handlers["orphan"] = NoHandler
    /\ IF \E r \in ActiveRuns : Control(r) = "RUNNING"
         THEN Stop("shutdown", "HOST_SHUTDOWN") ELSE UNCHANGED tasks
    /\ UNCHANGED <<storeVars, runtimeVars, callVars, Memory, recovery, crashes>>

ExitDaemon ==
    LET left == {r \in launches : local[r] \in {"PREPARED", "RUNNING"}}
    IN  /\ daemon = "saving" /\ Idle("shutdown")
        /\ daemon' = "down"
        /\ launches' = {}
        /\ local' = [r \in Runs |-> IF r \in left THEN "FAILED" ELSE local[r]]
        /\ \E kept \in IF DockerMayFail THEN SUBSET left ELSE {{}} :
              container' = [r \in Runs |->
                  IF r \in left \ kept THEN "none" ELSE container[r]]
        /\ UNCHANGED <<storeVars, callVars, managerVars, recovery, crashes>>
-----------------------------------------------------------------------------
(***************************************************************************)
(* The world: containers end, programs crash.                              *)
(***************************************************************************)
ContainerExits(r) ==
    /\ container[r] = "running"
    /\ \E code \in {"exited0", "exited1"} : container' = [container EXCEPT ![r] = code]
    /\ UNCHANGED <<storeVars, local, launches, callVars, managerVars, daemonVars, crashes>>

\* A removal (rm of the whole directory, manifest included) that the crash
\* interrupts may have deleted the manifest and not yet the directory.
TornBy(r) == \E s \in Slots : At(s, "destroy", "remove") /\ handlers[s].run = r

CrashDaemon ==
    /\ crashes < MaxCrashes /\ crashes' = crashes + 1
    /\ daemon # "down" /\ daemon' = "down" /\ recovery' = NoRecovery
    /\ \E torn \in SUBSET {r \in Runs : CrashTearsRemoval /\ TornBy(r)} :
          local' = [r \in Runs |-> IF r \in torn THEN "CORRUPT" ELSE local[r]]
    /\ launches' = {}
    /\ handlers' = [s \in Slots |-> NoHandler]
    /\ replies' = [d \in Drivers |->
          IF d = "manager" /\ handlers[d] # NoHandler THEN "error"
          ELSE IF d = "shutdown" THEN "none" ELSE replies[d]]
    /\ tasks' = [tasks EXCEPT !["shutdown"] = NoTask]
    /\ UNCHANGED <<storeVars, container, Memory>>

\* At most one orphan at a time (bound).
CrashManager ==
    /\ crashes < MaxCrashes /\ crashes' = crashes + 1
    /\ handlers["orphan"] = NoHandler \/ handlers["manager"] = NoHandler
    /\ handlers' = [handlers EXCEPT
          !["orphan"]  = IF @ = NoHandler THEN handlers["manager"] ELSE @,
          !["manager"] = NoHandler]
    /\ replies' = [replies EXCEPT !["manager"] = "none"]
    /\ tasks' = [tasks EXCEPT !["manager"] = NoTask]
    /\ waits' = {} /\ exitSeen' = FALSE /\ discards' = {}
    /\ UNCHANGED <<storeVars, runtimeVars, daemonVars>>
-----------------------------------------------------------------------------
HandlerStep(s) ==
    \/ Refuse(s) \/ PrepareDirectory(s) \/ PrepareMounts(s)
    \/ StartContainer(s) \/ MarkRunning(s) \/ RecordRunning(s)
    \/ StopContainer(s) \/ RemoveContainer(s) \/ DockerFails(s)
    \/ MarkStopped(s) \/ RecordStopped(s) \/ ReopenFailed(s)
    \/ BeginCommit(s) \/ Publish(s) \/ FailCommit(s) \/ FailUpper(s)
    \/ BeginDestroy(s)
    \/ handlers[s].pc = "remove" /\ (RemoveDirectory(s) \/ RemovalFails(s))

TaskStep(d) == Call(d) \/ Answered(d) \/ FailRun(d) \/ RecordReason(d)

ManagerStep == Restart \/ SetIntent \/ DiscardRow

RequestStep ==
    \/ \E r \in Runs : Start(r) \/ StartRefused(r)
    \/ \E reason \in Requests \cap {"USER_STOP", "SAVE_RESTART"} : UserStop(reason)
    \/ "OPEN" \in Requests /\ \E r \in Runs : OpenInstance(r)
    \/ "PUBLISH" \in Requests /\ \E r \in Runs : PublishFailedUpper(r)
    \/ "DISCARD" \in Requests /\ \E r \in Runs : DiscardFailedUpper(r, "DISCARD")
    \/ \E r \in Runs, waiter \in Waiters : FailStartup(r, waiter)

Background ==
    \/ \E r \in Runs : SeeExit(r)
    \/ FinalizeExited
    \/ \E r \in Runs : DiscardFailedUpper(r, "DISCARD_FAILED_START")
    \/ \E r \in Runs, waiter \in Waiters : EndReadinessWait(r, waiter)

Recovery ==
    \/ StartDaemon \/ NextPhase \/ RecoveryFails
    \/ \E r \in Runs : RecoverInterrupted(r) \/ RecoverControl(r) \/ RecoverStopped(r)
    \/ RecoverStoppedControl \/ RecoverIntent

LifecycleNext ==
    \/ \E s \in Slots : HandlerStep(s)
    \/ \E d \in Drivers : TaskStep(d)
    \/ ManagerStep \/ RequestStep \/ Background \/ Recovery
    \/ CloseDaemon \/ SaveInstances \/ ExitDaemon
    \/ \E r \in Runs : ContainerExits(r)
    \/ CrashDaemon \/ CrashManager

LifecycleSpec == LifecycleInit /\ [][LifecycleNext]_lifecycleVars

\* Both programs run whatever they have begun (Node's event loop; Docker has a
\* timeout), the daemon is started again (by systemd after a failure, by
\* whoever closed it after a close), the supervisor's timer keeps firing, a
\* readiness wait lasts 30 attempts, and the lock serves its waiters in order.
\* Nobody has to make a request, and no container has to exit.
Fairness ==
    /\ \A s \in Slots : WF_lifecycleVars(HandlerStep(s))
    /\ \A d \in Drivers : WF_lifecycleVars(TaskStep(d))
    /\ WF_lifecycleVars(ManagerStep)
    /\ WF_lifecycleVars(Recovery)
    /\ WF_lifecycleVars(SaveInstances) /\ WF_lifecycleVars(ExitDaemon)
    /\ \A r \in Runs :
          /\ WF_lifecycleVars(SeeExit(r))
          /\ \A waiter \in Waiters : WF_lifecycleVars(EndReadinessWait(r, waiter))
    /\ SF_lifecycleVars(FinalizeExited)

FairLifecycle == LifecycleSpec /\ Fairness
-----------------------------------------------------------------------------
(***************************************************************************)
(* Properties                                                              *)
(***************************************************************************)
HandlerSteps == {"begin", "mount", "mark", "markFailed", "record", "recordFailed",
                 "removeContainer", "remove", "publish", "failUpper", "control"}
TaskSteps == Calls \cup {"create", "reason", "intent", "intentKept",
                         "fail", "failKept", "discard"}
Operations == Waiters \cup StopReasons \cup
              {"START", "RESTART", "PUBLISH", "DISCARD", "DISCARD_FAILED_START"}

\* Every variable holds a value of its type.
LifecycleTypeOK ==
    /\ local \in [Runs -> LocalRunState]
    /\ container \in [Runs -> ContainerState]
    /\ launches \subseteq Runs
    /\ daemon \in DaemonPhase
    /\ handlers \in [Slots -> [op  : Calls \cup {None}, run : Runs \cup {None},
                               pc  : HandlerSteps \cup {None},
                               by  : Operations \cup {None}]]
    /\ tasks \in [Drivers -> [op  : Operations \cup {None}, run : Runs \cup {None},
                              pc  : TaskSteps \cup {None}]]
    /\ replies \in [Drivers -> {"none", "ok", "error"}]
    /\ waits \subseteq Runs \X Waiters
    /\ exitSeen \in BOOLEAN
    /\ discards \subseteq Runs
    /\ crashes \in 0 .. MaxCrashes

RecoveryTypeOK ==
    recovery \in [rows : [Runs -> OpenStates \cup {None}], intent : BOOLEAN,
                  reopened : SUBSET Runs]

\* The Upper is only ever scanned and published when it cannot change any
\* more: no container is left of the Run, its row is COMMITTING, and, unless a
\* program has crashed, its directory is there and stopped.  (A removal whose
\* caller has crashed goes on, and nothing keeps it from the new manager's
\* commit.)
CommitScansAQuietUpper ==
    \A s \in Slots : At(s, "commit", "publish") =>
        LET r == handlers[s].run
        IN  /\ container[r] = "none"
            /\ Control(r) = "COMMITTING"
            /\ crashes = 0 => local[r] = "STOPPED"

\* Two containers never write Uppers of the same Workspace.
OneContainer ==
    \A r, q \in Runs : container[r] # "none" /\ container[q] # "none" => r = q

\* While the daemon serves calls, a running container is one it knows of, of
\* a Run it can still stop.
ContainerIsKnown ==
    \A r \in Runs : daemon = "up" /\ container[r] = "running" =>
        r \in launches /\ local[r] \in {"PREPARED", "RUNNING"}

\* The two programs, the directories and the containers in every state: what
\* the tasks and handlers hold has its type, and no container is forgotten.
LifecycleInvariant == LifecycleTypeOK /\ RecoveryTypeOK /\ ContainerIsKnown

\* Where a directory that is gone, or half removed, leaves its Upper.
Gone == {"ABSENT", "CORRUPT"}

\* The directory of a Run, its Upper with it, only goes by a removal that was
\* asked for that very Run: after its output was committed, or by an operation
\* that is meant to drop it.  These are the owner's discard and three that the
\* manager begins by itself: the discard after a failed start, and the end of a
\* start or of an opening page that waited in vain for the program.  This holds
\* of a removal whose caller has crashed as well, whatever the next manager does.
UpperIsRemovedOnPurpose ==
    [][\A r \in Runs :
         local[r] \notin Gone /\ local'[r] \in Gone =>
           \E s \in Slots :
              /\ At(s, "destroy", "remove") /\ handlers[s].run = r
              /\ \/ Control(r) = "COMMITTED"
                 \/ handlers[s].by \in {"DISCARD", "DISCARD_FAILED_START"} \cup Waiters
      ]_lifecycleVars

\* When the daemon starts to serve calls again, nothing is left that it would
\* have to know from before: no container, no directory in use, no Run recorded
\* as running or as being committed, and a stopped one only if the owner asked
\* to publish it while the recovery was going on.
RecoveryReachesAVerdict ==
    [][daemon # "up" /\ daemon' = "up" =>
         \A r \in Runs : /\ container[r] = "none"
                         /\ local[r] \notin Interrupted
                         /\ Control(r) \notin {"RUNNING", "COMMITTING"}
                         /\ Control(r) = "STOPPED" => r \in recovery.reopened
      ]_lifecycleVars

\* Every operation on an Instance ends, so that its lock is released.
OperationsEnd == \A d \in Drivers : ~Idle(d) ~> Idle(d)

\* A commit that has begun is decided, whoever crashes meanwhile.
CommitIsDecided == \A r \in Runs : Control(r) = "COMMITTING" ~> Control(r) # "COMMITTING"

\* Once nobody disturbs its recovery, the daemon always comes back.
DaemonComesBack == <>[]Idle("manager") => []<>(daemon = "up")

\* A program that has ended is not shown as running for ever, unless a crash
\* comes in between.
ExitIsFinalized ==
    \A r \in Runs :
        /\ Control(r) = "RUNNING" /\ local[r] = "RUNNING"
        /\ container[r] \in {"exited0", "exited1"}
        ~> Control(r) # "RUNNING" \/ crashes > 0
-----------------------------------------------------------------------------
(***************************************************************************)
(* The inductive invariant of BwaLifecycleProofs: what the two programs    *)
(* know of each other's steps.                                             *)
(***************************************************************************)
ASSUME NoneIsNoStep == None \notin HandlerSteps \cup TaskSteps \cup Operations

Begins == {"START", "RESTART"}
Drops  == {"DISCARD", "DISCARD_FAILED_START"}

\* The steps a call goes through in the daemon, and an operation in the manager.
IsCallStep(op, pc) ==
    \/ op \in Calls /\ pc = "begin"
    \/ op = "prepareBwa" /\ pc = "mount"
    \/ op = "start" /\ pc \in {"mark", "record"}
    \/ op \in {"stop", "destroy", "preserve"} /\ pc \in {"removeContainer", "mark"}
    \/ op \in {"destroy", "preserve"} /\ pc = "remove"
    \/ op = "stop" /\ pc = "record"
    \/ op = "finalizeExited" /\ pc \in {"mark", "markFailed", "record", "recordFailed"}
    \/ op = "commit" /\ pc \in {"publish", "failUpper"}

IsTaskStep(op, pc) ==
    \/ op \in Begins /\ pc \in {"prepareBwa", "start", "preserve", "fail", "intent"}
    \/ op \in Waiters /\ pc \in {"destroy", "fail", "failKept", "intent", "intentKept", "discard"}
    \/ op \in Drops /\ pc \in {"destroy", "discard"}
    \/ op = "PUBLISH" /\ pc \in {"reopenFailed", "commit", "destroy", "fail"}
    \/ op \in StopReasons \ {"EXITED"} /\ pc \in {"reason", "stop", "commit", "destroy", "fail"}
    \/ op = "USER_STOP" /\ pc = "intent"
    \/ op = "SAVE_RESTART" /\ pc = "create"
    \/ op = "EXITED" /\ pc \in {"reason", "intent", "finalizeExited", "commit", "destroy"}

\* A driver that has called waits for the answer of exactly that call.
CallsAreWellFormed ==
    /\ \A s \in Slots : handlers[s] # NoHandler =>
          /\ handlers[s].run \in Runs
          /\ IF s = "recovery" THEN handlers[s].op = None /\ handlers[s].pc = "control"
                               ELSE IsCallStep(handlers[s].op, handlers[s].pc)
    /\ \A d \in Drivers : tasks[d] # NoTask =>
          /\ tasks[d].run \in Runs
          /\ IsTaskStep(tasks[d].op, tasks[d].pc)
          /\ tasks[d].op = "HOST_SHUTDOWN" <=> d = "shutdown"
    /\ \A d \in Drivers : handlers[d] # NoHandler =>
          /\ tasks[d].pc = handlers[d].op /\ tasks[d].run = handlers[d].run
          /\ replies[d] = "none"
    /\ \A d \in Drivers : replies[d] # "none" => tasks[d].pc \in Calls

\* Which calls the daemon can be executing in which of its phases.
PhasesServeCalls ==
    /\ daemon \notin {"up", "closing"} =>
          handlers["manager"] = NoHandler /\ handlers["orphan"] = NoHandler
    /\ daemon # "saving" => tasks["shutdown"] = NoTask
    /\ daemon # "host" => handlers["recovery"] = NoHandler
    /\ crashes = 0 => handlers["orphan"] = NoHandler

\* Every Run is one of the Instance, on its Workspace.
RunsAreTheInstances ==
    /\ instances[TheInstance].application = TheApplication
    /\ instances[TheInstance].workspace = TheWorkspace
    /\ \A r \in Runs : Control(r) # None =>
          runs[r].workspace = TheWorkspace /\ runs[r].instance = TheInstance

\* A Run is created before anybody works on it, and only its own start works on
\* it before it was RUNNING; a call whose caller crashed is never on a Run that
\* the new manager has just created.
HasStarted(r) == Control(r) \notin {None, "PREPARING"}
RunsHaveBegun ==
    /\ \A s \in Slots : handlers[s] # NoHandler => Control(handlers[s].run) # None
    /\ \A d \in Drivers : tasks[d] # NoTask =>
          /\ Control(tasks[d].run) # None
          /\ tasks[d].op \notin Begins => HasStarted(tasks[d].run)
    /\ \A w \in waits : HasStarted(w[1])
    /\ replies["manager"] = "ok" /\ tasks["manager"].pc = "start" =>
          HasStarted(tasks["manager"].run)
    /\ tasks["manager"].op \in Begins =>
          handlers["orphan"].run # tasks["manager"].run

\* While the directory of a Run is being prepared or waits for its container,
\* its row is PREPARING, and the directory is where the call left it: nobody else
\* has touched them.
StartsArePrepared ==
    /\ \A s \in Slots : handlers[s].op \in {"prepareBwa", "start"} =>
          LET r == handlers[s].run
          IN  handlers[s].pc # "begin" \/ local[r] \in {"PREPARING", "PREPARED"}
                 => Control(r) = "PREPARING"
    /\ tasks["manager"].pc \in {"prepareBwa", "start"} =>
          LET r == tasks["manager"].run
          IN  local[r] \in {"PREPARING", "PREPARED"} => Control(r) = "PREPARING"
    /\ \A s \in Slots : LET directory == local[handlers[s].run]
                      IN  /\ At(s, "prepareBwa", "mount") => directory = "PREPARING"
                          /\ At(s, "start", "mark") => directory = "PREPARED"
                          /\ At(s, "start", "record") => directory = "RUNNING"

\* A scan is of a Run that is being committed, by nobody else; an operation that
\* saves has committed before it destroys.
DropsOnlyCommitted ==
    /\ \A s \in Slots : At(s, "commit", "publish") =>
          /\ Control(handlers[s].run) = "COMMITTING"
          /\ \A q \in Slots \ {s} : At(q, "commit", "publish") => handlers[q].run # handlers[s].run
    /\ \A d \in Drivers :
          \/ replies[d] = "ok" /\ tasks[d].pc = "commit"
          \/ tasks[d].pc = "destroy" /\ tasks[d].op \in StopReasons \cup {"PUBLISH"}
          => Control(tasks[d].run) = "COMMITTED"

\* So has the caller of a call that destroys, whether or not it has crashed.
CallsSaveOrDrop ==
    \A s \in Slots : handlers[s].op = "destroy" =>
        \/ Control(handlers[s].run) = "COMMITTED"
        \/ handlers[s].by \in Drops \cup Waiters

\* What the daemon's memory, its phase and the directories say of each other.
DirectoriesAreKnown ==
    /\ daemon \in {"up"} \cup Closing =>
          \A r \in Runs : local[r] \in Interrupted => r \in launches
    /\ daemon \in Recovering \ {"interrupted"} => \A r \in Runs : local[r] \notin Interrupted
    /\ daemon \in Recovering => \A r \in Runs : local[r] # "CORRUPT"
    /\ crashes = 0 => \A s \in Slots :
          At(s, "commit", "publish") => local[handlers[s].run] = "STOPPED"

\* What a pass of the recovery has still to do is on its list, or was added by
\* the owner after the list was made.
RecoveryGoesByItsList ==
    /\ RecoveryTypeOK
    /\ daemon \notin Recovering => recovery = NoRecovery
    /\ \A r \in Runs : recovery.rows[r] # None =>
          daemon \in {"control", "host"} /\ Control(r) # None
    /\ daemon = "control" => \A r \in Runs :
          Control(r) \in {"RUNNING", "COMMITTING"} => recovery.rows[r] = Control(r)
    /\ daemon \in {"host", "listening"} => \A r \in Runs :
          /\ Control(r) \notin {"RUNNING", "COMMITTING"}
          /\ Control(r) = "STOPPED" => \/ r \in recovery.reopened
                                      \/ recovery.rows[r] # None
                                      \/ handlers["recovery"].run = r

CallsInvariant ==
    /\ LifecycleTypeOK /\ InductiveInvariant
    /\ CallsAreWellFormed /\ PhasesServeCalls /\ RunsAreTheInstances
    /\ RunsHaveBegun /\ StartsArePrepared /\ DropsOnlyCommitted /\ DirectoriesAreKnown
    /\ CallsSaveOrDrop /\ RecoveryGoesByItsList

\* A container belongs to an unresolved Run whose directory is in use, or is
\* just being started; nobody who stops, scans or drops an Upper has one left.
\* This needs a Docker that does what it is told.
ContainersAreInUse ==
    /\ \A r \in Runs : container[r] # "none" =>
          /\ IsUnresolved(Control(r))
          /\ \/ local[r] = "RUNNING"
             \/ /\ local[r] = "PREPARED"
                /\ \/ daemon \in {"down", "interrupted"}
                   \/ \E s \in Slots : At(s, "start", "mark") /\ handlers[s].run = r
    /\ \A s \in Slots :
          \/ /\ handlers[s].op \in {"stop", "destroy", "preserve", "finalizeExited"}
             /\ handlers[s].pc \in {"mark", "markFailed", "remove"}
          \/ At(s, "commit", "publish")
          => container[handlers[s].run] = "none"
    /\ LET task == tasks["manager"]
       IN  \/ task.op \in Waiters /\ task.pc \in {"fail", "intent", "discard"}
           \/ task.op \in Drops /\ task.pc = "discard"
           \/ task.op \in Waiters \cup Drops /\ task.pc = "destroy" /\ replies["manager"] = "ok"
           => container[task.run] = "none"
-----------------------------------------------------------------------------
(***************************************************************************)
(* A claim of the documents that the code does not keep                    *)
(***************************************************************************)

\* What an abnormal exit left is only removed when the owner asks for it.
AbnormalExitWaitsForTheOwner ==
    [][\A r \in Runs :
         /\ Control(r) = "FAILED" /\ runs[r].stopReason = "EXITED"
         /\ runs'[r].state = "DISCARDED"
         => tasks["manager"].op = "DISCARD"]_lifecycleVars
=============================================================================
