------------------------- MODULE BwaLifecycleProofs -------------------------
(***************************************************************************)
(* What BwaLifecycle keeps, proved for every number of Runs, crashes and   *)
(* requests, with the Docker, crash and shutdown switches open unless a    *)
(* theorem says otherwise.                                                 *)
(*                                                                         *)
(* CallsInvariant is the first half of the argument: which calls and       *)
(* operations there are, on which Runs, in which phase of the daemon, and  *)
(* what the row and the directory of those Runs say.  Its parts rest on    *)
(* each other, so one lemma per part and per group of actions assumes all  *)
(* of it.  The order is: the effect of every action on the store; types    *)
(* and the matching of calls with tasks; RunsHaveBegun; StartsArePrepared; *)
(* DropsOnlyCommitted; DirectoriesAreKnown; CallsSaveOrDrop;               *)
(* RecoveryGoesByItsList; then the theorems.                               *)
(*                                                                         *)
(* ContainersAreInUse is the second half: where the containers are.  It    *)
(* needs the first half and ~DockerMayFail.                                *)
(***************************************************************************)
EXTENDS BwaLifecycle, RefStoreProofs

USE DEF Control

-----------------------------------------------------------------------------
\* What the store's operations do to the Runs, and that each is one of its steps.

\* Nobody rebinds an Instance.
BindingsStay ==
    \A i \in Instances : /\ instances'[i].workspace = instances[i].workspace
                         /\ instances'[i].application = instances[i].application

RunIs(q, state) ==
    /\ runs'[q].state = state
    /\ runs'[q].workspace = runs[q].workspace /\ runs'[q].instance = runs[q].instance

\* Run r moves to this state, or no Run moves.
RunMoves(r, state) ==
    /\ \A q \in Runs : RunIs(q, IF q = r THEN state ELSE runs[q].state)
    /\ BindingsStay
    /\ [Next]_storeVars

RunsStay ==
    /\ \A q \in Runs : RunIs(q, runs[q].state)
    /\ BindingsStay
    /\ [Next]_storeVars

\* A step that writes nothing to the store moves no Run.
LEMMA StoreUnchanged == UNCHANGED storeVars => RunsStay
  BY DEF storeVars, RunsStay, RunIs, BindingsStay

\* transitionWorkspaceRun, as its callers ask for it, moves one Run.
LEMMA TransitionMoves ==
    ASSUME TypeOK, NEW r \in Runs, NEW from, NEW to, <<from, to>> \in RequestedRunTransition,
           TransitionWorkspaceRun(r, from, to)
    PROVE  RunMoves(r, to) /\ runs[r].state = from
<1>1. \E t \in RequestedRunTransition : TransitionWorkspaceRun(r, t[1], t[2])
  <2>1. <<from, to>>[1] = from /\ <<from, to>>[2] = to
    OBVIOUS
  <2> QED
    BY <2>1
<1>2. Next
  BY <1>1 DEF Next, RunStep
<1>3. runs' = [runs EXCEPT ![r].state = to] /\ UNCHANGED instances /\ runs[r].state = from
  BY DEF TransitionWorkspaceRun
<1>4. runs \in [Runs -> RunRow]
  BY DEF TypeOK
<1> QED
  BY <1>2, <1>3, <1>4 DEF RunMoves, RunIs, BindingsStay, RunRow

\* reopenFailedWorkspaceRun takes a FAILED Run back to STOPPED.
LEMMA ReopenMoves ==
    ASSUME TypeOK, NEW r \in Runs, ReopenFailedWorkspaceRun(r)
    PROVE  RunMoves(r, "STOPPED") /\ runs[r].state = "FAILED"
<1>1. Next
  BY DEF Next, RunStep
<1>2. runs' = [runs EXCEPT ![r].state = "STOPPED"] /\ UNCHANGED instances
      /\ runs[r].state = "FAILED"
  BY DEF ReopenFailedWorkspaceRun
<1>3. runs \in [Runs -> RunRow]
  BY DEF TypeOK
<1> QED
  BY <1>1, <1>2, <1>3 DEF RunMoves, RunIs, BindingsStay, RunRow

\* discardFailedWorkspaceRun ends a FAILED Run.
LEMMA DiscardMoves ==
    ASSUME TypeOK, NEW r \in Runs, DiscardFailedWorkspaceRun(r)
    PROVE  RunMoves(r, "DISCARDED") /\ runs[r].state = "FAILED"
<1>1. Next
  BY DEF Next, RunStep
<1>2. runs' = [runs EXCEPT ![r].state = "DISCARDED"] /\ UNCHANGED instances
      /\ runs[r].state = "FAILED"
  BY DEF DiscardFailedWorkspaceRun
<1>3. runs \in [Runs -> RunRow]
  BY DEF TypeOK
<1> QED
  BY <1>1, <1>2, <1>3 DEF RunMoves, RunIs, BindingsStay, RunRow

\* A commit ends in COMMITTED: the conflict it could report never happens.
LEMMA CommitMoves ==
    ASSUME InductiveInvariant, NEW r \in Runs, runs[r].workspace = TheWorkspace,
           NEW seen \in published[TheWorkspace],
           CommitWorkspaceRun(r, seen) \/ CompleteUnchangedWorkspaceRun(r, seen)
    PROVE  RunMoves(r, "COMMITTED") /\ runs[r].state = "COMMITTING"
<1>1. Next
  BY LifecycleConstants DEF Next, RunStep
<1>2. NoConflict' /\ runs \in [Runs -> RunRow]
  BY <1>1, NextPreservesInvariant DEF InductiveInvariant, TypeOK
<1>3. runs[r].state = "COMMITTING" /\ UNCHANGED instances
  BY DEF CommitWorkspaceRun, CompleteUnchangedWorkspaceRun
<1>4. PICK state, output :
         /\ state \in {"COMMITTED", "CONFLICT"}
         /\ runs' = [runs EXCEPT ![r].state = state, ![r].outputHead = output]
  BY DEF CommitWorkspaceRun, CompleteUnchangedWorkspaceRun
<1>5. state = "COMMITTED"
  BY <1>2, <1>4 DEF NoConflict, RunRow
<1> QED
  BY <1>1, <1>2, <1>3, <1>4, <1>5 DEF RunMoves, RunIs, BindingsStay, RunRow

\* A stop reason moves no Run.
LEMMA StopReasonStays ==
    ASSUME TypeOK, NEW r \in Runs, NEW reason \in StopReasons, SetBwaRunStopReason(r, reason)
    PROVE  RunsStay
<1>1. Next
  BY DEF Next, RunStep
<1>2. runs' = [runs EXCEPT ![r].stopReason = reason] /\ UNCHANGED instances
  BY DEF SetBwaRunStopReason
<1>3. runs \in [Runs -> RunRow]
  BY DEF TypeOK
<1> QED
  BY <1>1, <1>2, <1>3 DEF RunsStay, RunIs, BindingsStay, RunRow

\* Nor does what the owner wants of the Instance.
LEMMA DesiredStateStays ==
    ASSUME TypeOK, NEW desired \in {"STOPPED", "RUNNING"},
           SetBwaInstanceDesiredState(TheInstance, desired)
    PROVE  RunsStay
<1>1. Next
  BY LifecycleConstants DEF Next, ApplicationStep
<1>2. UNCHANGED runs /\ instances' = [instances EXCEPT ![TheInstance].desired = desired]
  BY DEF SetBwaInstanceDesiredState
<1>3. instances \in [Instances -> InstanceRow]
  BY DEF TypeOK
<1> QED
  BY <1>1, <1>2, <1>3 DEF RunsStay, RunIs, BindingsStay, InstanceRow

\* createBwaWorkspaceRun fills one empty row, while no other Run is unresolved.
LEMMA CreateRunMoves ==
    ASSUME TypeOK, RunsAreTheInstances, NEW r \in Runs,
           CreateBwaWorkspaceRun(r, TheInstance)
    PROVE  /\ runs[r].state = None /\ runs'[r].state = "PREPARING"
           /\ runs'[r].workspace = TheWorkspace /\ runs'[r].instance = TheInstance
           /\ \A q \in Runs \ {r} : runs'[q] = runs[q] /\ ~IsUnresolved(runs[q].state)
           /\ BindingsStay
           /\ [Next]_storeVars
<1>1. Next
  BY LifecycleConstants DEF Next, RunStep
<1>2. /\ runs[r] = NoRun
      /\ runs'[r].state = "PREPARING"
      /\ runs'[r].workspace = TheWorkspace /\ runs'[r].instance = TheInstance
      /\ \A q \in Runs \ {r} : runs'[q] = runs[q]
  BY DEF CreateBwaWorkspaceRun, TypeOK, RunRow, RunsAreTheInstances, NoRun
<1>3. instances' = [instances EXCEPT ![TheInstance].desired = "RUNNING"]
      /\ instances \in [Instances -> InstanceRow]
  BY DEF CreateBwaWorkspaceRun, TypeOK
<1>4. BindingsStay
  BY <1>3 DEF BindingsStay, InstanceRow
<1>5. \A q \in Runs : ~IsUnresolved(runs[q].state)
  BY NamesAreDistinct DEF CreateBwaWorkspaceRun, RunsAreTheInstances, BindingsOf, IsUnresolved,
     OpenStates, RunState
<1> QED
  BY <1>1, <1>2, <1>4, <1>5 DEF NoRun

-----------------------------------------------------------------------------
\* What the lifecycle's own actions do to the Runs.

\* A call the daemon works on is one of the kinds it knows, on a Run, at one of
\* the steps that call goes through.
LEMMA CallIsKnown ==
    ASSUME LifecycleTypeOK, CallsAreWellFormed, NEW s \in Slots,
           handlers[s].pc \in HandlerSteps \ {"control"}
    PROVE  /\ s # "recovery" /\ handlers[s] # NoHandler
           /\ handlers[s].run \in Runs /\ handlers[s].op \in Calls
           /\ IsCallStep(handlers[s].op, handlers[s].pc)
<1>1. handlers[s] # NoHandler
  BY NoneIsNoStep DEF NoHandler
<1> QED
  BY <1>1 DEF CallsAreWellFormed, IsCallStep, Calls

\* An operation the manager is at is one of the kinds it knows, on a Run.
LEMMA TaskIsKnown ==
    ASSUME LifecycleTypeOK, CallsAreWellFormed, NEW d \in Drivers, tasks[d].pc \in TaskSteps
    PROVE  /\ tasks[d] # NoTask
           /\ tasks[d].run \in Runs /\ tasks[d].op \in Operations
           /\ IsTaskStep(tasks[d].op, tasks[d].pc)
           /\ tasks[d].op = "HOST_SHUTDOWN" <=> d = "shutdown"
<1>1. tasks[d] # NoTask
  BY NoneIsNoStep DEF NoTask
<1> QED
  BY <1>1, LifecycleConstants DEF CallsAreWellFormed, IsTaskStep, Operations, Begins, Drops

\* What each step of a call does to the Runs: a start records RUNNING.
LEMMA RecordRunningMoves ==
    ASSUME CallsInvariant, NEW s \in Slots, RecordRunning(s)
    PROVE  RunMoves(handlers[s].run, "RUNNING") /\ Control(handlers[s].run) = "PREPARING"
<1>1. handlers[s].run \in Runs
  BY CallIsKnown DEF CallsInvariant, RecordRunning, At, HandlerSteps
<1> QED
  BY <1>1, TransitionMoves DEF CallsInvariant, InductiveInvariant, RecordRunning,
     RequestedRunTransition

\* A stop records STOPPED or FAILED, of a Run that is RUNNING, or nothing.
LEMMA RecordStoppedMoves ==
    ASSUME CallsInvariant, NEW s \in Slots, RecordStopped(s)
    PROVE  \/ RunsStay /\ Control(handlers[s].run) # "RUNNING"
           \/ /\ Control(handlers[s].run) = "RUNNING"
              /\ \E state \in {"STOPPED", "FAILED"} : RunMoves(handlers[s].run, state)
<1>1. handlers[s].run \in Runs
  BY CallIsKnown DEF CallsInvariant, RecordStopped, HandlerSteps
<1> QED
  BY <1>1, TransitionMoves, StoreUnchanged DEF CallsInvariant, InductiveInvariant, RecordStopped,
     RequestedRunTransition, OpenStates

\* A commit begins with a STOPPED Run.
LEMMA BeginCommitMoves ==
    ASSUME CallsInvariant, NEW s \in Slots, BeginCommit(s)
    PROVE  RunMoves(handlers[s].run, "COMMITTING") /\ Control(handlers[s].run) = "STOPPED"
<1>1. handlers[s].run \in Runs
  BY CallIsKnown DEF CallsInvariant, BeginCommit, At, HandlerSteps
<1> QED
  BY <1>1, TransitionMoves DEF CallsInvariant, InductiveInvariant, BeginCommit,
     RequestedRunTransition

\* A publication commits: the head is still the one the Run started from.
LEMMA PublishMoves ==
    ASSUME CallsInvariant, NEW s \in Slots, Publish(s)
    PROVE  RunMoves(handlers[s].run, "COMMITTED") /\ Control(handlers[s].run) = "COMMITTING"
<1>1. handlers[s].run \in Runs
  BY CallIsKnown DEF CallsInvariant, Publish, At, HandlerSteps
<1>2. runs[handlers[s].run].workspace = TheWorkspace
  BY <1>1, NamesAreDistinct DEF CallsInvariant, DropsOnlyCommitted, RunsAreTheInstances, Publish,
     RunState
<1> QED
  BY <1>1, <1>2, CommitMoves DEF CallsInvariant, Publish

\* A failed scan fails a COMMITTING Run.
LEMMA FailCommitMoves ==
    ASSUME CallsInvariant, NEW s \in Slots, FailCommit(s)
    PROVE  RunMoves(handlers[s].run, "FAILED") /\ Control(handlers[s].run) = "COMMITTING"
<1>1. handlers[s].run \in Runs
  BY CallIsKnown DEF CallsInvariant, FailCommit, At, HandlerSteps
<1> QED
  BY <1>1, TransitionMoves DEF CallsInvariant, InductiveInvariant, FailCommit,
     RequestedRunTransition, OpenStates

\* What each operation of the manager does to the Runs: #failRunIfActive.
LEMMA FailRunMoves ==
    ASSUME CallsInvariant, NEW d \in Drivers, FailRun(d)
    PROVE  \/ RunsStay
           \/ /\ RunMoves(tasks[d].run, "FAILED")
              /\ Control(tasks[d].run) \in {"PREPARING", "RUNNING", "STOPPED"}
<1>1. tasks[d].run \in Runs
  BY TaskIsKnown DEF CallsInvariant, FailRun, TaskSteps
<1> QED
  BY <1>1, TransitionMoves, StoreUnchanged DEF CallsInvariant, InductiveInvariant, FailRun,
     RequestedRunTransition, OpenStates

\* The reason of a stop moves no Run.
LEMMA RecordReasonMoves ==
    ASSUME CallsInvariant, NEW d \in Drivers, RecordReason(d)
    PROVE  RunsStay
<1>1. tasks[d].run \in Runs /\ tasks[d].op \in StopReasons
  BY TaskIsKnown, LifecycleConstants
     DEF CallsInvariant, RecordReason, TaskSteps, IsTaskStep, Begins, Drops, Waiters
<1> QED
  BY <1>1, StopReasonStays, StoreUnchanged DEF CallsInvariant, InductiveInvariant, RecordReason

\* Nor does the intent.
LEMMA SetIntentMoves ==
    ASSUME CallsInvariant, SetIntent
    PROVE  RunsStay
<1>1. \E desired \in {"STOPPED", "RUNNING"} : SetBwaInstanceDesiredState(TheInstance, desired)
  BY DEF SetIntent
<1> QED
  BY <1>1, DesiredStateStays DEF CallsInvariant, InductiveInvariant

\* Only a FAILED Run is discarded.
LEMMA DiscardRowMoves ==
    ASSUME CallsInvariant, DiscardRow
    PROVE  \/ RunsStay
           \/ /\ RunMoves(tasks["manager"].run, "DISCARDED")
              /\ Control(tasks["manager"].run) = "FAILED"
<1>1. tasks["manager"].run \in Runs
  BY TaskIsKnown DEF CallsInvariant, DiscardRow, TaskSteps, Drivers
<1> QED
  BY <1>1, DiscardMoves, StoreUnchanged DEF CallsInvariant, InductiveInvariant, DiscardRow

\* Recovery only moves open Runs, to STOPPED or FAILED.
LEMMA RecoverControlMoves ==
    ASSUME CallsInvariant, NEW r \in Runs, RecoverControl(r)
    PROVE  \/ RunsStay /\ RecoveredControl(r) = None
           \/ /\ Control(r) \in OpenStates
              /\ \E state \in {"STOPPED", "FAILED"} : RunMoves(r, state)
<1>1. CASE RecoveredControl(r) = None
  BY <1>1, StoreUnchanged DEF RecoverControl
<1>2. CASE RecoveredControl(r) # None
  <2>1. recovery.rows[r] \in OpenStates
    BY DEF CallsInvariant, RecoveryGoesByItsList, RecoveryTypeOK, RecoverControl
  <2>2. /\ RecoveredControl(r) \in {"STOPPED", "FAILED"}
        /\ RecoveredControl(r) = "STOPPED" => recovery.rows[r] = "RUNNING"
    BY <1>2 DEF RecoveredControl
  <2>3. TypeOK /\ TransitionWorkspaceRun(r, recovery.rows[r], RecoveredControl(r))
    BY <1>2 DEF RecoverControl, CallsInvariant, InductiveInvariant
  <2>4. <<recovery.rows[r], RecoveredControl(r)>> \in RequestedRunTransition
    BY <2>1, <2>2 DEF RequestedRunTransition
  <2> QED
    BY <2>1, <2>2, <2>3, <2>4, TransitionMoves
<1> QED
  BY <1>1, <1>2

\* The host's recovery fails what is STOPPED.
LEMMA RecoverStoppedControlMoves ==
    ASSUME CallsInvariant, RecoverStoppedControl
    PROVE  /\ RunMoves(handlers["recovery"].run, "FAILED")
           /\ Control(handlers["recovery"].run) = "STOPPED"
<1>1. handlers["recovery"].run \in Runs
  BY DEF CallsInvariant, RecoverStoppedControl, CallsAreWellFormed, Slots
<1> QED
  BY <1>1, TransitionMoves DEF CallsInvariant, InductiveInvariant, RecoverStoppedControl,
     RequestedRunTransition, OpenStates

\* And takes back the wish to run.
LEMMA RecoverIntentMoves ==
    ASSUME CallsInvariant, RecoverIntent
    PROVE  RunsStay
  BY DesiredStateStays DEF CallsInvariant, InductiveInvariant, RecoverIntent

\* No step takes a Run back: what has begun has begun, what has started has
\* started, and what is committed stays committed.
RunsAdvance ==
    \A q \in Runs :
        /\ Control(q) # None => runs'[q].state # None
        /\ HasStarted(q) => HasStarted(q)'
        /\ Control(q) = "COMMITTED" => runs'[q].state = "COMMITTED"

\* The three ways a step treats the Runs, and that none takes one back.
LEMMA StayingAdvances ==
    ASSUME RunsAreTheInstances, RunsStay
    PROVE  RunsAdvance /\ RunsAreTheInstances' /\ [Next]_storeVars
  BY LifecycleConstants DEF RunsStay, RunIs, BindingsStay, RunsAdvance, HasStarted,
     RunsAreTheInstances

\* A Run that moves was open or FAILED.
LEMMA MovingAdvances ==
    ASSUME RunsAreTheInstances, NEW r \in Runs, NEW state \in RunState \ {"PREPARING"},
           Control(r) \in OpenStates \cup {"FAILED"}, RunMoves(r, state)
    PROVE  RunsAdvance /\ RunsAreTheInstances' /\ [Next]_storeVars
  BY LifecycleConstants, NamesAreDistinct DEF RunMoves, RunIs, BindingsStay, RunsAdvance,
     HasStarted, RunsAreTheInstances, OpenStates, RunState

\* A Run that is created was not there.
LEMMA CreationAdvances ==
    ASSUME TypeOK, RunsAreTheInstances, NEW r \in Runs, CreateBwaWorkspaceRun(r, TheInstance)
    PROVE  RunsAdvance /\ RunsAreTheInstances' /\ [Next]_storeVars
<1>1. /\ runs[r].state = None /\ runs'[r].state = "PREPARING"
      /\ runs'[r].workspace = TheWorkspace /\ runs'[r].instance = TheInstance
      /\ \A q \in Runs \ {r} : runs'[q] = runs[q]
      /\ BindingsStay
      /\ [Next]_storeVars
  BY CreateRunMoves
<1>2. RunsAdvance
  BY <1>1, NamesAreDistinct DEF RunsAdvance, HasStarted, RunState
<1>3. RunsAreTheInstances'
  BY <1>1, LifecycleConstants DEF BindingsStay, RunsAreTheInstances
<1> QED
  BY <1>1, <1>2, <1>3

\* Every step of the two programs is a transaction of the store, or none.
LEMMA StepsAdvance ==
    ASSUME CallsInvariant, [LifecycleNext]_lifecycleVars
    PROVE  RunsAdvance /\ RunsAreTheInstances' /\ InductiveInvariant' /\ [Next]_storeVars
<1> USE StayingAdvances, MovingAdvances
<1>1. TypeOK /\ RunsAreTheInstances
  BY DEF CallsInvariant, InductiveInvariant
<1>2. CASE UNCHANGED storeVars
  BY <1>1, <1>2, StoreUnchanged, NextPreservesInvariant DEF CallsInvariant
<1>3. ASSUME NEW s \in Slots, HandlerStep(s)
      PROVE  UNCHANGED storeVars \/ (RunsAdvance /\ RunsAreTheInstances' /\ [Next]_storeVars)
  <2>1. CASE RecordRunning(s)
    BY <1>1, <2>1, RecordRunningMoves, CallIsKnown
       DEF CallsInvariant, RecordRunning, At, HandlerSteps, OpenStates, RunState
  <2>2. CASE RecordStopped(s)
    BY <1>1, <2>2, RecordStoppedMoves, CallIsKnown
       DEF CallsInvariant, RecordStopped, HandlerSteps, OpenStates, RunState
  <2>3. CASE BeginCommit(s)
    BY <1>1, <2>3, BeginCommitMoves, CallIsKnown
       DEF CallsInvariant, BeginCommit, At, HandlerSteps, OpenStates, RunState
  <2>4. CASE Publish(s)
    BY <1>1, <2>4, PublishMoves, CallIsKnown
       DEF CallsInvariant, Publish, At, HandlerSteps, OpenStates, RunState
  <2>5. CASE FailCommit(s)
    BY <1>1, <2>5, FailCommitMoves, CallIsKnown
       DEF CallsInvariant, FailCommit, At, HandlerSteps, OpenStates, RunState
  <2>6. CASE UNCHANGED storeVars
    BY <2>6
  <2> QED
    BY <1>3, <2>1, <2>2, <2>3, <2>4, <2>5, <2>6
       DEF HandlerStep, Refuse, PrepareDirectory, PrepareMounts, StartContainer, MarkRunning,
           StopContainer, RemoveContainer, DockerFails, MarkStopped, ReopenFailed, FailUpper,
           BeginDestroy, RemoveDirectory, RemovalFails
<1>4. ASSUME NEW d \in Drivers, TaskStep(d)
      PROVE  UNCHANGED storeVars \/ (RunsAdvance /\ RunsAreTheInstances' /\ [Next]_storeVars)
  <2>1. CASE FailRun(d)
    BY <1>1, <2>1, FailRunMoves, TaskIsKnown
       DEF CallsInvariant, FailRun, TaskSteps, OpenStates, RunState
  <2>2. CASE RecordReason(d)
    BY <1>1, <2>2, RecordReasonMoves
  <2> QED
    BY <1>4, <2>1, <2>2 DEF TaskStep, Call, Answered
<1>5. ASSUME ManagerStep
      PROVE  UNCHANGED storeVars \/ (RunsAdvance /\ RunsAreTheInstances' /\ [Next]_storeVars)
  <2>1. CASE SetIntent
    BY <1>1, <2>1, SetIntentMoves
  <2>2. CASE DiscardRow
    BY <1>1, <2>2, DiscardRowMoves, TaskIsKnown
       DEF CallsInvariant, DiscardRow, TaskSteps, Drivers, RunState
  <2>3. CASE Restart
    BY <1>1, <2>3, CreationAdvances DEF Restart, CreateRun
  <2> QED
    BY <1>5, <2>1, <2>2, <2>3 DEF ManagerStep
<1>6. ASSUME RequestStep
      PROVE  UNCHANGED storeVars \/ (RunsAdvance /\ RunsAreTheInstances' /\ [Next]_storeVars)
  <2>1. ASSUME NEW r \in Runs, Start(r)
        PROVE  RunsAdvance /\ RunsAreTheInstances' /\ [Next]_storeVars
    BY <1>1, <2>1, CreationAdvances DEF Start, CreateRun
  <2>2. ASSUME NEW r \in Runs, PublishFailedUpper(r)
        PROVE  RunsAdvance /\ RunsAreTheInstances' /\ [Next]_storeVars
    BY <1>1, <2>2, ReopenMoves DEF PublishFailedUpper, RunState
  <2> QED
    BY <1>6, <2>1, <2>2
       DEF RequestStep, StartRefused, UserStop, OpenInstance, DiscardFailedUpper, FailStartup
<1>7. ASSUME Recovery
      PROVE  UNCHANGED storeVars \/ (RunsAdvance /\ RunsAreTheInstances' /\ [Next]_storeVars)
  <2>1. ASSUME NEW r \in Runs, RecoverControl(r)
        PROVE  RunsAdvance /\ RunsAreTheInstances' /\ [Next]_storeVars
    BY <1>1, <2>1, RecoverControlMoves DEF OpenStates, RunState
  <2>2. CASE RecoverStoppedControl
    BY <1>1, <2>2, RecoverStoppedControlMoves
       DEF CallsInvariant, RecoverStoppedControl, CallsAreWellFormed, Slots, OpenStates, RunState
  <2>3. CASE RecoverIntent
    BY <1>1, <2>3, RecoverIntentMoves
  <2> QED
    BY <1>7, <2>1, <2>2, <2>3
       DEF Recovery, StartDaemon, NextPhase, RecoveryFails, RecoverInterrupted, RecoverStopped
<1>8. UNCHANGED storeVars \/ (RunsAdvance /\ RunsAreTheInstances' /\ [Next]_storeVars)
  <2>1. CASE LifecycleNext
    BY <2>1, <1>3, <1>4, <1>5, <1>6, <1>7
       DEF LifecycleNext, Background, SeeExit, FinalizeExited, DiscardFailedUpper,
           EndReadinessWait, CloseDaemon, SaveInstances, ExitDaemon, ContainerExits,
           CrashDaemon, CrashManager
  <2>2. CASE UNCHANGED lifecycleVars
    BY <2>2 DEF lifecycleVars
  <2> QED
    BY <2>1, <2>2
<1>9. InductiveInvariant'
  BY <1>2, <1>8, NextPreservesInvariant DEF CallsInvariant
<1> QED
  BY <1>2, <1>8, <1>9

-----------------------------------------------------------------------------
\* Types, and who waits for which call.

HandlerRow == [op : Calls \cup {None}, run : Runs \cup {None}, pc : HandlerSteps \cup {None},
               by : Operations \cup {None}]

\* A call goes on with its next step or is answered; nobody else's call moves.
LEMMA HandlerStepMoves ==
    ASSUME LifecycleTypeOK, CallsAreWellFormed, NEW s \in Slots, HandlerStep(s)
    PROVE  /\ s # "recovery" /\ handlers[s] # NoHandler
           /\ handlers[s].op \in Calls /\ handlers[s].run \in Runs
           /\ IsCallStep(handlers[s].op, handlers[s].pc)
           /\ \A q \in Slots \ {s} : handlers'[q] = handlers[q]
           /\ handlers' \in [Slots -> HandlerRow]
           /\ UNCHANGED <<tasks, waits, exitSeen, discards, daemon, crashes>>
           /\ \/ /\ handlers'[s].run = handlers[s].run /\ handlers'[s].op = handlers[s].op
                 /\ handlers'[s].by = handlers[s].by
                 /\ IsCallStep(handlers[s].op, handlers'[s].pc)
                 /\ handlers'[s].pc # "begin"
                 /\ UNCHANGED replies
              \/ /\ handlers'[s] = NoHandler
                 /\ \E answer \in {"ok", "error"} :
                       replies' = [d \in Drivers |-> IF d = s THEN answer ELSE replies[d]]
<1>1. handlers[s].pc \in HandlerSteps \ {"control"}
  BY DEF HandlerStep, Refuse, PrepareDirectory, PrepareMounts, StartContainer, MarkRunning,
     RecordRunning, StopContainer, RemoveContainer, DockerFails, MarkStopped, RecordStopped,
     ReopenFailed, BeginCommit, Publish, FailCommit, FailUpper, BeginDestroy, RemoveDirectory,
     RemovalFails,
     At, HandlerSteps
<1>2. /\ s # "recovery" /\ handlers[s] # NoHandler
      /\ handlers[s].op \in Calls /\ handlers[s].run \in Runs
      /\ IsCallStep(handlers[s].op, handlers[s].pc)
  BY <1>1, CallIsKnown
<1>3. UNCHANGED <<tasks, waits, exitSeen, discards, daemon, crashes>>
  BY DEF HandlerStep, Refuse, PrepareDirectory, PrepareMounts, StartContainer, MarkRunning,
     RecordRunning, StopContainer, RemoveContainer, DockerFails, MarkStopped, RecordStopped,
     ReopenFailed, BeginCommit, Publish, FailCommit, FailUpper, BeginDestroy, RemoveDirectory,
     RemovalFails, managerVars, daemonVars
<1>4. \/ \E pc \in HandlerSteps \ {"begin"} : IsCallStep(handlers[s].op, pc) /\ Goto(s, pc)
      \/ \E answer \in {"ok", "error"} : Reply(s, answer)
  BY <1>2 DEF HandlerStep, Refuse, PrepareDirectory, PrepareMounts, StartContainer, MarkRunning,
     RecordRunning, StopContainer, RemoveContainer, DockerFails, MarkStopped, RecordStopped,
     ReopenFailed, BeginCommit, Publish, FailCommit, FailUpper, BeginDestroy, RemoveDirectory,
     RemovalFails,
     At, Stops, IsCallStep, Calls, HandlerSteps
<1>5. handlers \in [Slots -> HandlerRow]
  BY DEF LifecycleTypeOK, HandlerRow
<1>6. ASSUME NEW pc \in HandlerSteps \ {"begin"}, IsCallStep(handlers[s].op, pc), Goto(s, pc)
      PROVE  /\ \A q \in Slots \ {s} : handlers'[q] = handlers[q]
             /\ handlers' \in [Slots -> HandlerRow]
             /\ handlers'[s].run = handlers[s].run /\ handlers'[s].op = handlers[s].op
             /\ handlers'[s].by = handlers[s].by /\ handlers'[s].pc = pc
             /\ UNCHANGED replies
  BY <1>5, <1>6 DEF Goto, HandlerRow
<1>7. ASSUME NEW answer, Reply(s, answer)
      PROVE  /\ \A q \in Slots \ {s} : handlers'[q] = handlers[q]
             /\ handlers' \in [Slots -> HandlerRow]
             /\ handlers'[s] = NoHandler
  BY <1>5, <1>7 DEF Reply, HandlerRow, NoHandler
<1>8. CASE \E pc \in HandlerSteps \ {"begin"} : IsCallStep(handlers[s].op, pc) /\ Goto(s, pc)
  BY <1>2, <1>3, <1>6, <1>8
<1>9. CASE \E answer \in {"ok", "error"} : Reply(s, answer)
  <2>1. PICK answer \in {"ok", "error"} : Reply(s, answer)
    BY <1>9
  <2>2. replies' = [d \in Drivers |-> IF d = s THEN answer ELSE replies[d]]
    BY <2>1 DEF Reply
  <2> QED
    BY <1>2, <1>3, <1>7, <2>1, <2>2
<1> QED
  BY <1>4, <1>8, <1>9

\* A call writes to the directory, the container and the memory of its own Run.
LEMMA HandlerStepIsLocal ==
    ASSUME LifecycleTypeOK, CallsAreWellFormed, NEW s \in Slots, HandlerStep(s)
    PROVE  /\ local' \in [Runs -> LocalRunState] /\ container' \in [Runs -> ContainerState]
           /\ launches' \subseteq Runs
           /\ \A q \in Runs \ {handlers[s].run} :
                 /\ local'[q] = local[q] /\ container'[q] = container[q]
                 /\ q \in launches' <=> q \in launches
<1> DEFINE r == handlers[s].run
<1>1. r \in Runs
  BY HandlerStepMoves
<1>2. \/ UNCHANGED local
      \/ \E state \in LocalRunState : SetLocal(r, state)
  BY <1>1 DEF HandlerStep, Refuse, PrepareDirectory, PrepareMounts, StartContainer, MarkRunning,
     RecordRunning, StopContainer, RemoveContainer, DockerFails, MarkStopped, RecordStopped,
     ReopenFailed, BeginCommit, Publish, FailCommit, FailUpper, BeginDestroy, RemoveDirectory,
     RemovalFails,
     LifecycleTypeOK, LocalRunState, MarkFailed, runtimeVars
<1>3. \/ UNCHANGED container
      \/ \E state \in ContainerState : container' = [container EXCEPT ![r] = state]
  BY <1>1 DEF HandlerStep, Refuse, PrepareDirectory, PrepareMounts, StartContainer, MarkRunning,
     RecordRunning, StopContainer, RemoveContainer, DockerFails, MarkStopped, RecordStopped,
     ReopenFailed, BeginCommit, Publish, FailCommit, FailUpper, BeginDestroy, RemoveDirectory,
     RemovalFails,
     LifecycleTypeOK, ContainerState, runtimeVars
<1>4. UNCHANGED launches \/ Forget(r) \/ launches' = launches \cup {r}
  BY DEF HandlerStep, Refuse, PrepareDirectory, PrepareMounts, StartContainer, MarkRunning,
     RecordRunning, StopContainer, RemoveContainer, DockerFails, MarkStopped, RecordStopped,
     ReopenFailed, BeginCommit, Publish, FailCommit, FailUpper, BeginDestroy, RemoveDirectory,
     RemovalFails, runtimeVars
<1>5. local' \in [Runs -> LocalRunState] /\ \A q \in Runs \ {r} : local'[q] = local[q]
  BY <1>1, <1>2 DEF LifecycleTypeOK, SetLocal
<1>6. container' \in [Runs -> ContainerState]
      /\ \A q \in Runs \ {r} : container'[q] = container[q]
  BY <1>1, <1>3 DEF LifecycleTypeOK
<1>7. launches' \subseteq Runs /\ \A q \in Runs \ {r} : q \in launches' <=> q \in launches
  BY <1>1, <1>4 DEF LifecycleTypeOK, Forget
<1> QED
  BY <1>5, <1>6, <1>7

\* A step of a call keeps the types, the matching of calls and tasks, and the phases.
LEMMA HandlerStepTypes ==
    ASSUME LifecycleTypeOK, CallsAreWellFormed, PhasesServeCalls,
           NEW s \in Slots, HandlerStep(s)
    PROVE  LifecycleTypeOK' /\ CallsAreWellFormed' /\ PhasesServeCalls'
<1>1. local' \in [Runs -> LocalRunState] /\ container' \in [Runs -> ContainerState]
      /\ launches' \subseteq Runs
  BY HandlerStepIsLocal
<1>2. replies' \in [Drivers -> {"none", "ok", "error"}]
  BY HandlerStepMoves DEF LifecycleTypeOK
<1>3. LifecycleTypeOK'
  BY <1>1, <1>2, HandlerStepMoves DEF LifecycleTypeOK, HandlerRow
<1>4. CallsAreWellFormed'
  <2>1. ASSUME NEW q \in Slots, handlers'[q] # NoHandler
        PROVE  /\ handlers'[q].run \in Runs
               /\ IF q = "recovery" THEN handlers'[q].op = None /\ handlers'[q].pc = "control"
                                    ELSE IsCallStep(handlers'[q].op, handlers'[q].pc)
    <3>1. CASE q = s
      BY HandlerStepMoves, <2>1, <3>1
    <3>2. CASE q # s
      BY HandlerStepMoves, <2>1, <3>2 DEF CallsAreWellFormed
    <3> QED
      BY <3>1, <3>2
  <2>2. ASSUME NEW d \in Drivers, handlers'[d] # NoHandler
        PROVE  /\ tasks'[d].pc = handlers'[d].op /\ tasks'[d].run = handlers'[d].run
               /\ replies'[d] = "none"
    <3>1. CASE d = s
      BY HandlerStepMoves, <2>2, <3>1 DEF CallsAreWellFormed
    <3>2. CASE d # s
      BY HandlerStepMoves, <2>2, <3>2 DEF CallsAreWellFormed, Slots
    <3> QED
      BY <3>1, <3>2
  <2>3. ASSUME NEW d \in Drivers, replies'[d] # "none"
        PROVE  tasks'[d].pc \in Calls
    BY HandlerStepMoves, <2>3 DEF CallsAreWellFormed
  <2>4. UNCHANGED tasks
    BY HandlerStepMoves
  <2> QED
    BY <2>1, <2>2, <2>3, <2>4 DEF CallsAreWellFormed, NoHandler, NoTask
<1>5. PhasesServeCalls'
  BY HandlerStepMoves DEF PhasesServeCalls, NoHandler, NoTask, Slots, Drivers
<1> QED
  BY <1>3, <1>4, <1>5

TaskRow == [op : Operations \cup {None}, run : Runs \cup {None}, pc : TaskSteps \cup {None}]

TaskIsFormed(task, d) ==
    task # NoTask => /\ task.run \in Runs /\ IsTaskStep(task.op, task.pc)
                     /\ task.op = "HOST_SHUTDOWN" <=> d = "shutdown"

\* The task of driver d becomes this one, and the other driver's stays.
TaskBecomes(d, task) ==
    /\ tasks'[d] = task /\ task \in TaskRow /\ TaskIsFormed(task, d)
    /\ \A e \in Drivers \ {d} : tasks'[e] = tasks[e]
    /\ tasks' \in [Drivers -> TaskRow]

\* What Step, Begin and End make of a task, as one record.
LEMMA StepBecomes ==
    ASSUME LifecycleTypeOK, CallsAreWellFormed, NEW d \in Drivers, tasks[d].pc \in TaskSteps,
           NEW pc \in TaskSteps, IsTaskStep(tasks[d].op, pc), Step(d, pc)
    PROVE  TaskBecomes(d, [op |-> tasks[d].op, run |-> tasks[d].run, pc |-> pc])
<1>1. tasks \in [Drivers -> TaskRow]
  BY DEF LifecycleTypeOK, TaskRow
<1>2. tasks[d].run \in Runs /\ (tasks[d].op = "HOST_SHUTDOWN" <=> d = "shutdown")
  BY TaskIsKnown
<1>3. tasks'[d] = [op |-> tasks[d].op, run |-> tasks[d].run, pc |-> pc]
      /\ (\A e \in Drivers \ {d} : tasks'[e] = tasks[e]) /\ tasks' \in [Drivers -> TaskRow]
  BY <1>1 DEF Step, TaskRow
<1> QED
  BY <1>1, <1>2, <1>3 DEF TaskBecomes, TaskIsFormed, TaskRow

\* A task that is begun is well formed.
LEMMA BeginBecomes ==
    ASSUME LifecycleTypeOK, NEW d \in Drivers, NEW op \in Operations, NEW r \in Runs,
           NEW pc \in TaskSteps, IsTaskStep(op, pc), op = "HOST_SHUTDOWN" <=> d = "shutdown",
           Begin(d, op, r, pc)
    PROVE  TaskBecomes(d, [op |-> op, run |-> r, pc |-> pc])
<1>1. tasks \in [Drivers -> TaskRow]
  BY DEF LifecycleTypeOK, TaskRow
<1>2. tasks'[d] = [op |-> op, run |-> r, pc |-> pc]
      /\ (\A e \in Drivers \ {d} : tasks'[e] = tasks[e]) /\ tasks' \in [Drivers -> TaskRow]
  BY <1>1 DEF Begin, TaskRow
<1> QED
  BY <1>1, <1>2 DEF TaskBecomes, TaskIsFormed, TaskRow

\* A task that ends is gone.
LEMMA EndBecomes ==
    ASSUME LifecycleTypeOK, NEW d \in Drivers, tasks' = [tasks EXCEPT ![d] = NoTask]
    PROVE  TaskBecomes(d, NoTask)
<1>1. tasks \in [Drivers -> TaskRow] /\ NoTask \in TaskRow
  BY DEF LifecycleTypeOK, TaskRow, NoTask
<1> QED
  BY <1>1 DEF TaskBecomes, TaskIsFormed

\* A driver that is not at a call has none running and no answer waiting.
LEMMA NoCallPending ==
    ASSUME LifecycleTypeOK, CallsAreWellFormed, NEW d \in Drivers, tasks[d].pc \notin Calls
    PROVE  handlers[d] = NoHandler /\ replies[d] = "none"
<1>1. d \in Slots /\ d # "recovery"
  BY DEF Slots, Drivers
<1>2. handlers[d] # NoHandler => handlers[d].op \in Calls
  BY <1>1 DEF CallsAreWellFormed, IsCallStep, Calls
<1> QED
  BY <1>2 DEF CallsAreWellFormed

\* What the manager remembers has its type.
MemoryTypeOK == waits \subseteq Runs \X Waiters /\ exitSeen \in BOOLEAN /\ discards \subseteq Runs

\* An operation moves on while it has no call running: the types are kept.
LEMMA TaskMoveKeepsTypes ==
    ASSUME LifecycleTypeOK, CallsAreWellFormed, PhasesServeCalls,
           NEW d \in Drivers, tasks[d].pc \notin Calls, NEW task, TaskBecomes(d, task),
           d = "manager" \/ task = NoTask \/ daemon = "saving", MemoryTypeOK',
           UNCHANGED <<runtimeVars, callVars, daemon, crashes>>
    PROVE  LifecycleTypeOK' /\ CallsAreWellFormed' /\ PhasesServeCalls'
<1>1. handlers[d] = NoHandler /\ replies[d] = "none"
  BY NoCallPending
<1>2. /\ UNCHANGED <<local, container, launches, handlers, replies, daemon, crashes>>
      /\ tasks' \in [Drivers -> TaskRow]
      /\ tasks'[d] = task /\ \A e \in Drivers \ {d} : tasks'[e] = tasks[e]
  BY DEF runtimeVars, callVars, TaskBecomes
<1>3. LifecycleTypeOK'
  BY <1>2 DEF LifecycleTypeOK, MemoryTypeOK, TaskRow
<1>4. \A e \in Drivers : tasks'[e] # NoTask =>
         /\ tasks'[e].run \in Runs /\ IsTaskStep(tasks'[e].op, tasks'[e].pc)
         /\ tasks'[e].op = "HOST_SHUTDOWN" <=> e = "shutdown"
  BY <1>2 DEF TaskBecomes, TaskIsFormed, CallsAreWellFormed
<1>5. CallsAreWellFormed'
  BY <1>1, <1>2, <1>4 DEF CallsAreWellFormed, NoHandler, NoTask
<1>6. PhasesServeCalls'
  BY <1>2 DEF PhasesServeCalls, NoHandler, NoTask, Drivers
<1> QED
  BY <1>3, <1>5, <1>6

\* So they are when only the manager's memory changes.
LEMMA MemoryMoveKeepsTypes ==
    ASSUME LifecycleTypeOK, CallsAreWellFormed, PhasesServeCalls, MemoryTypeOK',
           UNCHANGED <<runtimeVars, callVars, tasks, daemon, crashes>>
    PROVE  LifecycleTypeOK' /\ CallsAreWellFormed' /\ PhasesServeCalls'
<1>1. UNCHANGED <<local, container, launches, handlers, replies, tasks, daemon, crashes>>
  BY DEF runtimeVars, callVars
<1> QED
  BY <1>1 DEF LifecycleTypeOK, MemoryTypeOK, CallsAreWellFormed, PhasesServeCalls, NoHandler,
     NoTask

-----------------------------------------------------------------------------
\* What each of the manager's steps makes of its task.

\* The task of d goes on with another step.
GoesOn(d, pc) == TaskBecomes(d, [op |-> tasks[d].op, run |-> tasks[d].run, pc |-> pc])

\* Which task each operation of the manager leaves behind.
LEMMA FailRunBecomes ==
    ASSUME LifecycleTypeOK, CallsAreWellFormed, NEW d \in Drivers, FailRun(d)
    PROVE  /\ tasks[d].pc \in {"fail", "failKept"} /\ MemoryTypeOK' /\ waits' \subseteq waits
           /\ \/ TaskBecomes(d, NoTask)
              \/ d = "manager" /\ tasks[d].op \in Begins \cup Waiters
                   /\ GoesOn(d, IF tasks[d].pc = "fail" THEN "intent" ELSE "intentKept")
<1>1. tasks[d].pc \in {"fail", "failKept"} /\ UNCHANGED <<exitSeen, discards>>
  BY DEF FailRun
<1>2. /\ tasks[d].pc \in TaskSteps /\ {"intent", "intentKept"} \subseteq TaskSteps
      /\ IsTaskStep(tasks[d].op, tasks[d].pc)
      /\ tasks[d].op = "HOST_SHUTDOWN" <=> d = "shutdown"
  BY <1>1, TaskIsKnown DEF TaskSteps
<1>3. CASE tasks[d].op \in Begins \cup Waiters
  <2>1. /\ IF tasks[d].pc = "fail" THEN IsTaskStep(tasks[d].op, "intent")
                                   ELSE IsTaskStep(tasks[d].op, "intentKept")
        /\ d = "manager"
    BY <1>1, <1>2, <1>3, LifecycleConstants DEF IsTaskStep, Begins, Waiters, Drops, Drivers
  <2>2. UNCHANGED waits /\ Step(d, IF tasks[d].pc = "fail" THEN "intent" ELSE "intentKept")
    BY <1>3 DEF FailRun, Begins
  <2> QED
    BY <1>1, <1>2, <1>3, <2>1, <2>2, StepBecomes DEF LifecycleTypeOK, MemoryTypeOK, GoesOn
<1>4. CASE tasks[d].op \notin Begins \cup Waiters
  <2>1. End(d)
    BY <1>4 DEF FailRun, Begins
  <2> QED
    BY <1>1, <2>1, EndBecomes DEF LifecycleTypeOK, MemoryTypeOK, End
<1> QED
  BY <1>3, <1>4

\* After the reason comes the intent or the stop, or nothing.
LEMMA RecordReasonBecomes ==
    ASSUME LifecycleTypeOK, CallsAreWellFormed, NEW d \in Drivers, RecordReason(d)
    PROVE  /\ tasks[d].pc = "reason" /\ UNCHANGED Memory
           /\ \/ TaskBecomes(d, NoTask)
              \/ GoesOn(d, IF tasks[d].op = "EXITED" THEN "intent" ELSE "stop")
<1>1. tasks[d].pc = "reason" /\ UNCHANGED Memory
  BY DEF RecordReason
<1>2. tasks[d].pc \in TaskSteps /\ {"intent", "stop"} \subseteq TaskSteps
  BY <1>1 DEF TaskSteps, Calls
<1>3. IsTaskStep(tasks[d].op, IF tasks[d].op = "EXITED" THEN "intent" ELSE "stop")
  BY <1>1, <1>2, TaskIsKnown, LifecycleConstants DEF IsTaskStep, Begins, Waiters, Drops
<1>4. \/ tasks' = [tasks EXCEPT ![d] = NoTask]
      \/ Step(d, IF tasks[d].op = "EXITED" THEN "intent" ELSE "stop")
  BY DEF RecordReason
<1> QED
  BY <1>1, <1>2, <1>3, <1>4, StepBecomes, EndBecomes DEF GoesOn

\* Where SetIntent leads.
AfterIntent(task) == IF task.op = "EXITED" THEN "finalizeExited"
                     ELSE IF task.op = "USER_STOP" THEN "reason" ELSE "discard"

\* After the intent, what the operation still has to do.
LEMMA SetIntentBecomes ==
    ASSUME LifecycleTypeOK, CallsAreWellFormed, SetIntent
    PROVE  /\ tasks["manager"].pc \in {"intent", "intentKept"} /\ MemoryTypeOK'
           /\ waits' \subseteq waits
           /\ \/ TaskBecomes("manager", NoTask)
              \/ /\ \/ tasks["manager"].op \in {"EXITED", "USER_STOP"}
                    \/ tasks["manager"].op \in Waiters /\ tasks["manager"].pc = "intent"
                 /\ GoesOn("manager", AfterIntent(tasks["manager"]))
<1> DEFINE task == tasks["manager"]
<1>1. task.pc \in {"intent", "intentKept"} /\ UNCHANGED exitSeen /\ "manager" \in Drivers
  BY DEF SetIntent, Drivers
<1>2. task.pc \in TaskSteps /\ {"finalizeExited", "discard", "reason"} \subseteq TaskSteps
  BY <1>1 DEF TaskSteps, Calls
<1>3. task.run \in Runs
  BY <1>1, <1>2, TaskIsKnown
<1>4. CASE task.op = "EXITED" \/ task.op = "USER_STOP" \/ (task.op \in Waiters /\ task.pc = "intent")
  <2>1. Step("manager", AfterIntent(task)) /\ UNCHANGED <<waits, discards>>
    BY <1>4 DEF SetIntent, AfterIntent, Waiters
  <2>2. IsTaskStep(task.op, AfterIntent(task)) /\ AfterIntent(task) \in TaskSteps
    BY <1>2, <1>4, LifecycleConstants DEF IsTaskStep, AfterIntent, Waiters
  <2> QED
    BY <1>1, <1>2, <1>4, <2>1, <2>2, StepBecomes DEF GoesOn, LifecycleTypeOK, MemoryTypeOK
<1>5. CASE ~(task.op = "EXITED" \/ task.op = "USER_STOP" \/ (task.op \in Waiters /\ task.pc = "intent"))
  <2>1. End("manager") /\ discards' \subseteq discards \cup {task.run}
    BY <1>5 DEF SetIntent
  <2> QED
    BY <1>1, <1>3, <2>1, EndBecomes DEF End, LifecycleTypeOK, MemoryTypeOK
<1> QED
  BY <1>4, <1>5

\* A discard is over with its row.
LEMMA DiscardRowBecomes ==
    ASSUME LifecycleTypeOK, CallsAreWellFormed, DiscardRow
    PROVE  /\ tasks["manager"].pc = "discard" /\ MemoryTypeOK' /\ waits' \subseteq waits
           /\ TaskBecomes("manager", NoTask)
  BY EndBecomes DEF DiscardRow, End, LifecycleTypeOK, MemoryTypeOK, Drivers

\* A new task is begun by a manager that has none.
BecomesNew(op, r, pc) ==
    TaskBecomes("manager", [op |-> op, run |-> r, pc |-> pc])

\* A restart begins a new Run or ends.
LEMMA RestartBecomes ==
    ASSUME LifecycleTypeOK, Restart
    PROVE  /\ tasks["manager"].pc = "create" /\ UNCHANGED Memory
           /\ \/ TaskBecomes("manager", NoTask)
              \/ \E r \in Runs : /\ CreateBwaWorkspaceRun(r, TheInstance)
                               /\ BecomesNew("RESTART", r, "prepareBwa")
<1>1. tasks["manager"].pc = "create" /\ UNCHANGED Memory
  BY DEF Restart
<1>2. CASE \E r \in Runs : CreateRun("RESTART", r)
  BY <1>1, <1>2, BeginBecomes
     DEF CreateRun, BecomesNew, Operations, TaskSteps, Calls, Drivers, IsTaskStep, Begins
<1>3. CASE tasks' = [tasks EXCEPT !["manager"] = NoTask]
  BY <1>1, <1>3, EndBecomes DEF Drivers
<1> QED
  BY <1>2, <1>3 DEF Restart

\* A start begins with a Run of its own.
LEMMA StartBecomes ==
    ASSUME LifecycleTypeOK, NEW r \in Runs, Start(r)
    PROVE  /\ tasks["manager"] = NoTask /\ UNCHANGED Memory
           /\ CreateBwaWorkspaceRun(r, TheInstance) /\ BecomesNew("START", r, "prepareBwa")
  BY BeginBecomes DEF Start, CreateRun, LockIsFree, Idle, BecomesNew, Operations, TaskSteps,
     Calls, Drivers, IsTaskStep, Begins

\* A stop takes up a RUNNING Run.
LEMMA UserStopBecomes ==
    ASSUME LifecycleTypeOK, NEW reason \in {"USER_STOP", "SAVE_RESTART"}, UserStop(reason)
    PROVE  /\ tasks["manager"] = NoTask /\ UNCHANGED Memory
           /\ \E r \in Runs : /\ Control(r) = "RUNNING"
                            /\ BecomesNew(reason, r, IF reason = "USER_STOP" THEN "intent"
                                                                           ELSE "reason")
<1>1. IsTaskStep(reason, IF reason = "USER_STOP" THEN "intent" ELSE "reason")
  BY LifecycleConstants DEF IsTaskStep
<1>2. PICK r \in Runs : /\ Control(r) = "RUNNING"
                       /\ Begin("manager", reason, r, IF reason = "USER_STOP" THEN "intent"
                                                                             ELSE "reason")
  BY DEF UserStop, Stop, ActiveRuns, BindingsOf
<1>3. reason \in Operations /\ "manager" \in Drivers /\ reason # "HOST_SHUTDOWN"
      /\ (IF reason = "USER_STOP" THEN "intent" ELSE "reason") \in TaskSteps
  BY LifecycleConstants DEF Operations, Drivers, TaskSteps
<1>4. BecomesNew(reason, r, IF reason = "USER_STOP" THEN "intent" ELSE "reason")
  BY <1>1, <1>2, <1>3, BeginBecomes DEF BecomesNew
<1> QED
  BY <1>2, <1>4 DEF UserStop, LockIsFree, Idle

\* The one open Run that finalizeExited finds is the RUNNING one.
LEMMA FinalizeExitedBecomes ==
    ASSUME LifecycleTypeOK, InductiveInvariant, RunsAreTheInstances, FinalizeExited
    PROVE  /\ tasks["manager"] = NoTask /\ MemoryTypeOK' /\ UNCHANGED waits
           /\ \/ UNCHANGED tasks
              \/ \E r \in Runs : Control(r) = "RUNNING" /\ BecomesNew("EXITED", r, "reason")
<1>1. tasks["manager"] = NoTask /\ exitSeen' = FALSE /\ UNCHANGED <<waits, discards>>
  BY DEF FinalizeExited, Idle
<1>2. ASSUME NEW q \in ActiveRuns, Control(q) = "RUNNING",
             NEW r \in ActiveRuns, Begin("manager", "EXITED", r, "reason")
      PROVE  r \in Runs /\ Control(r) = "RUNNING" /\ BecomesNew("EXITED", r, "reason")
  <2>1. q \in Runs /\ r \in Runs /\ Control(r) \in OpenStates
    BY DEF ActiveRuns, BindingsOf
  <2>2. r = q
    BY <1>2, <2>1, NamesAreDistinct DEF InductiveInvariant, OneUnresolvedRunPerWorkspace,
       RunsAreTheInstances, IsUnresolved, OpenStates, RunState
  <2>3. /\ "EXITED" \in Operations /\ "manager" \in Drivers /\ "reason" \in TaskSteps
        /\ IsTaskStep("EXITED", "reason")
    BY LifecycleConstants DEF Operations, Drivers, TaskSteps, IsTaskStep
  <2> QED
    BY <1>2, <2>1, <2>2, <2>3, BeginBecomes DEF BecomesNew
<1> QED
  BY <1>1, <1>2 DEF FinalizeExited, MemoryTypeOK, LifecycleTypeOK, ActiveRuns, BindingsOf

\* A wait that fails turns into the removal of what it waited for.
LEMMA FailStartupBecomes ==
    ASSUME LifecycleTypeOK, NEW r \in Runs, NEW waiter \in Waiters, FailStartup(r, waiter)
    PROVE  /\ tasks["manager"] = NoTask /\ MemoryTypeOK' /\ waits' \subseteq waits
           /\ <<r, waiter>> \in waits
           /\ UNCHANGED tasks \/ BecomesNew(waiter, r, "destroy")
<1>1. /\ waiter \in Operations /\ "manager" \in Drivers /\ "destroy" \in TaskSteps
      /\ IsTaskStep(waiter, "destroy") /\ waiter # "HOST_SHUTDOWN"
  BY DEF Operations, Drivers, TaskSteps, Calls, IsTaskStep, Waiters
<1> QED
  BY <1>1, BeginBecomes DEF FailStartup, Idle, BecomesNew, MemoryTypeOK, LifecycleTypeOK

\* Publishing a failed Upper begins with its directory.
LEMMA PublishFailedUpperBecomes ==
    ASSUME LifecycleTypeOK, NEW r \in Runs, PublishFailedUpper(r)
    PROVE  /\ tasks["manager"] = NoTask /\ UNCHANGED Memory
           /\ BecomesNew("PUBLISH", r, "reopenFailed")
  BY BeginBecomes DEF PublishFailedUpper, LockIsFree, Idle, BecomesNew, Operations, TaskSteps,
     Calls, Drivers, IsTaskStep

\* A discard takes up a FAILED Run.
LEMMA DiscardFailedUpperBecomes ==
    ASSUME LifecycleTypeOK, NEW r \in Runs, NEW op \in Drops, DiscardFailedUpper(r, op)
    PROVE  /\ tasks["manager"] = NoTask /\ MemoryTypeOK' /\ UNCHANGED waits
           /\ UNCHANGED tasks \/ (Control(r) = "FAILED" /\ BecomesNew(op, r, "destroy"))
<1>1. /\ op \in Operations /\ "manager" \in Drivers /\ "destroy" \in TaskSteps
      /\ IsTaskStep(op, "destroy") /\ op # "HOST_SHUTDOWN"
  BY DEF Operations, Drivers, TaskSteps, Calls, IsTaskStep, Drops
<1> QED
  BY <1>1, BeginBecomes
     DEF DiscardFailedUpper, Idle, BecomesNew, MemoryTypeOK, LifecycleTypeOK

\* The call is sent, or refused at once because nobody listens.
LEMMA CallTypes ==
    ASSUME LifecycleTypeOK, CallsAreWellFormed, PhasesServeCalls, NEW d \in Drivers, Call(d)
    PROVE  LifecycleTypeOK' /\ CallsAreWellFormed' /\ PhasesServeCalls'
<1> DEFINE call == [op |-> tasks[d].pc, run |-> tasks[d].run, pc |-> "begin", by |-> tasks[d].op]
<1>1. /\ tasks[d].pc \in Calls /\ handlers[d] = NoHandler /\ replies[d] = "none"
      /\ UNCHANGED <<tasks, daemon, crashes, local, container, launches, waits, exitSeen, discards>>
  BY DEF Call, managerVars, runtimeVars, daemonVars
<1>2. tasks[d].run \in Runs /\ tasks[d] # NoTask
  BY <1>1, TaskIsKnown DEF TaskSteps
<1>3. handlers \in [Slots -> HandlerRow] /\ d \in Slots /\ d # "recovery" /\ d # "orphan"
  BY DEF LifecycleTypeOK, HandlerRow, Slots, Drivers
<1>4. CASE d = "shutdown" \/ daemon = "up"
  <2>1. handlers' = [handlers EXCEPT ![d] = call] /\ UNCHANGED replies
    BY <1>4 DEF Call
  <2>2. call \in HandlerRow /\ IsCallStep(call.op, call.pc)
    BY <1>1, <1>2 DEF HandlerRow, HandlerSteps, IsCallStep, LifecycleTypeOK
  <2>3. /\ handlers' \in [Slots -> HandlerRow] /\ handlers'[d] = call
        /\ \A q \in Slots \ {d} : handlers'[q] = handlers[q]
    BY <1>3, <2>1, <2>2
  <2>4. LifecycleTypeOK'
    BY <1>1, <2>1, <2>3 DEF LifecycleTypeOK, HandlerRow
  <2>5. CallsAreWellFormed'
    BY <1>1, <1>2, <1>3, <2>1, <2>2, <2>3
       DEF CallsAreWellFormed, NoHandler, NoTask, Slots
  <2>6. PhasesServeCalls'
    BY <1>1, <1>2, <1>3, <1>4, <2>3 DEF PhasesServeCalls, NoHandler, NoTask, Slots, Drivers
  <2> QED
    BY <2>4, <2>5, <2>6
<1>5. CASE ~(d = "shutdown" \/ daemon = "up")
  <2>1. replies' = [replies EXCEPT ![d] = "error"] /\ UNCHANGED handlers
    BY <1>5 DEF Call
  <2>2. LifecycleTypeOK'
    BY <1>1, <2>1 DEF LifecycleTypeOK
  <2>3. CallsAreWellFormed'
    BY <1>1, <2>1 DEF CallsAreWellFormed, NoHandler, NoTask, LifecycleTypeOK
  <2>4. PhasesServeCalls'
    BY <1>1, <2>1 DEF PhasesServeCalls, NoHandler, NoTask
  <2> QED
    BY <2>2, <2>3, <2>4
<1> QED
  BY <1>4, <1>5

\* What an operation does next after an answer.
NextStep(d) == IF replies[d] = "ok" THEN AfterOk(tasks[d]) ELSE AfterError(tasks[d])

\* An answer is consumed, and the operation goes on or ends.
LEMMA AnsweredBecomes ==
    ASSUME LifecycleTypeOK, CallsAreWellFormed, NEW d \in Drivers, Answered(d)
    PROVE  /\ tasks[d].pc \in Calls /\ replies[d] \in {"ok", "error"} /\ MemoryTypeOK'
           /\ handlers[d] = NoHandler /\ UNCHANGED handlers
           /\ replies' = [replies EXCEPT ![d] = "none"]
           /\ waits' \subseteq waits \cup {<<tasks[d].run, "FAIL_STARTUP">>}
           /\ waits' = waits \/ (d = "manager" /\ tasks[d].pc = "start" /\ replies[d] = "ok")
           /\ \/ NextStep(d) = "end" /\ TaskBecomes(d, NoTask)
              \/ NextStep(d) \in TaskSteps /\ GoesOn(d, NextStep(d))
<1>1. replies[d] # "none" /\ replies[d] \in {"ok", "error"} /\ UNCHANGED <<handlers, exitSeen,
discards>>
      /\ replies' = [replies EXCEPT ![d] = "none"]
  BY DEF Answered, LifecycleTypeOK
<1>2. tasks[d].pc \in Calls /\ handlers[d] = NoHandler
  BY <1>1 DEF CallsAreWellFormed
<1>3. /\ tasks[d].run \in Runs /\ tasks[d].op \in Operations
      /\ IsTaskStep(tasks[d].op, tasks[d].pc) /\ tasks[d].pc \in TaskSteps
      /\ tasks[d].op = "HOST_SHUTDOWN" <=> d = "shutdown"
  BY <1>2, TaskIsKnown DEF TaskSteps
<1>4. NextStep(d) = "end" \/ (NextStep(d) \in TaskSteps /\ IsTaskStep(tasks[d].op, NextStep(d)))
  <2>1. CASE replies[d] = "ok"
    <3>1. NextStep(d) = AfterOk(tasks[d])
      BY <2>1 DEF NextStep
    <3>2. AfterOk(tasks[d]) \in {"end", "start", "commit", "destroy", "fail", "discard", "create"}
      BY DEF AfterOk
    <3>3. AfterOk(tasks[d]) = "end" \/ IsTaskStep(tasks[d].op, AfterOk(tasks[d]))
      BY <1>2, <1>3, LifecycleConstants DEF AfterOk, IsTaskStep, Calls, Begins, Waiters, Drops
    <3> QED
      BY <3>1, <3>2, <3>3 DEF TaskSteps, Calls
  <2>2. CASE replies[d] = "error"
    <3>1. NextStep(d) = AfterError(tasks[d])
      BY <2>2 DEF NextStep
    <3>2. AfterError(tasks[d]) \in {"end", "preserve", "fail", "failKept"}
      BY DEF AfterError
    <3>3. AfterError(tasks[d]) = "end" \/ IsTaskStep(tasks[d].op, AfterError(tasks[d]))
      BY <1>2, <1>3, LifecycleConstants DEF AfterError, IsTaskStep, Calls, Begins, Waiters, Drops
    <3> QED
      BY <3>1, <3>2, <3>3 DEF TaskSteps, Calls
  <2> QED
    BY <1>1, <2>1, <2>2
<1>5. \/ NextStep(d) = "end" /\ TaskBecomes(d, NoTask)
      \/ NextStep(d) \in TaskSteps /\ GoesOn(d, NextStep(d))
  <2>1. CASE NextStep(d) = "end"
    BY <2>1, EndBecomes DEF Answered, NextStep
  <2>2. CASE NextStep(d) # "end"
    BY <1>3, <1>4, <2>2, StepBecomes DEF Answered, NextStep, GoesOn
  <2> QED
    BY <2>1, <2>2
<1>6. /\ waits' \subseteq waits \cup {<<tasks[d].run, "FAIL_STARTUP">>}
      /\ waits' = waits \/ (tasks[d].op = "START" /\ tasks[d].pc = "start" /\ NextStep(d) = "end")
  BY DEF Answered, NextStep
<1>7. waits' = waits \/ (d = "manager" /\ tasks[d].pc = "start" /\ replies[d] = "ok")
  BY <1>1, <1>3, <1>6, LifecycleConstants
     DEF NextStep, AfterError, IsTaskStep, Begins, Waiters, Drops, Drivers
<1>8. MemoryTypeOK'
  BY <1>1, <1>3, <1>6 DEF LifecycleTypeOK, MemoryTypeOK, Waiters
<1> QED
  BY <1>1, <1>2, <1>5, <1>6, <1>7, <1>8

\* An answer keeps the types.
LEMMA AnsweredTypes ==
    ASSUME LifecycleTypeOK, CallsAreWellFormed, PhasesServeCalls, NEW d \in Drivers, Answered(d)
    PROVE  LifecycleTypeOK' /\ CallsAreWellFormed' /\ PhasesServeCalls'
<1>1. /\ MemoryTypeOK' /\ handlers[d] = NoHandler
      /\ replies' = [replies EXCEPT ![d] = "none"]
      /\ tasks[d].pc \in Calls
  BY AnsweredBecomes
<1>2. UNCHANGED <<local, container, launches, handlers, daemon, crashes>>
  BY DEF Answered, runtimeVars, daemonVars
<1>3. PICK task : TaskBecomes(d, task)
  BY AnsweredBecomes DEF GoesOn
<1>4. /\ tasks' \in [Drivers -> TaskRow]
      /\ tasks'[d] = task /\ \A e \in Drivers \ {d} : tasks'[e] = tasks[e]
  BY <1>3 DEF TaskBecomes
<1>5. replies' \in [Drivers -> {"none", "ok", "error"}] /\ replies'[d] = "none"
      /\ \A e \in Drivers \ {d} : replies'[e] = replies[e]
  BY <1>1 DEF LifecycleTypeOK
<1>6. LifecycleTypeOK'
  BY <1>1, <1>2, <1>4, <1>5 DEF LifecycleTypeOK, MemoryTypeOK, TaskRow
<1>7. \A e \in Drivers : tasks'[e] # NoTask =>
         /\ tasks'[e].run \in Runs /\ IsTaskStep(tasks'[e].op, tasks'[e].pc)
         /\ tasks'[e].op = "HOST_SHUTDOWN" <=> e = "shutdown"
  BY <1>3, <1>4 DEF TaskBecomes, TaskIsFormed, CallsAreWellFormed
<1>8. CallsAreWellFormed'
  BY <1>1, <1>2, <1>4, <1>5, <1>7 DEF CallsAreWellFormed, NoHandler, NoTask
<1>9. tasks[d] # NoTask
  BY <1>1, TaskIsKnown DEF TaskSteps
<1>10. PhasesServeCalls'
  BY <1>2, <1>4, <1>9 DEF PhasesServeCalls, NoHandler, NoTask, Drivers
<1> QED
  BY <1>6, <1>8, <1>10

\* Every step of the manager keeps the types.
LEMMA ManagerTypes ==
    ASSUME CallsInvariant,
           \/ \E d \in Drivers : TaskStep(d)
           \/ ManagerStep \/ RequestStep \/ Background
    PROVE  LifecycleTypeOK' /\ CallsAreWellFormed' /\ PhasesServeCalls'
<1> DEFINE Types == LifecycleTypeOK' /\ CallsAreWellFormed' /\ PhasesServeCalls'
<1>1. /\ LifecycleTypeOK /\ CallsAreWellFormed /\ PhasesServeCalls
      /\ InductiveInvariant /\ RunsAreTheInstances
  BY DEF CallsInvariant
<1>2. "manager" \in Drivers /\ "manager" # "shutdown"
  BY DEF Drivers
<1>3. MemoryTypeOK /\ (UNCHANGED Memory => MemoryTypeOK')
  BY <1>1 DEF MemoryTypeOK, LifecycleTypeOK, Memory
<1>4. {"fail", "failKept", "reason", "intent", "intentKept", "discard", "create"} \cap Calls = {}
  BY DEF Calls
<1>5. tasks["manager"] = NoTask => tasks["manager"].pc \notin Calls
  BY NoneIsNoStep DEF NoTask, TaskSteps
<1>6. ASSUME NEW d \in Drivers, TaskStep(d)
      PROVE  Types
  <2>1. CASE FailRun(d)
    <3>1. UNCHANGED <<runtimeVars, callVars, daemon, crashes>>
      BY <2>1 DEF FailRun, daemonVars
    <3> QED
      BY <1>1, <1>4, <2>1, <3>1, FailRunBecomes, TaskMoveKeepsTypes DEF GoesOn
  <2>2. CASE RecordReason(d)
    <3>1. UNCHANGED <<runtimeVars, callVars, daemon, crashes>> /\ tasks[d].pc = "reason"
      BY <2>2 DEF RecordReason, daemonVars
    <3>2. d = "manager" \/ daemon = "saving"
      BY <1>1, <3>1, NoneIsNoStep DEF PhasesServeCalls, NoTask, TaskSteps, Drivers
    <3> QED
      BY <1>1, <1>3, <1>4, <2>2, <3>1, <3>2, RecordReasonBecomes, TaskMoveKeepsTypes DEF GoesOn
  <2> QED
    BY <1>1, <1>6, <2>1, <2>2, CallTypes, AnsweredTypes DEF TaskStep
<1>7. ASSUME ManagerStep PROVE Types
  <2>1. UNCHANGED <<runtimeVars, callVars, daemon, crashes>>
    BY <1>7 DEF ManagerStep, SetIntent, DiscardRow, Restart, daemonVars
  <2> QED
    BY <1>1, <1>2, <1>3, <1>4, <1>7, <2>1, RestartBecomes, SetIntentBecomes, DiscardRowBecomes,
       TaskMoveKeepsTypes DEF ManagerStep, GoesOn, BecomesNew
<1>8. ASSUME RequestStep PROVE Types
  <2>1. UNCHANGED <<runtimeVars, callVars, daemon, crashes>>
    BY <1>8 DEF RequestStep, Start, StartRefused, UserStop, OpenInstance, PublishFailedUpper,
       DiscardFailedUpper, FailStartup, daemonVars
  <2>2. ASSUME NEW r \in Runs, StartRefused(r) \/ OpenInstance(r)
        PROVE  UNCHANGED tasks /\ MemoryTypeOK'
    BY <1>1, <2>2 DEF StartRefused, OpenInstance, LifecycleTypeOK, MemoryTypeOK, Waiters
  <2>3. \/ UNCHANGED tasks /\ MemoryTypeOK'
        \/ tasks["manager"] = NoTask /\ MemoryTypeOK' /\ \E task : TaskBecomes("manager", task)
    BY <1>1, <1>3, <1>8, <2>2, StartBecomes, UserStopBecomes, PublishFailedUpperBecomes,
       DiscardFailedUpperBecomes, FailStartupBecomes DEF RequestStep, BecomesNew, Drops
  <2> QED
    BY <1>1, <1>2, <1>5, <2>1, <2>3, TaskMoveKeepsTypes, MemoryMoveKeepsTypes
<1>9. ASSUME Background PROVE Types
  <2>1. UNCHANGED <<runtimeVars, callVars, daemon, crashes>>
    BY <1>9 DEF Background, SeeExit, FinalizeExited, DiscardFailedUpper, EndReadinessWait,
       daemonVars
  <2>2. ASSUME NEW r \in Runs, SeeExit(r) \/ \E waiter \in Waiters : EndReadinessWait(r, waiter)
        PROVE  UNCHANGED tasks /\ MemoryTypeOK'
    BY <1>1, <2>2 DEF SeeExit, EndReadinessWait, LifecycleTypeOK, MemoryTypeOK
  <2>3. \/ UNCHANGED tasks /\ MemoryTypeOK'
        \/ tasks["manager"] = NoTask /\ MemoryTypeOK' /\ \E task : TaskBecomes("manager", task)
    BY <1>1, <1>3, <1>9, <2>2, FinalizeExitedBecomes, DiscardFailedUpperBecomes
       DEF Background, BecomesNew, Drops
  <2> QED
    BY <1>1, <1>2, <1>5, <2>1, <2>3, TaskMoveKeepsTypes, MemoryMoveKeepsTypes
<1> QED
  BY <1>6, <1>7, <1>8, <1>9

\* Every step of the recovery keeps the types.
LEMMA RecoveryTypes ==
    ASSUME LifecycleTypeOK, CallsAreWellFormed, PhasesServeCalls, Recovery
    PROVE  LifecycleTypeOK' /\ CallsAreWellFormed' /\ PhasesServeCalls'
<1>1. UNCHANGED <<tasks, waits, exitSeen, discards, launches, replies, crashes>>
  BY DEF Recovery, StartDaemon, NextPhase, RecoveryFails, RecoverInterrupted, RecoverControl,
     RecoverStopped, RecoverStoppedControl, RecoverIntent, managerVars, callVars, runtimeVars
<1>2. local' \in [Runs -> LocalRunState] /\ container' \in [Runs -> ContainerState]
  BY DEF Recovery, StartDaemon, NextPhase, RecoveryFails, RecoverInterrupted, RecoverControl,
     RecoverStopped, RecoverStoppedControl, RecoverIntent, runtimeVars, SetLocal,
     LifecycleTypeOK, LocalRunState, ContainerState
<1>3. daemon' \in DaemonPhase
  BY DEF Recovery, StartDaemon, NextPhase, RecoveryFails, RecoverInterrupted, RecoverControl,
     RecoverStopped, RecoverStoppedControl, RecoverIntent, LifecycleTypeOK, DaemonPhase,
     Recovering, daemonVars
<1>4. \/ UNCHANGED handlers
      \/ handlers' = [handlers EXCEPT !["recovery"] = NoHandler]
      \/ /\ daemon = "host" /\ daemon' = "host"
         /\ \E r \in Runs : handlers' = [handlers EXCEPT
                !["recovery"] = [op |-> None, run |-> r, pc |-> "control", by |-> None]]
  BY DEF Recovery, StartDaemon, NextPhase, RecoveryFails, RecoverInterrupted, RecoverControl,
     RecoverStopped, RecoverStoppedControl, RecoverIntent, callVars, daemonVars, Recovering
<1>5. /\ handlers' \in [Slots -> HandlerRow]
      /\ \A s \in Slots \ {"recovery"} : handlers'[s] = handlers[s]
      /\ handlers'["recovery"] # NoHandler =>
            /\ handlers'["recovery"].run \in Runs
            /\ handlers'["recovery"].op = None /\ handlers'["recovery"].pc = "control"
  <2>1. handlers \in [Slots -> HandlerRow] /\ "recovery" \in Slots
    BY DEF LifecycleTypeOK, HandlerRow, Slots
  <2>2. NoHandler \in HandlerRow
        /\ \A r \in Runs : [op |-> None, run |-> r, pc |-> "control", by |-> None] \in HandlerRow
    BY DEF HandlerRow, NoHandler, HandlerSteps
  <2> QED
    BY <1>4, <2>1, <2>2 DEF CallsAreWellFormed
<1>6. LifecycleTypeOK'
  BY <1>1, <1>2, <1>3, <1>5 DEF LifecycleTypeOK, HandlerRow
<1>7. CallsAreWellFormed'
  BY <1>1, <1>5 DEF CallsAreWellFormed, NoHandler, NoTask, Slots, Drivers
<1>8. /\ daemon \notin {"up", "closing", "saving"}
      /\ daemon' \notin {"closing", "saving"}
      /\ daemon' # daemon /\ daemon = "host" => handlers'["recovery"] = NoHandler
      /\ daemon # "host" => UNCHANGED handlers
  <2>1. ASSUME NEW r \in Runs, RecoverInterrupted(r) \/ RecoverControl(r) \/ RecoverStopped(r)
        PROVE  /\ daemon \in Recovering /\ UNCHANGED daemon
               /\ daemon # "host" => UNCHANGED handlers
    BY <2>1 DEF RecoverInterrupted, RecoverControl, RecoverStopped, Recovering, callVars, daemonVars
  <2>2. CASE RecoverStoppedControl \/ RecoverIntent
    BY <2>2 DEF RecoverStoppedControl, RecoverIntent, daemonVars
  <2>3. CASE StartDaemon \/ NextPhase
    BY <2>3 DEF StartDaemon, NextPhase, Visited, callVars
  <2>4. CASE RecoveryFails
    <3>1. handlers' = [handlers EXCEPT !["recovery"] = NoHandler]
          /\ daemon \in Recovering /\ daemon' = "down"
      BY <2>4 DEF RecoveryFails, Recovering
    <3>2. handlers \in [Slots -> HandlerRow] /\ "recovery" \in Slots
      BY DEF LifecycleTypeOK, HandlerRow, Slots
    <3>3. daemon # "host" => handlers["recovery"] = NoHandler
      BY DEF PhasesServeCalls
    <3> QED
      BY <3>1, <3>2, <3>3 DEF Recovering
  <2> QED
    BY <2>1, <2>2, <2>3, <2>4 DEF Recovery, Recovering
<1>9. PhasesServeCalls'
  <2>1. /\ daemon' \notin {"up", "closing"} =>
             handlers'["manager"] = NoHandler /\ handlers'["orphan"] = NoHandler
        /\ crashes = 0 => handlers'["orphan"] = NoHandler
    BY <1>5, <1>8 DEF PhasesServeCalls, Slots, Drivers
  <2>2. daemon' # "host" => handlers'["recovery"] = NoHandler
    BY <1>8 DEF PhasesServeCalls
  <2>3. tasks'["shutdown"] = NoTask
    BY <1>1, <1>8 DEF PhasesServeCalls
  <2> QED
    BY <1>1, <2>1, <2>2, <2>3 DEF PhasesServeCalls, NoHandler, NoTask
<1> QED
  BY <1>6, <1>7, <1>9

\* The closing daemon begins one stop, or none.
LEMMA SaveInstancesBecomes ==
    ASSUME LifecycleTypeOK, CallsAreWellFormed, PhasesServeCalls, SaveInstances
    PROVE  /\ tasks["shutdown"] = NoTask
           /\ \/ UNCHANGED tasks
              \/ \E r \in Runs : /\ Control(r) = "RUNNING"
                               /\ TaskBecomes("shutdown", [op |-> "HOST_SHUTDOWN", run |-> r,
                                                           pc |-> "reason"])
<1>1. ASSUME NEW r \in ActiveRuns, Control(r) = "RUNNING",
             Begin("shutdown", "HOST_SHUTDOWN", r, "reason")
      PROVE  r \in Runs /\ TaskBecomes("shutdown", [op |-> "HOST_SHUTDOWN", run |-> r,
                                                    pc |-> "reason"])
  <2>1. /\ "HOST_SHUTDOWN" \in Operations /\ "shutdown" \in Drivers /\ "reason" \in TaskSteps
        /\ IsTaskStep("HOST_SHUTDOWN", "reason") /\ r \in Runs
    BY LifecycleConstants
       DEF Operations, Drivers, TaskSteps, IsTaskStep, ActiveRuns, BindingsOf
  <2> QED
    BY <1>1, <2>1, BeginBecomes
<1> QED
  BY <1>1 DEF SaveInstances, Stop, PhasesServeCalls

\* So do the steps of closing, and a container that exits.
LEMMA DaemonTypes ==
    ASSUME LifecycleTypeOK, CallsAreWellFormed, PhasesServeCalls,
           \/ CloseDaemon \/ SaveInstances \/ ExitDaemon
           \/ \E r \in Runs : ContainerExits(r)
    PROVE  LifecycleTypeOK' /\ CallsAreWellFormed' /\ PhasesServeCalls'
<1>1. UNCHANGED <<handlers, replies, waits, exitSeen, discards, crashes>>
  BY DEF CloseDaemon, SaveInstances, ExitDaemon, ContainerExits, callVars, managerVars, Memory
<1>2. CASE CloseDaemon
  <2>1. UNCHANGED <<local, container, launches, tasks>> /\ daemon = "up" /\ daemon' = "closing"
    BY <1>2 DEF CloseDaemon, runtimeVars, managerVars
  <2> QED
    BY <1>1, <2>1 DEF LifecycleTypeOK, DaemonPhase, Closing, CallsAreWellFormed,
       PhasesServeCalls, NoHandler, NoTask
<1>3. CASE SaveInstances
  <2>1. /\ UNCHANGED <<local, container, launches>> /\ daemon = "closing" /\ daemon' = "saving"
        /\ handlers["manager"] = NoHandler /\ handlers["orphan"] = NoHandler
    BY <1>3 DEF SaveInstances, runtimeVars
  <2>2. tasks' \in [Drivers -> TaskRow] /\ tasks'["manager"] = tasks["manager"]
        /\ tasks["shutdown"] = NoTask
        /\ (tasks'["shutdown"] = NoTask \/ TaskIsFormed(tasks'["shutdown"], "shutdown"))
    BY <1>3, SaveInstancesBecomes DEF TaskBecomes, LifecycleTypeOK, TaskRow, Drivers
  <2>3. handlers["shutdown"] = NoHandler /\ replies["shutdown"] = "none"
    BY <2>2, NoCallPending, NoneIsNoStep DEF NoTask, TaskSteps, Drivers
  <2>4. LifecycleTypeOK'
    BY <1>1, <2>1, <2>2 DEF LifecycleTypeOK, DaemonPhase, Closing, TaskRow
  <2>5. CallsAreWellFormed'
    BY <1>1, <2>1, <2>2, <2>3
       DEF CallsAreWellFormed, TaskIsFormed, NoHandler, NoTask, Drivers
  <2>6. PhasesServeCalls'
    BY <1>1, <2>1 DEF PhasesServeCalls, NoHandler, NoTask
  <2> QED
    BY <2>4, <2>5, <2>6
<1>4. CASE ExitDaemon
  <2>1. /\ UNCHANGED tasks /\ daemon = "saving" /\ daemon' = "down" /\ launches' = {}
        /\ tasks["shutdown"] = NoTask
    BY <1>4 DEF ExitDaemon, managerVars, Idle
  <2>2. local' \in [Runs -> LocalRunState] /\ container' \in [Runs -> ContainerState]
    BY <1>4 DEF ExitDaemon, LifecycleTypeOK, LocalRunState, ContainerState
  <2>3. LifecycleTypeOK'
    BY <1>1, <2>1, <2>2 DEF LifecycleTypeOK, DaemonPhase
  <2>4. CallsAreWellFormed'
    BY <1>1, <2>1 DEF CallsAreWellFormed, NoHandler, NoTask
  <2>5. PhasesServeCalls'
    BY <1>1, <2>1 DEF PhasesServeCalls, NoHandler, NoTask
  <2> QED
    BY <2>3, <2>4, <2>5
<1>5. CASE \E r \in Runs : ContainerExits(r)
  <2>1. UNCHANGED <<local, launches, tasks, daemon>>
    BY <1>5 DEF ContainerExits, managerVars, daemonVars
  <2>2. container' \in [Runs -> ContainerState]
    BY <1>5 DEF ContainerExits, LifecycleTypeOK, ContainerState
  <2> QED
    BY <1>1, <2>1, <2>2 DEF LifecycleTypeOK, CallsAreWellFormed, PhasesServeCalls, NoHandler,
       NoTask
<1> QED
  BY <1>2, <1>3, <1>4, <1>5

\* A crash of the daemon takes all calls with it, and the shutdown's task.
LEMMA CrashDaemonTypes ==
    ASSUME LifecycleTypeOK, CallsAreWellFormed, PhasesServeCalls, CrashDaemon
    PROVE  LifecycleTypeOK' /\ CallsAreWellFormed' /\ PhasesServeCalls'
<1>1. /\ UNCHANGED <<container, waits, exitSeen, discards>> /\ launches' = {} /\ daemon' = "down"
      /\ crashes' = crashes + 1 /\ crashes < MaxCrashes
      /\ handlers' = [s \in Slots |-> NoHandler]
      /\ tasks' = [tasks EXCEPT !["shutdown"] = NoTask]
      /\ replies' = [d \in Drivers |->
            IF d = "manager" /\ handlers[d] # NoHandler THEN "error"
            ELSE IF d = "shutdown" THEN "none" ELSE replies[d]]
  BY DEF CrashDaemon, Memory
<1>2. TaskBecomes("shutdown", NoTask)
  BY <1>1, EndBecomes DEF Drivers
<1>3. /\ tasks' \in [Drivers -> TaskRow] /\ tasks'["shutdown"] = NoTask
      /\ tasks'["manager"] = tasks["manager"]
  BY <1>2 DEF TaskBecomes, Drivers
<1>4. local' \in [Runs -> LocalRunState]
  BY DEF CrashDaemon, LifecycleTypeOK, LocalRunState
<1>5. NoHandler \in HandlerRow
  BY DEF NoHandler, HandlerRow
<1>6. LifecycleTypeOK'
  BY <1>1, <1>3, <1>4, <1>5, LifecycleConstants
     DEF LifecycleTypeOK, DaemonPhase, HandlerRow, TaskRow
<1>7. replies'["shutdown"] = "none"
      /\ (replies'["manager"] # "none" => tasks["manager"].pc \in Calls)
  <2>1. "manager" \in Drivers /\ "shutdown" \in Drivers /\ "manager" \in Slots
        /\ "manager" # "shutdown"
    BY DEF Drivers, Slots
  <2>2. handlers["manager"] # NoHandler => tasks["manager"].pc \in Calls
    BY <2>1, NoCallPending
  <2> QED
    BY <1>1, <2>1, <2>2 DEF CallsAreWellFormed
<1>8. CallsAreWellFormed'
  BY <1>1, <1>3, <1>7 DEF CallsAreWellFormed, NoHandler, NoTask, Slots, Drivers
<1>9. PhasesServeCalls'
  BY <1>1, <1>3 DEF PhasesServeCalls, NoHandler, NoTask, Slots, Drivers
<1> QED
  BY <1>6, <1>8, <1>9

\* A crash of the manager leaves its call behind as the orphan.
LEMMA CrashManagerTypes ==
    ASSUME LifecycleTypeOK, CallsAreWellFormed, PhasesServeCalls, CrashManager
    PROVE  LifecycleTypeOK' /\ CallsAreWellFormed' /\ PhasesServeCalls'
<1>1. /\ UNCHANGED <<local, container, launches, daemon>>
      /\ waits' = {} /\ exitSeen' = FALSE /\ discards' = {}
      /\ crashes' = crashes + 1 /\ crashes < MaxCrashes
      /\ tasks' = [tasks EXCEPT !["manager"] = NoTask]
      /\ replies' = [replies EXCEPT !["manager"] = "none"]
      /\ handlers' = [handlers EXCEPT
            !["orphan"]  = IF @ = NoHandler THEN handlers["manager"] ELSE @,
            !["manager"] = NoHandler]
  BY DEF CrashManager, runtimeVars, daemonVars
<1>2. TaskBecomes("manager", NoTask)
  BY <1>1, EndBecomes DEF Drivers
<1>3. /\ tasks' \in [Drivers -> TaskRow] /\ tasks'["manager"] = NoTask
      /\ tasks'["shutdown"] = tasks["shutdown"]
  BY <1>2 DEF TaskBecomes, Drivers
<1>4. /\ replies' \in [Drivers -> {"none", "ok", "error"}] /\ replies'["manager"] = "none"
      /\ replies'["shutdown"] = replies["shutdown"]
  BY <1>1 DEF LifecycleTypeOK, Drivers
<1>5. /\ handlers' \in [Slots -> HandlerRow] /\ handlers'["manager"] = NoHandler
      /\ handlers'["shutdown"] = handlers["shutdown"]
      /\ handlers'["recovery"] = handlers["recovery"]
      /\ handlers'["orphan"] \in {handlers["orphan"], handlers["manager"]}
  <2>1. handlers \in [Slots -> HandlerRow] /\ NoHandler \in HandlerRow
        /\ {"manager", "orphan", "shutdown", "recovery"} = Slots
    BY DEF LifecycleTypeOK, HandlerRow, NoHandler, Slots, Drivers
  <2> QED
    BY <1>1, <2>1
<1>6. LifecycleTypeOK'
  <2>1. crashes' \in 0 .. MaxCrashes
    BY <1>1, LifecycleConstants DEF LifecycleTypeOK
  <2>2. /\ local' \in [Runs -> LocalRunState] /\ container' \in [Runs -> ContainerState]
        /\ launches' \subseteq Runs /\ daemon' \in DaemonPhase
    BY <1>1 DEF LifecycleTypeOK
  <2>3. waits' \subseteq Runs \X Waiters /\ exitSeen' \in BOOLEAN /\ discards' \subseteq Runs
    BY <1>1
  <2> QED
    BY <1>3, <1>4, <1>5, <2>1, <2>2, <2>3 DEF LifecycleTypeOK, HandlerRow, TaskRow
<1>7. CallsAreWellFormed'
  BY <1>3, <1>4, <1>5 DEF CallsAreWellFormed, NoHandler, NoTask, Slots, Drivers
<1>8. PhasesServeCalls'
  BY <1>1, <1>3, <1>5 DEF PhasesServeCalls, NoHandler, NoTask, LifecycleTypeOK
<1> QED
  BY <1>6, <1>7, <1>8

\* Every step keeps the types, the matching of calls and tasks, and the phases.
LEMMA StepTypes ==
    ASSUME CallsInvariant, [LifecycleNext]_lifecycleVars
    PROVE  LifecycleTypeOK' /\ CallsAreWellFormed' /\ PhasesServeCalls'
<1>1. LifecycleTypeOK /\ CallsAreWellFormed /\ PhasesServeCalls
  BY DEF CallsInvariant
<1>2. CASE LifecycleNext
  BY <1>1, <1>2, HandlerStepTypes, ManagerTypes, RecoveryTypes, DaemonTypes, CrashDaemonTypes,
     CrashManagerTypes DEF LifecycleNext
<1>3. CASE UNCHANGED lifecycleVars
  <2>1. UNCHANGED <<local, container, launches, daemon, handlers, tasks, replies, waits, exitSeen,
                    discards, crashes>>
    BY <1>3 DEF lifecycleVars, runtimeVars, callVars, managerVars, daemonVars
  <2> QED
    BY <1>1, <2>1 DEF LifecycleTypeOK, CallsAreWellFormed, PhasesServeCalls, NoHandler, NoTask
<1> QED
  BY <1>2, <1>3

-----------------------------------------------------------------------------
\* Nobody works on a Run before it is created, or, but for its own start,
\* before it has started.

\* A step of a call works on a Run that has begun, and stays with it.
LEMMA HandlerStepKeepsBegun ==
    ASSUME CallsInvariant, NEW s \in Slots, HandlerStep(s), RunsAdvance
    PROVE  RunsHaveBegun'
<1>1. LifecycleTypeOK /\ CallsAreWellFormed /\ RunsHaveBegun
  BY DEF CallsInvariant
<1>2. /\ \A q \in Slots \ {s} : handlers'[q] = handlers[q]
      /\ handlers'[s] = NoHandler \/ handlers'[s].run = handlers[s].run
      /\ handlers[s] # NoHandler /\ handlers[s].run \in Runs
      /\ UNCHANGED <<tasks, waits>>
  BY <1>1, HandlerStepMoves
<1>3. ASSUME NEW q \in Slots, handlers'[q] # NoHandler
      PROVE  runs'[handlers'[q].run].state # None
  <2>1. handlers[q] # NoHandler /\ handlers'[q].run = handlers[q].run
    BY <1>2, <1>3
  <2>2. handlers[q].run \in Runs /\ Control(handlers[q].run) # None
    BY <1>1, <2>1 DEF CallsAreWellFormed, RunsHaveBegun
  <2> QED
    BY <2>1, <2>2 DEF RunsAdvance
<1>4. ASSUME NEW d \in Drivers, tasks'[d] # NoTask
      PROVE  /\ runs'[tasks'[d].run].state # None
             /\ tasks'[d].op \notin Begins => HasStarted(tasks[d].run)'
  BY <1>1, <1>2, <1>4 DEF CallsAreWellFormed, RunsHaveBegun, RunsAdvance
<1>5. ASSUME NEW w \in waits'
      PROVE  HasStarted(w[1])'
  BY <1>1, <1>2, <1>5 DEF LifecycleTypeOK, RunsHaveBegun, RunsAdvance
<1>6. ASSUME replies'["manager"] = "ok", tasks'["manager"].pc = "start"
      PROVE  HasStarted(tasks["manager"].run)'
  <2>1. tasks["manager"].pc = "start" /\ "manager" \in Drivers /\ "manager" \in Slots
    BY <1>2, <1>6 DEF Drivers, Slots
  <2>2. tasks["manager"].run \in Runs
    BY <1>1, <2>1, TaskIsKnown DEF TaskSteps, Calls
  <2>3. CASE replies["manager"] = "ok"
    BY <1>1, <1>2, <2>1, <2>2, <2>3 DEF RunsHaveBegun, RunsAdvance, HasStarted
  <2>4. CASE replies["manager"] # "ok"
    <3>1. s = "manager" /\ handlers[s].op = "start" /\ handlers[s].run = tasks["manager"].run
      BY <1>1, <1>2, <1>6, <2>1, <2>4, HandlerStepMoves DEF CallsAreWellFormed
    <3>2. Reply(s, "ok") \/ UNCHANGED replies \/ Reply(s, "error")
      BY DEF HandlerStep, Refuse, PrepareDirectory, PrepareMounts, StartContainer, MarkRunning,
         RecordRunning, StopContainer, RemoveContainer, DockerFails, MarkStopped, RecordStopped,
         ReopenFailed, BeginCommit, Publish, FailCommit, FailUpper, BeginDestroy,
         RemoveDirectory, RemovalFails, Goto
    <3>3. ~Reply(s, "error")
      BY <1>6, <2>1, <3>1 DEF Reply
    <3>4. RecordRunning(s)
      BY <1>6, <2>4, <3>1, <3>3
         DEF HandlerStep, Refuse, PrepareDirectory, PrepareMounts, StartContainer, MarkRunning,
         RecordRunning, StopContainer, RemoveContainer, DockerFails, MarkStopped, RecordStopped,
         ReopenFailed, BeginCommit, Publish, FailCommit, FailUpper, BeginDestroy,
         RemoveDirectory, RemovalFails, Goto, At, Stops
    <3>5. runs'[handlers[s].run].state = "RUNNING"
      BY <2>2, <3>1, <3>4, RecordRunningMoves DEF RunMoves, RunIs
    <3> QED
      BY <1>2, <3>1, <3>5, NamesAreDistinct DEF HasStarted, RunState
  <2> QED
    BY <2>3, <2>4
<1>7. ASSUME tasks'["manager"].op \in Begins
      PROVE  handlers'["orphan"].run # tasks'["manager"].run
  <2>1. tasks["manager"].op \in Begins /\ "manager" \in Drivers /\ "orphan" \in Slots
    BY <1>2, <1>7 DEF Drivers, Slots
  <2>2. tasks["manager"].run \in Runs
    BY <1>1, <2>1, NoneIsNoStep DEF CallsAreWellFormed, NoTask, Begins, Operations
  <2>3. handlers["orphan"].run # tasks["manager"].run
    BY <1>1, <2>1 DEF RunsHaveBegun
  <2> QED
    BY <1>2, <2>1, <2>2, <2>3, NamesAreDistinct DEF NoHandler
<1> QED
  BY <1>2, <1>3, <1>4, <1>5, <1>6, <1>7 DEF RunsHaveBegun, NoHandler, NoTask

\* A task may become another one of a Run that has begun.
LEMMA TaskMoveKeepsBegun ==
    ASSUME CallsInvariant, RunsAdvance, NEW d \in Drivers, NEW task, TaskBecomes(d, task),
           UNCHANGED handlers,
           task # NoTask =>
              /\ runs'[task.run].state # None
              /\ task.op \notin Begins => HasStarted(task.run)'
              /\ d = "manager" /\ task.op \in Begins => handlers["orphan"].run # task.run,
           \A w \in waits' : HasStarted(w[1])',
           \A e \in Drivers : replies'[e] = IF e = d THEN "none" ELSE replies[e]
    PROVE  RunsHaveBegun'
<1>1. LifecycleTypeOK /\ CallsAreWellFormed /\ RunsHaveBegun
  BY DEF CallsInvariant
<1>2. tasks'[d] = task /\ \A e \in Drivers \ {d} : tasks'[e] = tasks[e]
  BY DEF TaskBecomes
<1>3. \A s \in Slots : handlers[s] # NoHandler => runs'[handlers[s].run].state # None
  BY <1>1 DEF RunsHaveBegun, RunsAdvance, CallsAreWellFormed
<1>4. ASSUME NEW e \in Drivers, tasks'[e] # NoTask
      PROVE  /\ runs'[tasks'[e].run].state # None
             /\ tasks'[e].op \notin Begins => runs'[tasks'[e].run].state \notin {None, "PREPARING"}
  BY <1>1, <1>2, <1>4 DEF CallsAreWellFormed, RunsHaveBegun, RunsAdvance, HasStarted
<1>5. "manager" \in Drivers
  BY DEF Drivers
<1>6. ASSUME replies'["manager"] = "ok", tasks'["manager"].pc = "start"
      PROVE  runs'[tasks'["manager"].run].state \notin {None, "PREPARING"}
  <2>1. tasks'["manager"] = tasks["manager"] /\ replies["manager"] = "ok"
    BY <1>2, <1>5, <1>6
  <2>2. tasks["manager"].run \in Runs
    BY <1>1, <1>5, <1>6, <2>1, TaskIsKnown DEF TaskSteps, Calls
  <2> QED
    BY <1>1, <1>6, <2>1, <2>2 DEF RunsHaveBegun, RunsAdvance, HasStarted
<1>7. ASSUME tasks'["manager"].op \in Begins
      PROVE  handlers["orphan"].run # tasks'["manager"].run
  BY <1>1, <1>2, <1>5, <1>7, NoneIsNoStep DEF RunsHaveBegun, NoTask, Begins, Operations
<1> QED
  BY <1>3, <1>4, <1>6, <1>7 DEF RunsHaveBegun, HasStarted, NoHandler, NoTask

\* Nobody takes up or leaves a Run.
LEMMA MemoryMoveKeepsBegun ==
    ASSUME CallsInvariant, RunsAdvance, UNCHANGED <<handlers, tasks, replies>>,
           \A w \in waits' \ waits : HasStarted(w[1])'
    PROVE  RunsHaveBegun'
<1>1. LifecycleTypeOK /\ CallsAreWellFormed /\ RunsHaveBegun
  BY DEF CallsInvariant
<1>2. \A s \in Slots : handlers[s] # NoHandler => runs'[handlers[s].run].state # None
  BY <1>1 DEF RunsHaveBegun, RunsAdvance, CallsAreWellFormed
<1>3. ASSUME NEW d \in Drivers, tasks[d] # NoTask
      PROVE  /\ runs'[tasks[d].run].state # None
             /\ tasks[d].op \notin Begins => runs'[tasks[d].run].state \notin {None, "PREPARING"}
  BY <1>1, <1>3 DEF CallsAreWellFormed, RunsHaveBegun, RunsAdvance, HasStarted
<1>4. ASSUME NEW w \in waits'
      PROVE  HasStarted(w[1])'
  <2>1. CASE w \in waits
    <3>1. w[1] \in Runs /\ HasStarted(w[1])
      BY <1>1, <2>1 DEF LifecycleTypeOK, RunsHaveBegun
    <3> QED
      BY <3>1 DEF RunsAdvance, HasStarted
  <2> QED
    BY <2>1, <1>4
<1>5. ASSUME replies["manager"] = "ok", tasks["manager"].pc = "start"
      PROVE  runs'[tasks["manager"].run].state \notin {None, "PREPARING"}
  <2>1. tasks["manager"].run \in Runs
    BY <1>1, <1>5, TaskIsKnown DEF TaskSteps, Calls, Drivers
  <2> QED
    BY <1>1, <1>5, <2>1 DEF RunsHaveBegun, RunsAdvance, HasStarted
<1> QED
  BY <1>1, <1>2, <1>3, <1>4, <1>5 DEF RunsHaveBegun, HasStarted, NoHandler, NoTask

\* An operation goes on with its Run, or ends.
LEMMA OnwardKeepsBegun ==
    ASSUME CallsInvariant, RunsAdvance, NEW d \in Drivers, tasks[d] # NoTask,
           TaskBecomes(d, NoTask) \/ \E pc : GoesOn(d, pc), UNCHANGED handlers,
           \A w \in waits' \ waits : HasStarted(w[1])',
           \A e \in Drivers : replies'[e] = IF e = d THEN "none" ELSE replies[e]
    PROVE  RunsHaveBegun'
<1>1. LifecycleTypeOK /\ CallsAreWellFormed /\ RunsHaveBegun
  BY DEF CallsInvariant
<1>2. tasks[d].run \in Runs
  BY <1>1 DEF CallsAreWellFormed
<1>3. /\ runs'[tasks[d].run].state # None
      /\ tasks[d].op \notin Begins => HasStarted(tasks[d].run) /\ runs'[tasks[d].run].state \notin {None, "PREPARING"}
      /\ d = "manager" /\ tasks[d].op \in Begins => handlers["orphan"].run # tasks[d].run
  BY <1>1, <1>2 DEF RunsHaveBegun, RunsAdvance, HasStarted
<1>4. ASSUME NEW w \in waits'
      PROVE  HasStarted(w[1])'
  <2>1. CASE w \in waits
    <3>1. w[1] \in Runs /\ HasStarted(w[1])
      BY <1>1, <2>1 DEF LifecycleTypeOK, RunsHaveBegun
    <3> QED
      BY <3>1 DEF RunsAdvance, HasStarted
  <2> QED
    BY <2>1, <1>4
<1>5. CASE TaskBecomes(d, NoTask)
  BY <1>4, <1>5, TaskMoveKeepsBegun
<1>6. CASE \E pc : GoesOn(d, pc)
  <2>1. PICK pc : TaskBecomes(d, [op |-> tasks[d].op, run |-> tasks[d].run, pc |-> pc])
    BY <1>6 DEF GoesOn
  <2> DEFINE task == [op |-> tasks[d].op, run |-> tasks[d].run, pc |-> pc]
  <2>2. /\ runs'[task.run].state # None
        /\ task.op \notin Begins => runs'[task.run].state \notin {None, "PREPARING"}
        /\ d = "manager" /\ task.op \in Begins => handlers["orphan"].run # task.run
    BY <1>3
  <2>3. TaskBecomes(d, task)
    BY <2>1
  <2> HIDE DEF task
  <2> QED
    BY <1>4, <2>2, <2>3, TaskMoveKeepsBegun DEF HasStarted
<1> QED
  BY <1>5, <1>6

\* A call is made for the Run of its task.
LEMMA CallKeepsBegun ==
    ASSUME CallsInvariant, NEW d \in Drivers, Call(d)
    PROVE  RunsHaveBegun'
<1>1. LifecycleTypeOK /\ CallsAreWellFormed /\ RunsHaveBegun
  BY DEF CallsInvariant
<1>2. tasks[d].pc \in Calls /\ UNCHANGED <<runs, tasks, waits>>
  BY DEF Call, storeVars, managerVars
<1>3. tasks[d].run \in Runs /\ tasks[d] # NoTask
  BY <1>1, <1>2, TaskIsKnown DEF TaskSteps
<1>4. /\ \A s \in Slots \ {d} : handlers'[s] = handlers[s]
      /\ handlers'[d] = handlers[d] \/ handlers'[d].run = tasks[d].run
      /\ replies'["manager"] = "ok" => replies["manager"] = "ok"
  BY <1>1 DEF Call, LifecycleTypeOK, Slots, Drivers
<1>5. "orphan" \in Slots /\ "orphan" # d
  BY DEF Slots, Drivers
<1> QED
  BY <1>1, <1>2, <1>3, <1>4, <1>5 DEF RunsHaveBegun, HasStarted, NoHandler, NoTask

\* No step of an operation works on a Run before it has begun.
LEMMA TaskStepKeepsBegun ==
    ASSUME CallsInvariant, RunsAdvance, NEW d \in Drivers, TaskStep(d)
    PROVE  RunsHaveBegun'
<1>1. LifecycleTypeOK /\ CallsAreWellFormed /\ RunsHaveBegun
  BY DEF CallsInvariant
<1>2. CASE Answered(d)
  <2>1. /\ tasks[d].pc \in Calls /\ UNCHANGED handlers
        /\ replies' = [replies EXCEPT ![d] = "none"]
        /\ waits' \subseteq waits \cup {<<tasks[d].run, "FAIL_STARTUP">>}
        /\ waits' = waits \/ (d = "manager" /\ tasks[d].pc = "start" /\ replies[d] = "ok")
        /\ TaskBecomes(d, NoTask) \/ \E pc : GoesOn(d, pc)
    BY <1>1, <1>2, AnsweredBecomes
  <2>2. tasks[d] # NoTask /\ tasks[d].run \in Runs
    BY <1>1, <2>1, TaskIsKnown DEF TaskSteps
  <2>3. ASSUME NEW w \in waits' \ waits
        PROVE  HasStarted(w[1])'
    <3>1. w[1] = tasks[d].run /\ HasStarted(tasks[d].run)
      BY <1>1, <2>1, <2>3 DEF RunsHaveBegun
    <3> QED
      BY <2>2, <3>1 DEF RunsAdvance, HasStarted
  <2>4. \A e \in Drivers : replies'[e] = IF e = d THEN "none" ELSE replies[e]
    BY <1>1, <2>1 DEF LifecycleTypeOK
  <2> QED
    BY <2>1, <2>2, <2>3, <2>4, OnwardKeepsBegun
<1>3. CASE FailRun(d) \/ RecordReason(d)
  <2>1. /\ tasks[d].pc \in {"fail", "failKept", "reason"}
        /\ UNCHANGED <<handlers, replies>> /\ waits' \subseteq waits
        /\ TaskBecomes(d, NoTask) \/ \E pc : GoesOn(d, pc)
    BY <1>1, <1>3, FailRunBecomes, RecordReasonBecomes DEF FailRun, RecordReason, callVars, Memory
  <2>2. tasks[d].pc \notin Calls /\ tasks[d].pc \in TaskSteps
    BY <2>1 DEF Calls, TaskSteps
  <2>3. tasks[d] # NoTask /\ replies[d] = "none"
    BY <1>1, <2>2, TaskIsKnown, NoCallPending
  <2> QED
    BY <2>1, <2>3, OnwardKeepsBegun
<1> QED
  BY <1>2, <1>3, CallKeepsBegun DEF TaskStep

\* A Run that is created is nobody's yet.
LEMMA CreationKeepsBegun ==
    ASSUME CallsInvariant, RunsAdvance, NEW r \in Runs, NEW op \in Begins, NEW pc,
           CreateBwaWorkspaceRun(r, TheInstance), BecomesNew(op, r, pc),
           tasks["manager"].pc \notin Calls, UNCHANGED <<callVars, waits>>
    PROVE  RunsHaveBegun'
<1>1. LifecycleTypeOK /\ CallsAreWellFormed /\ RunsHaveBegun
  BY DEF CallsInvariant
<1>2. Control(r) = None /\ runs'[r].state = "PREPARING"
  BY CreateRunMoves DEF CallsInvariant, InductiveInvariant
<1>3. handlers["orphan"].run # r
  BY <1>1, <1>2, NamesAreDistinct DEF RunsHaveBegun, NoHandler, Slots
<1>4. "manager" \in Drivers /\ replies["manager"] = "none" /\ UNCHANGED <<handlers, replies>>
  BY <1>1, NoCallPending DEF Drivers, callVars
<1>5. \A w \in waits' : HasStarted(w[1])'
  BY <1>1 DEF LifecycleTypeOK, RunsHaveBegun, RunsAdvance, HasStarted
<1> DEFINE task == [op |-> op, run |-> r, pc |-> pc]
<1>6. /\ TaskBecomes("manager", task)
      /\ runs'[task.run].state # None /\ task.op \in Begins /\ handlers["orphan"].run # task.run
  BY <1>2, <1>3, NamesAreDistinct DEF BecomesNew, RunState
<1> HIDE DEF task
<1> QED
  BY <1>4, <1>5, <1>6, TaskMoveKeepsBegun

\* A Run that is taken up by another operation than its start has started.
LEMMA TakingUpKeepsBegun ==
    ASSUME CallsInvariant, RunsAdvance, NEW r \in Runs, NEW op, op \notin Begins, NEW pc,
           HasStarted(r), BecomesNew(op, r, pc), tasks["manager"] = NoTask,
           UNCHANGED callVars, waits' \subseteq waits
    PROVE  RunsHaveBegun'
<1>1. LifecycleTypeOK /\ CallsAreWellFormed /\ RunsHaveBegun
  BY DEF CallsInvariant
<1>2. runs'[r].state \notin {None, "PREPARING"}
  BY DEF RunsAdvance, HasStarted
<1>3. "manager" \in Drivers /\ replies["manager"] = "none" /\ UNCHANGED <<handlers, replies>>
  BY <1>1, NoCallPending, NoneIsNoStep DEF Drivers, callVars, NoTask, TaskSteps
<1>4. \A w \in waits' : HasStarted(w[1])'
  BY <1>1 DEF LifecycleTypeOK, RunsHaveBegun, RunsAdvance, HasStarted
<1> DEFINE task == [op |-> op, run |-> r, pc |-> pc]
<1>5. /\ TaskBecomes("manager", task)
      /\ runs'[task.run].state \notin {None, "PREPARING"} /\ task.op \notin Begins
  BY <1>2 DEF BecomesNew
<1> HIDE DEF task
<1> QED
  BY <1>3, <1>4, <1>5, TaskMoveKeepsBegun DEF HasStarted

\* A request takes up a Run in the state it asks for.
LEMMA ManagerKeepsBegun ==
    ASSUME CallsInvariant, RunsAdvance, ManagerStep \/ RequestStep \/ Background
    PROVE  RunsHaveBegun'
<1>1. /\ LifecycleTypeOK /\ CallsAreWellFormed /\ RunsHaveBegun
      /\ InductiveInvariant /\ RunsAreTheInstances
  BY DEF CallsInvariant
<1>2. UNCHANGED callVars /\ UNCHANGED <<handlers, replies>> /\ "manager" \in Drivers
  BY DEF ManagerStep, SetIntent, DiscardRow, Restart, RequestStep, Start, StartRefused, UserStop,
     OpenInstance, PublishFailedUpper, DiscardFailedUpper, FailStartup, Background, SeeExit,
     FinalizeExited, EndReadinessWait, callVars, Drivers
<1>3. tasks["manager"] = NoTask => tasks["manager"].pc \notin Calls
  BY NoneIsNoStep DEF NoTask, TaskSteps
<1>4. \A r \in Runs : Control(r) \in {"RUNNING", "FAILED", "STOPPED"} => HasStarted(r)
  BY NamesAreDistinct DEF HasStarted, RunState
<1>5. /\ {"USER_STOP", "SAVE_RESTART", "EXITED", "PUBLISH"} \cap Begins = {}
      /\ Waiters \cap Begins = {} /\ Drops \cap Begins = {}
  BY DEF Begins, Waiters, Drops
<1>6. ASSUME tasks["manager"].pc \in {"create", "intent", "intentKept", "discard"},
             TaskBecomes("manager", NoTask) \/ \E pc : GoesOn("manager", pc),
             waits' \subseteq waits
      PROVE  RunsHaveBegun'
  <2>1. tasks["manager"].pc \in TaskSteps /\ tasks["manager"].pc \notin Calls
    BY <1>6 DEF TaskSteps, Calls
  <2>2. tasks["manager"] # NoTask /\ replies["manager"] = "none"
    BY <1>1, <1>2, <2>1, TaskIsKnown, NoCallPending
  <2> QED
    BY <1>2, <1>6, <2>2, OnwardKeepsBegun
<1>7. CASE Restart
  <2>1. tasks["manager"].pc = "create" /\ UNCHANGED waits
    BY <1>1, <1>7, RestartBecomes DEF Memory
  <2>2. tasks["manager"].pc \notin Calls
    BY <2>1 DEF Calls
  <2> QED
    BY <1>1, <1>2, <1>6, <1>7, <2>1, <2>2, RestartBecomes, CreationKeepsBegun DEF Begins
<1>8. CASE SetIntent \/ DiscardRow
  BY <1>1, <1>6, <1>8, SetIntentBecomes, DiscardRowBecomes
<1>9. ASSUME NEW r \in Runs, StartRefused(r) \/ OpenInstance(r) \/ SeeExit(r)
                              \/ \E waiter \in Waiters : EndReadinessWait(r, waiter)
      PROVE  RunsHaveBegun'
  <2>1. UNCHANGED tasks
    BY <1>9 DEF StartRefused, OpenInstance, SeeExit, EndReadinessWait
  <2>2. \A w \in waits' \ waits : w[1] = r /\ Control(r) = "RUNNING"
    <3>1. \/ waits' \subseteq waits
          \/ waits' = waits \cup {<<r, "FAIL_OPEN">>} /\ Control(r) = "RUNNING"
      BY <1>9 DEF StartRefused, OpenInstance, SeeExit, EndReadinessWait
    <3>2. <<r, "FAIL_OPEN">>[1] = r
      OBVIOUS
    <3> QED
      BY <3>1, <3>2
  <2>3. \A w \in waits' \ waits : HasStarted(w[1])'
    BY <1>4, <2>2 DEF RunsAdvance, HasStarted
  <2> QED
    BY <1>2, <2>1, <2>3, MemoryMoveKeepsBegun
<1>10. ASSUME UNCHANGED tasks, waits' \subseteq waits
       PROVE  RunsHaveBegun'
  BY <1>2, <1>10, MemoryMoveKeepsBegun
<1>11. CASE RequestStep
  <2>1. ASSUME NEW r \in Runs, Start(r)
        PROVE  RunsHaveBegun'
    BY <1>1, <1>2, <1>3, <2>1, StartBecomes, CreationKeepsBegun DEF Begins, Memory
  <2>2. ASSUME NEW reason \in {"USER_STOP", "SAVE_RESTART"}, UserStop(reason)
        PROVE  RunsHaveBegun'
    BY <1>1, <1>2, <1>4, <1>5, <2>2, UserStopBecomes, TakingUpKeepsBegun DEF Memory
  <2>3. ASSUME NEW r \in Runs, PublishFailedUpper(r)
        PROVE  RunsHaveBegun'
    BY <1>1, <1>2, <1>4, <1>5, <2>3, PublishFailedUpperBecomes, TakingUpKeepsBegun
       DEF Memory, PublishFailedUpper
  <2>4. ASSUME NEW r \in Runs, DiscardFailedUpper(r, "DISCARD")
        PROVE  RunsHaveBegun'
    BY <1>1, <1>2, <1>4, <1>5, <1>10, <2>4, DiscardFailedUpperBecomes, TakingUpKeepsBegun
       DEF Drops
  <2>5. ASSUME NEW r \in Runs, NEW waiter \in Waiters, FailStartup(r, waiter)
        PROVE  RunsHaveBegun'
    <3>1. <<r, waiter>>[1] = r /\ <<r, waiter>> \in waits
      BY <1>1, <2>5, FailStartupBecomes
    <3>2. HasStarted(r)
      BY <1>1, <3>1 DEF RunsHaveBegun
    <3> QED
      BY <1>1, <1>2, <1>5, <1>10, <2>5, <3>2, FailStartupBecomes, TakingUpKeepsBegun
  <2> QED
    BY <1>9, <1>11, <2>1, <2>2, <2>3, <2>4, <2>5 DEF RequestStep
<1>12. CASE Background
  <2>1. CASE FinalizeExited
    BY <1>1, <1>2, <1>4, <1>5, <1>10, <2>1, FinalizeExitedBecomes, TakingUpKeepsBegun
  <2>2. ASSUME NEW r \in Runs, DiscardFailedUpper(r, "DISCARD_FAILED_START")
        PROVE  RunsHaveBegun'
    BY <1>1, <1>2, <1>4, <1>5, <1>10, <2>2, DiscardFailedUpperBecomes, TakingUpKeepsBegun
       DEF Drops
  <2> QED
    BY <1>9, <1>12, <2>1, <2>2 DEF Background
<1> QED
  BY <1>7, <1>8, <1>11, <1>12 DEF ManagerStep

\* The recovery works on Runs that have begun.
LEMMA RecoveryKeepsBegun ==
    ASSUME CallsInvariant, RunsAdvance, Recovery
    PROVE  RunsHaveBegun'
<1>1. LifecycleTypeOK /\ CallsAreWellFormed /\ RunsHaveBegun
  BY DEF CallsInvariant
<1>2. UNCHANGED <<tasks, waits, replies>>
  BY DEF Recovery, StartDaemon, NextPhase, RecoveryFails, RecoverInterrupted, RecoverControl,
     RecoverStopped, RecoverStoppedControl, RecoverIntent, managerVars, callVars
<1>3. handlers \in [Slots -> HandlerRow] /\ "recovery" \in Slots /\ "orphan" \in Slots
  BY <1>1 DEF LifecycleTypeOK, HandlerRow, Slots
<1>4. CASE UNCHANGED handlers
  BY <1>2, <1>4, MemoryMoveKeepsBegun
<1>5. ASSUME ~UNCHANGED handlers
      PROVE  /\ \A s \in Slots \ {"recovery"} : handlers'[s] = handlers[s]
             /\ \/ handlers'["recovery"] = NoHandler
                \/ \E r \in Runs : /\ handlers'["recovery"].run = r
                                   /\ Control(r) # None /\ UNCHANGED runs
  <2>1. \/ handlers' = [handlers EXCEPT !["recovery"] = NoHandler]
        \/ \E r \in Runs : RecoverStopped(r)
    BY <1>5 DEF Recovery, StartDaemon, NextPhase, RecoveryFails, RecoverInterrupted,
       RecoverControl, RecoverStoppedControl, RecoverIntent, callVars
  <2>2. ASSUME NEW r \in Runs, RecoverStopped(r)
        PROVE  /\ Control(r) # None /\ UNCHANGED runs
               /\ handlers' = [handlers EXCEPT
                     !["recovery"] = [op |-> None, run |-> r, pc |-> "control", by |-> None]]
    BY <2>2 DEF RecoverStopped, storeVars, CallsInvariant, RecoveryGoesByItsList
  <2> QED
    BY <1>3, <2>1, <2>2
<1>6. ASSUME ~UNCHANGED handlers
      PROVE  RunsHaveBegun'
  <2>1. ASSUME NEW s \in Slots, handlers'[s] # NoHandler
        PROVE  runs'[handlers'[s].run].state # None
    <3>1. CASE s = "recovery"
      BY <1>5, <1>6, <2>1, <3>1, NamesAreDistinct DEF RunState
    <3>2. CASE s # "recovery"
      BY <1>1, <1>5, <1>6, <2>1, <3>2 DEF CallsAreWellFormed, RunsHaveBegun, RunsAdvance
    <3> QED
      BY <3>1, <3>2
  <2>2. ASSUME NEW d \in Drivers, tasks[d] # NoTask
        PROVE  /\ runs'[tasks[d].run].state # None
               /\ tasks[d].op \notin Begins => runs'[tasks[d].run].state \notin {None, "PREPARING"}
    BY <1>1, <2>2 DEF CallsAreWellFormed, RunsHaveBegun, RunsAdvance, HasStarted
  <2>3. \A w \in waits : HasStarted(w[1])'
    BY <1>1 DEF LifecycleTypeOK, RunsHaveBegun, RunsAdvance, HasStarted
  <2>4. ASSUME replies["manager"] = "ok", tasks["manager"].pc = "start"
        PROVE  runs'[tasks["manager"].run].state \notin {None, "PREPARING"}
    <3>1. tasks["manager"].run \in Runs
      BY <1>1, <2>4, TaskIsKnown DEF TaskSteps, Calls, Drivers
    <3> QED
      BY <1>1, <2>4, <3>1 DEF RunsHaveBegun, RunsAdvance, HasStarted
  <2>5. handlers'["orphan"] = handlers["orphan"]
    BY <1>3, <1>5, <1>6
  <2> QED
    BY <1>1, <1>2, <2>1, <2>2, <2>3, <2>4, <2>5 DEF RunsHaveBegun, HasStarted, NoHandler, NoTask
<1> QED
  BY <1>4, <1>6

\* The closing daemon stops a Run that is RUNNING.
LEMMA DaemonKeepsBegun ==
    ASSUME CallsInvariant, RunsAdvance,
           \/ CloseDaemon \/ SaveInstances \/ ExitDaemon
           \/ \E r \in Runs : ContainerExits(r)
    PROVE  RunsHaveBegun'
<1>1. LifecycleTypeOK /\ CallsAreWellFormed /\ PhasesServeCalls /\ RunsHaveBegun
  BY DEF CallsInvariant
<1>2. UNCHANGED <<runs, handlers, replies, waits>>
  BY DEF CloseDaemon, SaveInstances, ExitDaemon, ContainerExits, storeVars, callVars,
     managerVars, Memory
<1>3. CASE UNCHANGED tasks
  BY <1>2, <1>3, MemoryMoveKeepsBegun
<1>4. CASE SaveInstances /\ ~UNCHANGED tasks
  <2>1. PICK r \in Runs : /\ Control(r) = "RUNNING"
                          /\ TaskBecomes("shutdown", [op |-> "HOST_SHUTDOWN", run |-> r,
                                                      pc |-> "reason"])
    BY <1>1, <1>4, SaveInstancesBecomes
  <2> DEFINE task == [op |-> "HOST_SHUTDOWN", run |-> r, pc |-> "reason"]
  <2>2. /\ TaskBecomes("shutdown", task) /\ runs'[task.run].state = "RUNNING"
    BY <1>2, <2>1
  <2>3. "shutdown" \in Drivers /\ tasks["shutdown"] = NoTask
    BY <1>1, <1>4, SaveInstancesBecomes DEF Drivers
  <2>4. replies["shutdown"] = "none"
    BY <1>1, <2>3, NoCallPending, NoneIsNoStep DEF NoTask, TaskSteps
  <2>5. \A w \in waits' : HasStarted(w[1])'
    BY <1>1, <1>2 DEF RunsHaveBegun, HasStarted
  <2> HIDE DEF task
  <2> QED
    BY <1>2, <2>2, <2>3, <2>4, <2>5, TaskMoveKeepsBegun, NamesAreDistinct
       DEF HasStarted, RunState
<1> QED
  BY <1>3, <1>4 DEF CloseDaemon, ExitDaemon, ContainerExits, managerVars

\* After a crash of the manager the orphan is on a Run of the past.
LEMMA CrashesKeepBegun ==
    ASSUME CallsInvariant, RunsAdvance, CrashDaemon \/ CrashManager
    PROVE  RunsHaveBegun'
<1>1. LifecycleTypeOK /\ CallsAreWellFormed /\ RunsHaveBegun
  BY DEF CallsInvariant
<1>2. UNCHANGED runs
  BY DEF CrashDaemon, CrashManager, storeVars
<1>3. Slots = {"manager", "shutdown", "orphan", "recovery"} /\ Drivers = {"manager", "shutdown"}
  BY DEF Slots, Drivers
<1>4. CASE CrashDaemon
  <2>1. /\ handlers' = [s \in Slots |-> NoHandler] /\ UNCHANGED waits
        /\ tasks' = [tasks EXCEPT !["shutdown"] = NoTask]
        /\ replies'["manager"] = "ok" => replies["manager"] = "ok"
    BY <1>3, <1>4 DEF CrashDaemon, Memory
  <2>2. tasks'["shutdown"] = NoTask /\ tasks'["manager"] = tasks["manager"]
    BY <1>1, <1>3, <2>1 DEF LifecycleTypeOK
  <2>3. tasks["manager"].op \in Begins => tasks["manager"].run # None
    BY <1>1, <1>3, NoneIsNoStep, NamesAreDistinct
       DEF CallsAreWellFormed, NoTask, Begins, Operations
  <2> QED
    BY <1>1, <1>2, <1>3, <2>1, <2>2, <2>3 DEF RunsHaveBegun, HasStarted, NoHandler, NoTask
<1>5. CASE CrashManager
  <2>1. /\ tasks' = [tasks EXCEPT !["manager"] = NoTask] /\ waits' = {}
        /\ replies' = [replies EXCEPT !["manager"] = "none"]
        /\ handlers' = [handlers EXCEPT
              !["orphan"]  = IF @ = NoHandler THEN handlers["manager"] ELSE @,
              !["manager"] = NoHandler]
    BY <1>5 DEF CrashManager
  <2>2. tasks'["manager"] = NoTask /\ tasks'["shutdown"] = tasks["shutdown"]
        /\ replies'["manager"] = "none"
    BY <1>1, <1>3, <2>1 DEF LifecycleTypeOK
  <2>3. /\ handlers'["manager"] = NoHandler
        /\ handlers'["shutdown"] = handlers["shutdown"]
        /\ handlers'["recovery"] = handlers["recovery"]
        /\ handlers'["orphan"] \in {handlers["orphan"], handlers["manager"]}
    BY <1>1, <1>3, <2>1 DEF LifecycleTypeOK
  <2>4. None \notin Begins
    BY NoneIsNoStep DEF Begins, Operations
  <2> QED
    BY <1>1, <1>2, <1>3, <2>1, <2>2, <2>3, <2>4 DEF RunsHaveBegun, HasStarted, NoHandler, NoTask
<1> QED
  BY <1>4, <1>5

\* Every step keeps that what is worked on has begun.
LEMMA StepBegun ==
    ASSUME CallsInvariant, [LifecycleNext]_lifecycleVars
    PROVE  RunsHaveBegun'
<1>1. RunsAdvance
  BY StepsAdvance
<1>2. CASE LifecycleNext
  BY <1>1, <1>2, HandlerStepKeepsBegun, TaskStepKeepsBegun, ManagerKeepsBegun,
     RecoveryKeepsBegun, DaemonKeepsBegun, CrashesKeepBegun DEF LifecycleNext
<1>3. CASE UNCHANGED lifecycleVars
  BY <1>1, <1>3, MemoryMoveKeepsBegun DEF lifecycleVars, callVars, managerVars
<1> QED
  BY <1>2, <1>3

-----------------------------------------------------------------------------
\* Who works on a Run that has not started is alone with it.

\* Two calls on one Run: it has started, so that neither is its start.
LEMMA AloneWithARun ==
    ASSUME CallsInvariant, NEW s \in Slots, NEW q \in Slots \ {s},
           handlers[s].run = handlers[q].run, handlers[s].run \in Runs
    PROVE  HasStarted(handlers[s].run)
<1>1. LifecycleTypeOK /\ CallsAreWellFormed /\ PhasesServeCalls /\ RunsHaveBegun
  BY DEF CallsInvariant
<1>2. handlers[s] # NoHandler /\ handlers[q] # NoHandler
  BY NamesAreDistinct DEF NoHandler
<1>3. Slots = {"manager", "shutdown", "orphan", "recovery"} /\ Drivers = {"manager", "shutdown"}
  BY DEF Slots, Drivers
<1>4. ASSUME NEW d \in Drivers, handlers[d] # NoHandler
      PROVE  /\ tasks[d] # NoTask /\ tasks[d].run = handlers[d].run
             /\ tasks[d].op \in Begins \/ HasStarted(handlers[d].run)
  <2>1. handlers[d].run \in Runs /\ tasks[d].run = handlers[d].run
    BY <1>1, <1>3, <1>4 DEF CallsAreWellFormed
  <2>2. tasks[d] # NoTask
    BY <2>1, NamesAreDistinct DEF NoTask
  <2> QED
    BY <1>1, <2>1, <2>2 DEF RunsHaveBegun
<1>5. handlers["shutdown"] # NoHandler => HasStarted(handlers["shutdown"].run)
  <2>1. tasks["shutdown"] # NoTask => tasks["shutdown"].op = "HOST_SHUTDOWN"
    BY <1>1, <1>3 DEF CallsAreWellFormed
  <2> QED
    BY <1>3, <1>4, <2>1 DEF Begins
<1>6. tasks["manager"].op \in Begins => handlers["orphan"].run # tasks["manager"].run
  BY <1>1 DEF RunsHaveBegun
<1>7. handlers["recovery"] = NoHandler
      \/ (handlers["manager"] = NoHandler /\ handlers["orphan"] = NoHandler)
  BY <1>1 DEF PhasesServeCalls
<1> QED
  BY <1>2, <1>3, <1>4, <1>5, <1>6, <1>7

\* A call moves no Run but its own.
LEMMA HandlerStepMovesItsRun ==
    ASSUME CallsInvariant, NEW s \in Slots, HandlerStep(s)
    PROVE  \A q \in Runs \ {handlers[s].run} : runs'[q].state = Control(q)
<1>1. CASE RunsStay \/ \E state : RunMoves(handlers[s].run, state)
  BY <1>1 DEF RunsStay, RunMoves, RunIs
<1>2. CASE UNCHANGED storeVars
  BY <1>2 DEF storeVars
<1> QED
  BY <1>1, <1>2, RecordRunningMoves, RecordStoppedMoves, BeginCommitMoves, PublishMoves,
     FailCommitMoves
     DEF HandlerStep, Refuse, PrepareDirectory, PrepareMounts, StartContainer, MarkRunning,
         StopContainer, RemoveContainer, DockerFails, MarkStopped, ReopenFailed, FailUpper,
         BeginDestroy, RemoveDirectory, RemovalFails

\* A directory that was prepared and not yet used is of a Run that is PREPARING.
IsFresh(r) == local[r] \in {"PREPARING", "PREPARED"} => Control(r) = "PREPARING"

\* The same after the step.
IsFreshNext(r) == local'[r] \in {"PREPARING", "PREPARED"} => runs'[r].state = "PREPARING"

\* A step of a call keeps it so.
LEMMA HandlerStepKeepsFresh ==
    ASSUME CallsInvariant, NEW s \in Slots, HandlerStep(s), NEW r \in Runs, IsFresh(r)
    PROVE  IsFreshNext(r)
<1>1. LifecycleTypeOK /\ CallsAreWellFormed /\ StartsArePrepared
  BY DEF CallsInvariant
<1>2. CASE r # handlers[s].run
  BY <1>1, <1>2, HandlerStepIsLocal, HandlerStepMovesItsRun DEF IsFresh, IsFreshNext
<1>3. CASE r = handlers[s].run
  <2>1. CASE RecordRunning(s)
    <3>1. local'[r] = "RUNNING"
      BY <1>1, <1>3, <2>1 DEF RecordRunning, StartsArePrepared, runtimeVars
    <3> QED
      BY <3>1 DEF IsFreshNext
  <2>2. CASE RecordStopped(s) \/ BeginCommit(s) \/ Publish(s) \/ FailCommit(s)
    <3>1. UNCHANGED local
      BY <2>2 DEF RecordStopped, BeginCommit, Publish, FailCommit, runtimeVars
    <3>2. Control(r) = "PREPARING" => runs'[r].state = "PREPARING"
      BY <1>3, <2>2, RecordStoppedMoves, BeginCommitMoves, PublishMoves, FailCommitMoves
         DEF RunsStay, RunIs
    <3> QED
      BY <3>1, <3>2 DEF IsFresh, IsFreshNext
  <2>3. CASE UNCHANGED storeVars
    <3>1. Control(r) = runs'[r].state
      BY <2>3 DEF storeVars
    <3>2. CASE PrepareDirectory(s) \/ PrepareMounts(s)
      <4>1. Control(r) = "PREPARING"
        BY <1>1, <1>3, <3>2
           DEF PrepareDirectory, PrepareMounts, Accepts, StartsArePrepared, At
      <4> QED
        BY <3>1, <4>1 DEF IsFreshNext
    <3>3. CASE ~(PrepareDirectory(s) \/ PrepareMounts(s))
      <4>1. local'[r] = local[r] \/ local'[r] \notin {"PREPARING", "PREPARED"}
        BY <1>1, <1>3, <3>3
           DEF HandlerStep, Refuse, StartContainer, MarkRunning, RecordRunning, StopContainer,
               RemoveContainer, DockerFails, MarkStopped, RecordStopped, ReopenFailed,
               BeginCommit, Publish, FailCommit, FailUpper, BeginDestroy, RemoveDirectory,
               RemovalFails,
               SetLocal, MarkFailed, LifecycleTypeOK, runtimeVars
      <4> QED
        BY <3>1, <4>1 DEF IsFresh, IsFreshNext
    <3> QED
      BY <3>2, <3>3
  <2> QED
    BY <2>1, <2>2, <2>3
       DEF HandlerStep, Refuse, PrepareDirectory, PrepareMounts, StartContainer, MarkRunning,
           StopContainer, RemoveContainer, DockerFails, MarkStopped, ReopenFailed, FailUpper,
           BeginDestroy, RemoveDirectory, RemovalFails
<1> QED
  BY <1>2, <1>3

\* What StartsArePrepared says of one call.
CallIsPrepared(s) ==
    LET r == handlers[s].run
    IN  /\ handlers[s].op \in {"prepareBwa", "start"} =>
              /\ handlers[s].pc # "begin" => Control(r) = "PREPARING"
              /\ IsFresh(r)
        /\ At(s, "prepareBwa", "mount") => local[r] = "PREPARING"
        /\ At(s, "start", "mark") => local[r] = "PREPARED"
        /\ At(s, "start", "record") => local[r] = "RUNNING"

TaskIsPrepared ==
    tasks["manager"].pc \in {"prepareBwa", "start"} => IsFresh(tasks["manager"].run)

\* StartsArePrepared, one call and one task at a time.
LEMMA PreparedByParts ==
    /\ StartsArePrepared <=> TaskIsPrepared /\ \A s \in Slots : CallIsPrepared(s)
    /\ StartsArePrepared' <=> TaskIsPrepared' /\ \A s \in Slots : CallIsPrepared(s)'
  BY DEF StartsArePrepared, TaskIsPrepared, CallIsPrepared, IsFresh, At

\* A step of a call keeps StartsArePrepared: only the start itself moves its Run.
LEMMA HandlerStepKeepsPrepared ==
    ASSUME CallsInvariant, NEW s \in Slots, HandlerStep(s)
    PROVE  StartsArePrepared'
<1>1. LifecycleTypeOK /\ CallsAreWellFormed /\ TaskIsPrepared
      /\ \A q \in Slots : CallIsPrepared(q)
  BY PreparedByParts DEF CallsInvariant
<1>2. /\ handlers[s].run \in Runs /\ handlers[s] # NoHandler
      /\ \A q \in Slots \ {s} : handlers'[q] = handlers[q]
      /\ UNCHANGED tasks
      /\ \/ handlers'[s].run = handlers[s].run /\ handlers'[s].op = handlers[s].op
            /\ handlers'[s].pc # "begin"
         \/ handlers'[s] = NoHandler
  BY <1>1, HandlerStepMoves
<1>3. TaskIsPrepared'
  <2>1. SUFFICES ASSUME tasks["manager"].pc \in {"prepareBwa", "start"}
                 PROVE  IsFreshNext(tasks["manager"].run)
    BY <1>2 DEF TaskIsPrepared, IsFresh, IsFreshNext
  <2>2. tasks["manager"].run \in Runs
    BY <1>1, <2>1, TaskIsKnown DEF TaskSteps, Calls, Drivers
  <2> QED
    BY <1>1, <2>1, <2>2, HandlerStepKeepsFresh DEF TaskIsPrepared
<1>4. ASSUME NEW q \in Slots \ {s}
      PROVE  CallIsPrepared(q)'
  <2>1. handlers'[q] = handlers[q] /\ CallIsPrepared(q)
    BY <1>1, <1>2
  <2>2. CASE handlers[q].op \notin {"prepareBwa", "start"}
    BY <2>1, <2>2 DEF CallIsPrepared, At
  <2>3. CASE handlers[q].op \in {"prepareBwa", "start"}
    <3>1. handlers[q].run \in Runs /\ handlers[q] # NoHandler
      BY <1>1, <2>3, NoneIsNoStep DEF CallsAreWellFormed, NoHandler, TaskSteps, Calls
    <3>2. IsFreshNext(handlers[q].run)
      BY <2>1, <2>3, <3>1, HandlerStepKeepsFresh DEF CallIsPrepared
    <3>3. CASE handlers[q].run = handlers[s].run
      <4>1. Control(handlers[q].run) # "PREPARING"
        BY <3>1, <3>3, AloneWithARun DEF HasStarted
      <4>2. handlers[q].pc = "begin"
        BY <2>1, <2>3, <4>1 DEF CallIsPrepared
      <4> QED
        BY <2>1, <3>2, <4>2 DEF CallIsPrepared, At, IsFresh, IsFreshNext
    <3>4. CASE handlers[q].run # handlers[s].run
      <4>1. /\ runs'[handlers[q].run].state = Control(handlers[q].run)
            /\ local'[handlers[q].run] = local[handlers[q].run]
        BY <1>1, <3>1, <3>4, HandlerStepMovesItsRun, HandlerStepIsLocal
      <4> QED
        BY <2>1, <4>1 DEF CallIsPrepared, At, IsFresh
    <3> QED
      BY <3>3, <3>4
  <2> QED
    BY <2>2, <2>3
<1>5. CallIsPrepared(s)'
  <2>1. CASE handlers'[s] = NoHandler
    BY <2>1, NoneIsNoStep DEF NoHandler, CallIsPrepared, At, TaskSteps, Calls
  <2>2. CASE handlers'[s] # NoHandler /\ handlers[s].op \in {"prepareBwa", "start"}
    <3>1. handlers'[s].run = handlers[s].run /\ handlers'[s].op = handlers[s].op
          /\ handlers'[s].pc # "begin"
      BY <1>2, <2>2
    <3>2. PrepareDirectory(s) \/ StartContainer(s) \/ MarkRunning(s)
      <4>1. /\ ~Reply(s, "ok") /\ ~Reply(s, "error")
        BY <1>1, <2>2 DEF Reply, LifecycleTypeOK
      <4> QED
        BY <1>1, <2>2, <4>1, HandlerStepMoves
           DEF HandlerStep, Refuse, PrepareMounts, RecordRunning, StopContainer, RemoveContainer,
               DockerFails, MarkStopped, RecordStopped, ReopenFailed, BeginCommit, Publish,
               FailCommit, FailUpper, BeginDestroy, RemoveDirectory, RemovalFails, At, Stops,
               IsCallStep
    <3>3. Control(handlers[s].run) = "PREPARING" /\ UNCHANGED runs
      BY <1>1, <3>2 DEF PrepareDirectory, StartContainer, MarkRunning, Accepts, At,
         CallIsPrepared, IsFresh, storeVars
    <3>4. /\ At(s, "prepareBwa", "mount")' => local'[handlers[s].run] = "PREPARING"
          /\ At(s, "start", "mark")' => local'[handlers[s].run] = "PREPARED"
          /\ At(s, "start", "record")' => local'[handlers[s].run] = "RUNNING"
      <4>1. CASE MarkRunning(s)
        <5>1. handlers' = [handlers EXCEPT ![s].pc = "record"] /\ handlers[s].op = "start"
              /\ local'[handlers[s].run] = "RUNNING"
          BY <1>1, <1>2, <4>1 DEF MarkRunning, SetLocal, LifecycleTypeOK, Goto, At
        <5> QED
          BY <1>1, <3>1, <5>1 DEF LifecycleTypeOK, At
      <4>2. CASE PrepareDirectory(s)
        BY <1>1, <1>2, <3>1, <4>2 DEF PrepareDirectory, At, SetLocal, LifecycleTypeOK
      <4>3. CASE StartContainer(s)
        <5>1. /\ handlers[s].op = "start" /\ local[handlers[s].run] = "PREPARED"
              /\ \/ handlers' = [handlers EXCEPT ![s].pc = "mark"] /\ UNCHANGED local
                 \/ handlers'[s] = NoHandler
          BY <1>1, <4>3 DEF StartContainer, Goto, Reply, LifecycleTypeOK, At, Accepts
        <5> QED
          BY <1>1, <2>2, <3>1, <5>1 DEF LifecycleTypeOK, At
      <4> QED
        BY <3>2, <4>1, <4>2, <4>3
    <3> QED
      BY <3>1, <3>3, <3>4 DEF CallIsPrepared, IsFresh, At
  <2>3. CASE handlers'[s] # NoHandler /\ handlers[s].op \notin {"prepareBwa", "start"}
    BY <1>2, <2>3 DEF CallIsPrepared, At
  <2> QED
    BY <2>1, <2>2, <2>3
<1> QED
  BY <1>3, <1>4, <1>5, PreparedByParts

\* A Run only leaves PREPARING when no call is preparing or starting it.
LEMMA RunsMoveKeepsPrepared ==
    ASSUME CallsInvariant, UNCHANGED <<local, handlers>>, TaskIsPrepared',
           \A r \in Runs : Control(r) = "PREPARING" =>
              \/ runs'[r].state = "PREPARING"
              \/ \A s \in Slots : handlers[s].op \in {"prepareBwa", "start"} => handlers[s].run # r
    PROVE  StartsArePrepared'
<1>1. CallsAreWellFormed /\ \A s \in Slots : CallIsPrepared(s)
  BY PreparedByParts DEF CallsInvariant
<1>2. ASSUME NEW s \in Slots
      PROVE  CallIsPrepared(s)'
  <2>1. handlers[s].op \in {"prepareBwa", "start"} => handlers[s].run \in Runs
    BY <1>1, NoneIsNoStep DEF CallsAreWellFormed, NoHandler, TaskSteps, Calls
  <2> QED
    BY <1>1, <2>1 DEF CallIsPrepared, IsFresh, At
<1> QED
  BY <1>2, PreparedByParts

\* The manager has no business with a call of somebody else that starts a Run.
LEMMA FailRunIsAlone ==
    ASSUME CallsInvariant, NEW d \in Drivers, tasks[d].pc \in TaskSteps \ Calls,
           Control(tasks[d].run) = "PREPARING"
    PROVE  /\ d = "manager"
           /\ \A s \in Slots : handlers[s].op \in {"prepareBwa", "start"} => handlers[s].run # tasks[d].run
<1>1. LifecycleTypeOK /\ CallsAreWellFormed /\ PhasesServeCalls /\ RunsHaveBegun
  BY DEF CallsInvariant
<1>2. Slots = {"manager", "shutdown", "orphan", "recovery"} /\ Drivers = {"manager", "shutdown"}
  BY DEF Slots, Drivers
<1>3. tasks[d] # NoTask /\ handlers[d] = NoHandler
  BY <1>1, TaskIsKnown, NoCallPending
<1>4. tasks[d].op \in Begins
  BY <1>1, <1>3 DEF RunsHaveBegun, HasStarted
<1>5. d = "manager"
  BY <1>1, <1>2, <1>3, <1>4 DEF CallsAreWellFormed, Begins
<1>6. handlers["orphan"].run # tasks["manager"].run
  BY <1>1, <1>4, <1>5 DEF RunsHaveBegun
<1>7. handlers["shutdown"] # NoHandler => HasStarted(handlers["shutdown"].run)
  <2>1. handlers["shutdown"] # NoHandler =>
           tasks["shutdown"].run = handlers["shutdown"].run /\ handlers["shutdown"].run \in Runs
    BY <1>1, <1>2 DEF CallsAreWellFormed
  <2>2. handlers["shutdown"] # NoHandler => tasks["shutdown"] # NoTask
    BY <2>1, NamesAreDistinct DEF NoTask
  <2>3. tasks["shutdown"] # NoTask => tasks["shutdown"].op \notin Begins
    BY <1>1, <1>2 DEF CallsAreWellFormed, Begins
  <2> QED
    BY <1>1, <1>2, <2>1, <2>2, <2>3 DEF RunsHaveBegun
<1>8. /\ handlers["recovery"].op \notin {"prepareBwa", "start"}
      /\ NoHandler.op \notin {"prepareBwa", "start"}
  BY <1>1, <1>2, NoneIsNoStep DEF CallsAreWellFormed, NoHandler, TaskSteps, Calls
<1> QED
  BY <1>2, <1>3, <1>5, <1>6, <1>7, <1>8 DEF HasStarted

\* An operation that fails a PREPARING Run has no start running.
LEMMA TaskStepKeepsPrepared ==
    ASSUME CallsInvariant, NEW d \in Drivers, TaskStep(d)
    PROVE  StartsArePrepared'
<1>1. /\ LifecycleTypeOK /\ CallsAreWellFormed /\ RunsHaveBegun /\ TaskIsPrepared
      /\ \A q \in Slots : CallIsPrepared(q)
  BY PreparedByParts DEF CallsInvariant
<1>2. "manager" \in Drivers
  BY DEF Drivers
<1>3. CASE Call(d)
  <2>1. /\ UNCHANGED <<runs, local, tasks>> /\ tasks[d].pc \in Calls
        /\ \A q \in Slots \ {d} : handlers'[q] = handlers[q]
        /\ \/ handlers'[d] = handlers[d]
           \/ handlers'[d] = [op |-> tasks[d].pc, run |-> tasks[d].run, pc |-> "begin", by |-> tasks[d].op]
    BY <1>1, <1>3 DEF Call, storeVars, runtimeVars, managerVars, LifecycleTypeOK, Slots
  <2>2. \A q \in Slots : handlers'[q] = handlers[q] => CallIsPrepared(q)'
    BY <1>1, <2>1 DEF CallIsPrepared, IsFresh, At
  <2>3. ASSUME handlers'[d] = [op |-> tasks[d].pc, run |-> tasks[d].run, pc |-> "begin", by |-> tasks[d].op]
        PROVE  CallIsPrepared(d)'
    <3>1. tasks[d].pc \in {"prepareBwa", "start"} => d = "manager"
      <4>1. IsTaskStep(tasks[d].op, tasks[d].pc) /\ (tasks[d].op = "HOST_SHUTDOWN" <=> d = "shutdown")
        BY <1>1, <2>1, TaskIsKnown DEF TaskSteps
      <4> QED
        BY <4>1, LifecycleConstants DEF IsTaskStep, Drivers, Begins, Waiters, Drops
    <3> QED
      BY <1>1, <2>1, <2>3, <3>1 DEF TaskIsPrepared, CallIsPrepared, IsFresh, At
  <2>4. TaskIsPrepared'
    BY <1>1, <2>1 DEF TaskIsPrepared, IsFresh
  <2> QED
    BY <2>1, <2>2, <2>3, <2>4, PreparedByParts
<1>4. CASE Answered(d)
  <2>1. UNCHANGED <<runs, local, handlers>>
    BY <1>4 DEF Answered, storeVars, runtimeVars
  <2>2. \/ TaskBecomes(d, NoTask)
        \/ tasks[d].pc \in Calls /\ GoesOn(d, NextStep(d))
    BY <1>1, <1>4, AnsweredBecomes
  <2>3. NextStep(d) \in {"prepareBwa", "start"} => tasks[d].pc = "prepareBwa"
    BY DEF NextStep, AfterOk, AfterError
  <2>4. TaskIsPrepared'
    BY <1>1, <1>2, <2>1, <2>2, <2>3, NoneIsNoStep
       DEF TaskIsPrepared, GoesOn, TaskBecomes, IsFresh, NoTask, TaskSteps, Calls
  <2> QED
    BY <2>1, <2>4, RunsMoveKeepsPrepared
<1>5. CASE FailRun(d) \/ RecordReason(d)
  <2>1. UNCHANGED <<local, handlers>> /\ tasks[d].pc \in {"fail", "failKept", "reason"}
    BY <1>5 DEF FailRun, RecordReason, runtimeVars, callVars
  <2>2. tasks[d].pc \in TaskSteps \ Calls
    BY <2>1 DEF TaskSteps, Calls
  <2>3. \A r \in Runs : r = tasks[d].run \/ runs'[r].state = Control(r)
    BY <1>5, FailRunMoves, RecordReasonMoves DEF RunsStay, RunMoves, RunIs
  <2>4. \/ TaskBecomes(d, NoTask)
        \/ \E pc \in {"intent", "intentKept", "stop"} : GoesOn(d, pc)
    BY <1>1, <1>5, FailRunBecomes, RecordReasonBecomes
  <2>5. TaskIsPrepared'
    <3>1. CASE d = "manager"
      BY <2>4, <3>1, NoneIsNoStep
         DEF TaskIsPrepared, GoesOn, TaskBecomes, NoTask, TaskSteps, Calls
    <3>2. CASE d # "manager"
      <4>1. tasks'["manager"] = tasks["manager"]
        BY <1>2, <2>4, <3>2 DEF GoesOn, TaskBecomes
      <4>2. tasks["manager"].pc \in {"prepareBwa", "start"} => tasks["manager"].run \in Runs
        BY <1>1, <1>2, TaskIsKnown DEF TaskSteps, Calls
      <4>3. Control(tasks[d].run) # "PREPARING"
        BY <2>2, <3>2, FailRunIsAlone
      <4>4. runs'[tasks["manager"].run].state = Control(tasks["manager"].run)
            \/ Control(tasks["manager"].run) # "PREPARING"
            \/ tasks["manager"].pc \notin {"prepareBwa", "start"}
        BY <2>3, <4>2, <4>3
      <4> QED
        BY <1>1, <2>1, <4>1, <4>4 DEF TaskIsPrepared, IsFresh
    <3> QED
      BY <3>1, <3>2
  <2> QED
    BY <2>1, <2>2, <2>3, <2>5, FailRunIsAlone, RunsMoveKeepsPrepared
<1> QED
  BY <1>3, <1>4, <1>5 DEF TaskStep

\* A request finds no directory of the Run it creates in use.
LEMMA ManagerKeepsPrepared ==
    ASSUME CallsInvariant, ManagerStep \/ RequestStep \/ Background
    PROVE  StartsArePrepared'
<1>1. /\ LifecycleTypeOK /\ CallsAreWellFormed /\ RunsHaveBegun /\ TaskIsPrepared
      /\ InductiveInvariant /\ RunsAreTheInstances /\ TypeOK
  BY PreparedByParts DEF CallsInvariant, InductiveInvariant
<1>2. UNCHANGED <<local, handlers>> /\ "manager" \in Drivers
  BY DEF ManagerStep, SetIntent, DiscardRow, Restart, RequestStep, Start, StartRefused, UserStop,
     OpenInstance, PublishFailedUpper, DiscardFailedUpper, FailStartup, Background, SeeExit,
     FinalizeExited, EndReadinessWait, callVars, runtimeVars, Drivers
<1> DEFINE Stays == \A r \in Runs : Control(r) = "PREPARING" => runs'[r].state = "PREPARING"
           NotAtStart == tasks'["manager"].pc \notin {"prepareBwa", "start"}
<1>3. ASSUME Stays, NotAtStart \/ UNCHANGED tasks
      PROVE  StartsArePrepared'
  <2>1. TaskIsPrepared'
    <3>1. CASE NotAtStart
      BY <3>1 DEF TaskIsPrepared
    <3>2. CASE UNCHANGED tasks
      <4>1. tasks["manager"].pc \in {"prepareBwa", "start"} => tasks["manager"].run \in Runs
        BY <1>1, <1>2, TaskIsKnown DEF TaskSteps, Calls
      <4> QED
        BY <1>1, <1>2, <1>3, <3>2, <4>1 DEF TaskIsPrepared, IsFresh
    <3> QED
      BY <1>3, <3>1, <3>2
  <2> QED
    BY <1>2, <1>3, <2>1, RunsMoveKeepsPrepared
<1>4. ASSUME NEW r \in Runs, CreateBwaWorkspaceRun(r, TheInstance), NEW op, NEW pc,
             BecomesNew(op, r, pc)
      PROVE  StartsArePrepared'
  <2>1. /\ Control(r) = None /\ runs'[r].state = "PREPARING"
        /\ \A q \in Runs \ {r} : runs'[q] = runs[q]
    BY <1>1, <1>4, CreateRunMoves
  <2>2. Stays
    BY <2>1
  <2>3. TaskIsPrepared'
    BY <1>4, <2>1 DEF TaskIsPrepared, IsFresh, BecomesNew, TaskBecomes
  <2> QED
    BY <1>2, <2>2, <2>3, RunsMoveKeepsPrepared
<1>5. UNCHANGED runs => Stays
  OBVIOUS
<1>6. None \notin {"prepareBwa", "start"}
  BY NoneIsNoStep DEF TaskSteps, Calls
<1>7. CASE Restart
  <2>1. CASE \E r \in Runs : CreateRun("RESTART", r)
    <3>1. \E r \in Runs : /\ CreateBwaWorkspaceRun(r, TheInstance)
                        /\ BecomesNew("RESTART", r, "prepareBwa")
      BY <1>1, <2>1, BeginBecomes
         DEF CreateRun, BecomesNew, Operations, TaskSteps, Calls, Drivers, IsTaskStep, Begins
    <3> QED
      BY <1>4, <3>1
  <2>2. CASE tasks' = [tasks EXCEPT !["manager"] = NoTask] /\ UNCHANGED storeVars
    BY <1>1, <1>2, <1>3, <1>5, <1>6, <2>2 DEF storeVars, LifecycleTypeOK, NoTask
  <2> QED
    BY <1>7, <2>1, <2>2 DEF Restart
<1>8. CASE SetIntent \/ DiscardRow
  <2>1. Stays
    BY <1>8, SetIntentMoves, DiscardRowMoves DEF RunsStay, RunMoves, RunIs
  <2>2. TaskBecomes("manager", NoTask)
        \/ \E pc \in {"finalizeExited", "reason", "discard"} : GoesOn("manager", pc)
    BY <1>1, <1>8, SetIntentBecomes, DiscardRowBecomes DEF AfterIntent
  <2>3. NotAtStart
    BY <1>6, <2>2 DEF TaskBecomes, GoesOn, NoTask
  <2> QED
    BY <1>3, <2>1, <2>3
<1>9. ASSUME UNCHANGED runs, UNCHANGED tasks
      PROVE  StartsArePrepared'
  BY <1>3, <1>5, <1>9
<1>10. ASSUME Stays, NEW op, NEW r, NEW pc \in {"intent", "reason", "reopenFailed", "destroy"},
              BecomesNew(op, r, pc)
       PROVE  StartsArePrepared'
  <2>1. NotAtStart
    BY <1>10 DEF BecomesNew, TaskBecomes
  <2> QED
    BY <1>3, <1>10, <2>1
<1>11. CASE RequestStep
  <2>1. ASSUME NEW r \in Runs, Start(r)
        PROVE  StartsArePrepared'
    BY <1>1, <1>4, <2>1, StartBecomes
  <2>2. ASSUME NEW r \in Runs, StartRefused(r) \/ OpenInstance(r)
        PROVE  StartsArePrepared'
    BY <1>9, <2>2 DEF StartRefused, OpenInstance, storeVars
  <2>3. ASSUME NEW reason \in {"USER_STOP", "SAVE_RESTART"}, UserStop(reason)
        PROVE  StartsArePrepared'
    <3>1. UNCHANGED runs
      BY <2>3 DEF UserStop, storeVars
    <3> QED
      BY <1>1, <1>5, <1>10, <2>3, <3>1, UserStopBecomes
  <2>4. ASSUME NEW r \in Runs, PublishFailedUpper(r)
        PROVE  StartsArePrepared'
    <3>1. Stays
      BY <1>1, <2>4, ReopenMoves DEF PublishFailedUpper, RunMoves, RunIs
    <3> QED
      BY <1>1, <1>10, <2>4, <3>1, PublishFailedUpperBecomes
  <2>5. ASSUME NEW r \in Runs, DiscardFailedUpper(r, "DISCARD")
        PROVE  StartsArePrepared'
    <3>1. UNCHANGED runs
      BY <2>5 DEF DiscardFailedUpper, storeVars
    <3> QED
      BY <1>1, <1>5, <1>9, <1>10, <2>5, <3>1, DiscardFailedUpperBecomes DEF Drops
  <2>6. ASSUME NEW r \in Runs, NEW waiter \in Waiters, FailStartup(r, waiter)
        PROVE  StartsArePrepared'
    <3>1. UNCHANGED runs
      BY <2>6 DEF FailStartup, storeVars
    <3> QED
      BY <1>1, <1>5, <1>9, <1>10, <2>6, <3>1, FailStartupBecomes
  <2> QED
    BY <1>11, <2>1, <2>2, <2>3, <2>4, <2>5, <2>6 DEF RequestStep
<1>12. CASE Background
  <2>1. UNCHANGED runs
    BY <1>12 DEF Background, SeeExit, FinalizeExited, DiscardFailedUpper, EndReadinessWait,
       storeVars
  <2>2. CASE FinalizeExited
    BY <1>1, <1>5, <1>9, <1>10, <2>1, <2>2, FinalizeExitedBecomes
  <2>3. ASSUME NEW r \in Runs, DiscardFailedUpper(r, "DISCARD_FAILED_START")
        PROVE  StartsArePrepared'
    BY <1>1, <1>5, <1>9, <1>10, <2>1, <2>3, DiscardFailedUpperBecomes DEF Drops
  <2>4. ASSUME NEW r \in Runs, SeeExit(r) \/ \E waiter \in Waiters : EndReadinessWait(r, waiter)
        PROVE  StartsArePrepared'
    BY <1>9, <2>1, <2>4 DEF SeeExit, EndReadinessWait
  <2> QED
    BY <1>12, <2>2, <2>3, <2>4 DEF Background
<1> QED
  BY <1>7, <1>8, <1>11, <1>12 DEF ManagerStep

\* While the daemon recovers, nobody prepares or starts a Run, and its
\* directory is only ever failed.
LEMMA RecoveryKeepsPrepared ==
    ASSUME CallsInvariant, Recovery, CallsAreWellFormed', PhasesServeCalls'
    PROVE  StartsArePrepared'
<1>1. /\ LifecycleTypeOK /\ CallsAreWellFormed /\ PhasesServeCalls /\ TaskIsPrepared
      /\ DirectoriesAreKnown
  BY PreparedByParts DEF CallsInvariant
<1>2. daemon \notin {"up"} \cup Closing /\ UNCHANGED tasks
  BY DEF Recovery, StartDaemon, NextPhase, RecoveryFails, RecoverInterrupted, RecoverControl,
     RecoverStopped, RecoverStoppedControl, RecoverIntent, Closing, managerVars
<1>3. \A s \in Slots \ {"recovery"} : handlers'[s] = NoHandler
  <2>1. handlers["manager"] = NoHandler /\ handlers["orphan"] = NoHandler
        /\ tasks["shutdown"] = NoTask
    BY <1>1, <1>2 DEF PhasesServeCalls, Closing
  <2>2. handlers["shutdown"] = NoHandler
    BY <1>1, <2>1, NoCallPending, NoneIsNoStep DEF NoTask, TaskSteps, Drivers
  <2>3. \A s \in Slots \ {"recovery"} : handlers'[s] = handlers[s]
    BY <1>1 DEF Recovery, StartDaemon, NextPhase, RecoveryFails, RecoverInterrupted,
       RecoverControl, RecoverStopped, RecoverStoppedControl, RecoverIntent,
       callVars, LifecycleTypeOK
  <2> QED
    BY <2>1, <2>2, <2>3 DEF Slots, Drivers
<1>4. \A s \in Slots : CallIsPrepared(s)'
  BY <1>3, NoneIsNoStep
     DEF CallIsPrepared, CallsAreWellFormed, At, NoHandler, TaskSteps, Calls
<1>5. \A r \in Runs : local'[r] = local[r] \/ local'[r] = "FAILED"
  BY <1>1 DEF Recovery, StartDaemon, NextPhase, RecoveryFails, RecoverInterrupted,
     RecoverControl, RecoverStopped, RecoverStoppedControl, RecoverIntent, runtimeVars, SetLocal,
     LifecycleTypeOK
<1>6. ASSUME NEW r \in Runs, local[r] \in {"PREPARING", "PREPARED"}
      PROVE  runs'[r].state = Control(r)
  <2>1. daemon \notin {"control", "host", "listening"}
    BY <1>1, <1>6 DEF DirectoriesAreKnown, Interrupted, Recovering
  <2>2. UNCHANGED runs
    BY <2>1 DEF Recovery, StartDaemon, NextPhase, RecoveryFails, RecoverInterrupted,
       RecoverControl, RecoverStopped, RecoverStoppedControl, RecoverIntent, storeVars
  <2> QED
    BY <2>2
<1>7. TaskIsPrepared'
  <2>1. tasks["manager"].pc \in {"prepareBwa", "start"} => tasks["manager"].run \in Runs
    BY <1>1, TaskIsKnown DEF TaskSteps, Calls, Drivers
  <2> QED
    BY <1>1, <1>2, <1>5, <1>6, <2>1 DEF TaskIsPrepared, IsFresh
<1> QED
  BY <1>4, <1>7, PreparedByParts

\* A closing or crashing daemon leaves no call behind, and no directory fresher
\* than it was.
LEMMA DaemonKeepsPrepared ==
    ASSUME CallsInvariant,
           \/ CloseDaemon \/ SaveInstances \/ ExitDaemon
           \/ \E r \in Runs : ContainerExits(r)
           \/ CrashDaemon \/ CrashManager
    PROVE  StartsArePrepared'
<1>1. /\ LifecycleTypeOK /\ CallsAreWellFormed /\ PhasesServeCalls /\ TaskIsPrepared
      /\ \A s \in Slots : CallIsPrepared(s)
  BY PreparedByParts DEF CallsInvariant
<1>2. Slots = {"manager", "shutdown", "orphan", "recovery"} /\ Drivers = {"manager", "shutdown"}
  BY DEF Slots, Drivers
<1>3. UNCHANGED runs
  BY DEF CloseDaemon, SaveInstances, ExitDaemon, ContainerExits, CrashDaemon, CrashManager,
     storeVars
<1>4. \A r \in Runs : local'[r] = local[r] \/ local'[r] \in {"FAILED", "CORRUPT"}
  BY DEF CloseDaemon, SaveInstances, ExitDaemon, ContainerExits, CrashDaemon, CrashManager,
     runtimeVars
<1>5. tasks'["manager"] = tasks["manager"] \/ tasks'["manager"] = NoTask
  <2>1. SaveInstances => tasks'["manager"] = tasks["manager"]
    BY <1>1, <1>2, SaveInstancesBecomes DEF TaskBecomes
  <2> QED
    BY <1>1, <1>2, <2>1 DEF CloseDaemon, ExitDaemon, ContainerExits, CrashDaemon, CrashManager,
       managerVars, LifecycleTypeOK
<1>6. TaskIsPrepared'
  <2>1. tasks["manager"].pc \in {"prepareBwa", "start"} => tasks["manager"].run \in Runs
    BY <1>1, <1>2, TaskIsKnown DEF TaskSteps, Calls
  <2>2. NoTask.pc \notin {"prepareBwa", "start"}
    BY NoneIsNoStep DEF NoTask, TaskSteps, Calls
  <2> QED
    BY <1>1, <1>3, <1>4, <1>5, <2>1, <2>2 DEF TaskIsPrepared, IsFresh
<1>7. NoHandler.op \notin {"prepareBwa", "start"}
  BY NoneIsNoStep DEF NoHandler, TaskSteps, Calls
<1>8. CASE UNCHANGED <<local, handlers>>
  BY <1>3, <1>6, <1>8, RunsMoveKeepsPrepared
<1>9. CASE ExitDaemon
  <2>1. UNCHANGED handlers /\ \A s \in Slots \ {"recovery"} : handlers[s] = NoHandler
    <3>1. daemon = "saving" /\ tasks["shutdown"] = NoTask /\ UNCHANGED handlers
      BY <1>9 DEF ExitDaemon, Idle, callVars
    <3>2. handlers["shutdown"] = NoHandler
      BY <1>1, <1>2, <3>1, NoCallPending, NoneIsNoStep DEF NoTask, TaskSteps
    <3> QED
      BY <1>1, <1>2, <3>1, <3>2 DEF PhasesServeCalls
  <2>2. handlers["recovery"].op \notin {"prepareBwa", "start"}
    BY <1>1, <1>2, <1>7, NoneIsNoStep DEF CallsAreWellFormed, TaskSteps, Calls
  <2>3. \A s \in Slots : CallIsPrepared(s)'
    BY <1>7, <2>1, <2>2 DEF CallIsPrepared, At
  <2> QED
    BY <1>6, <2>3, PreparedByParts
<1>10. CASE CrashDaemon
  <2>1. \A s \in Slots : handlers'[s] = NoHandler
    BY <1>10 DEF CrashDaemon
  <2>2. \A s \in Slots : CallIsPrepared(s)'
    BY <1>7, <2>1 DEF CallIsPrepared, At
  <2> QED
    BY <1>6, <2>2, PreparedByParts
<1>11. CASE CrashManager
  <2>1. /\ UNCHANGED local /\ handlers'["manager"] = NoHandler
        /\ handlers'["shutdown"] = handlers["shutdown"]
        /\ handlers'["recovery"] = handlers["recovery"]
        /\ handlers'["orphan"] \in {handlers["orphan"], handlers["manager"]}
    BY <1>1, <1>2, <1>11 DEF CrashManager, LifecycleTypeOK, runtimeVars
  <2>2. CallIsPrepared("manager")'
    BY <1>7, <2>1 DEF CallIsPrepared, At
  <2>3. CallIsPrepared("shutdown")' /\ CallIsPrepared("recovery")'
    BY <1>1, <1>2, <1>3, <2>1 DEF CallIsPrepared, At, IsFresh
  <2>4. CallIsPrepared("orphan")'
    BY <1>1, <1>2, <1>3, <2>1 DEF CallIsPrepared, At, IsFresh
  <2> QED
    BY <1>2, <1>6, <2>2, <2>3, <2>4, PreparedByParts
<1> QED
  BY <1>8, <1>9, <1>10, <1>11
     DEF CloseDaemon, SaveInstances, ContainerExits, runtimeVars, callVars

\* Every step keeps StartsArePrepared.
LEMMA StepPrepared ==
    ASSUME CallsInvariant, [LifecycleNext]_lifecycleVars
    PROVE  StartsArePrepared'
<1>1. CASE LifecycleNext
  BY <1>1, StepTypes, HandlerStepKeepsPrepared, TaskStepKeepsPrepared, ManagerKeepsPrepared,
     RecoveryKeepsPrepared, DaemonKeepsPrepared DEF LifecycleNext
<1>2. CASE UNCHANGED lifecycleVars
  <2>1. StartsArePrepared /\ UNCHANGED <<runs, local, handlers, tasks>>
    BY <1>2 DEF CallsInvariant, lifecycleVars, storeVars, runtimeVars, callVars, managerVars
  <2> QED
    BY <2>1 DEF StartsArePrepared, At
<1> QED
  BY <1>1, <1>2

-----------------------------------------------------------------------------
\* Commits: the row is COMMITTING for one scan, and COMMITTED before a save drops
\* the directory.

\* The second half of DropsOnlyCommitted, for one driver.
SaverIsDone(d) ==
    \/ replies[d] = "ok" /\ tasks[d].pc = "commit"
    \/ tasks[d].pc = "destroy" /\ tasks[d].op \in StopReasons \cup {"PUBLISH"}
    => Control(tasks[d].run) = "COMMITTED"

\* The first half, for one call.
ScanIsAlone(s) ==
    At(s, "commit", "publish") =>
        /\ Control(handlers[s].run) = "COMMITTING"
        /\ \A q \in Slots \ {s} : At(q, "commit", "publish") => handlers[q].run # handlers[s].run

\* DropsOnlyCommitted, one call and one driver at a time.
LEMMA CommitsByParts ==
    /\ DropsOnlyCommitted <=> (\A s \in Slots : ScanIsAlone(s)) /\ (\A d \in Drivers : SaverIsDone(d))
    /\ DropsOnlyCommitted' <=> (\A s \in Slots : ScanIsAlone(s)') /\ (\A d \in Drivers : SaverIsDone(d)')
  BY DEF DropsOnlyCommitted, ScanIsAlone, SaverIsDone, At

\* A step of a call keeps it: nobody else moves a Run that is being committed.
LEMMA HandlerStepKeepsCommits ==
    ASSUME CallsInvariant, NEW s \in Slots, HandlerStep(s), RunsAdvance
    PROVE  DropsOnlyCommitted'
<1>1. /\ LifecycleTypeOK /\ CallsAreWellFormed
      /\ (\A q \in Slots : ScanIsAlone(q)) /\ (\A d \in Drivers : SaverIsDone(d))
  BY CommitsByParts DEF CallsInvariant
<1> DEFINE r == handlers[s].run
<1>2. /\ r \in Runs /\ handlers[s] # NoHandler
      /\ \A q \in Slots \ {s} : handlers'[q] = handlers[q]
      /\ UNCHANGED tasks
      /\ \/ handlers'[s].run = r /\ handlers'[s].op = handlers[s].op /\ UNCHANGED replies
         \/ handlers'[s] = NoHandler
  BY <1>1, HandlerStepMoves
<1>3. NoHandler.op # "commit"
  BY NoneIsNoStep DEF NoHandler, TaskSteps, Calls
<1>4. ASSUME NEW q \in Slots, At(q, "commit", "publish"), q # s
      PROVE  runs'[handlers[q].run].state = "COMMITTING"
  <2>1. Control(handlers[q].run) = "COMMITTING" /\ handlers[q].run \in Runs
    BY <1>1, <1>4, CallIsKnown DEF ScanIsAlone, At, HandlerSteps
  <2>2. CASE handlers[q].run # r
    BY <2>1, <2>2, HandlerStepMovesItsRun
  <2>3. CASE handlers[q].run = r
    <3>1. ~At(s, "commit", "publish")
      BY <1>1, <1>4, <2>3 DEF ScanIsAlone
    <3>2. ~Publish(s) /\ ~FailCommit(s)
      BY <3>1 DEF Publish, FailCommit
    <3>3. ~RecordRunning(s) /\ ~BeginCommit(s)
      BY <2>1, <2>3, RecordRunningMoves, BeginCommitMoves
    <3>4. RecordStopped(s) => runs'[r].state = Control(r)
      BY <1>2, <2>1, <2>3, RecordStoppedMoves DEF RunsStay, RunIs
    <3> QED
      BY <2>1, <2>3, <3>2, <3>3, <3>4
         DEF HandlerStep, Refuse, PrepareDirectory, PrepareMounts, StartContainer, MarkRunning,
             StopContainer, RemoveContainer, DockerFails, MarkStopped, ReopenFailed, FailUpper,
             BeginDestroy, RemoveDirectory, RemovalFails, storeVars
  <2> QED
    BY <2>2, <2>3
<1>5. At(s, "commit", "publish")' => BeginCommit(s)
  <2>1. SUFFICES ASSUME At(s, "commit", "publish")'
                 PROVE  BeginCommit(s)
    OBVIOUS
  <2>2. handlers'[s].op = "commit" /\ handlers'[s].pc = "publish" /\ handlers[s].op = "commit"
    BY <1>2, <1>3, <2>1 DEF At
  <2>3. ~Reply(s, "ok") /\ ~Reply(s, "error")
    BY <1>1, <1>3, <2>2 DEF Reply, LifecycleTypeOK
  <2>4. \A pc : Goto(s, pc) => pc = "publish"
    BY <1>1, <2>2 DEF Goto, LifecycleTypeOK
  <2> QED
    BY <2>2, <2>3, <2>4
       DEF HandlerStep, Refuse, PrepareDirectory, PrepareMounts, StartContainer, MarkRunning,
           RecordRunning, StopContainer, RemoveContainer, DockerFails, MarkStopped,
           RecordStopped, ReopenFailed, Publish, FailCommit, FailUpper, BeginDestroy,
           RemoveDirectory, RemovalFails, At, Stops
<1>6. ASSUME BeginCommit(s)
      PROVE  /\ runs'[r].state = "COMMITTING"
             /\ \A q \in Slots \ {s} : At(q, "commit", "publish") => handlers[q].run # r
  BY <1>1, <1>2, <1>6, BeginCommitMoves DEF ScanIsAlone, RunMoves, RunIs
<1>7. \A q \in Slots : ScanIsAlone(q)'
  <2>1. ScanIsAlone(s)'
    BY <1>2, <1>3, <1>5, <1>6 DEF ScanIsAlone, At
  <2>2. ASSUME NEW q \in Slots \ {s}
        PROVE  ScanIsAlone(q)'
    BY <1>1, <1>2, <1>3, <1>4, <1>5, <1>6, <2>2 DEF ScanIsAlone, At
  <2> QED
    BY <2>1, <2>2
<1>8. ASSUME NEW d \in Drivers
      PROVE  SaverIsDone(d)'
  <2>1. SUFFICES ASSUME \/ replies'[d] = "ok" /\ tasks[d].pc = "commit"
                        \/ tasks[d].pc = "destroy" /\ tasks[d].op \in StopReasons \cup {"PUBLISH"}
                 PROVE  runs'[tasks[d].run].state = "COMMITTED"
    BY <1>2 DEF SaverIsDone
  <2>2. tasks[d].run \in Runs
    BY <1>1, <2>1, TaskIsKnown DEF TaskSteps, Calls
  <2>3. CASE Control(tasks[d].run) = "COMMITTED"
    BY <2>2, <2>3 DEF RunsAdvance
  <2>4. CASE Control(tasks[d].run) # "COMMITTED"
    <3>1. replies'[d] = "ok" /\ tasks[d].pc = "commit" /\ replies[d] # "ok"
      BY <1>1, <2>1, <2>4 DEF SaverIsDone
    <3>2. d = s /\ handlers[s].op = "commit" /\ r = tasks[d].run
      BY <1>1, <1>2, <3>1, HandlerStepMoves DEF CallsAreWellFormed
    <3>3. ~Reply(s, "error") /\ ~UNCHANGED replies
      BY <3>1, <3>2 DEF Reply
    <3>4. Publish(s)
      BY <1>1, <3>2, <3>3, HandlerStepMoves
         DEF HandlerStep, Refuse, PrepareDirectory, PrepareMounts, StartContainer, MarkRunning,
             RecordRunning, StopContainer, RemoveContainer, DockerFails, MarkStopped,
             RecordStopped, ReopenFailed, BeginCommit, FailCommit, FailUpper, BeginDestroy,
             RemoveDirectory, RemovalFails, At, Stops, Goto, IsCallStep
    <3> QED
      BY <1>2, <3>2, <3>4, PublishMoves DEF RunMoves, RunIs
  <2> QED
    BY <2>3, <2>4
<1> QED
  BY <1>7, <1>8, CommitsByParts

\* An operation that stays where it is keeps its part.
LEMMA SaverStays ==
    ASSUME CallsInvariant, RunsAdvance, NEW d \in Drivers, tasks'[d] = tasks[d],
           replies'[d] = "ok" => replies[d] = "ok"
    PROVE  SaverIsDone(d)'
<1>1. LifecycleTypeOK /\ CallsAreWellFormed /\ SaverIsDone(d)
  BY CommitsByParts DEF CallsInvariant
<1>2. tasks[d].pc \in {"commit", "destroy"} => tasks[d].run \in Runs
  BY <1>1, TaskIsKnown DEF TaskSteps, Calls
<1> QED
  BY <1>1, <1>2 DEF SaverIsDone, RunsAdvance

\* A step that leaves the calls and the COMMITTING Runs alone keeps the scans' part.
LEMMA MovingKeepsCommits ==
    ASSUME CallsInvariant, UNCHANGED handlers, \A d \in Drivers : SaverIsDone(d)',
           \A r \in Runs : Control(r) = "COMMITTING" => runs'[r].state = "COMMITTING"
    PROVE  DropsOnlyCommitted'
<1>1. LifecycleTypeOK /\ CallsAreWellFormed /\ \A s \in Slots : ScanIsAlone(s)
  BY CommitsByParts DEF CallsInvariant
<1>2. ASSUME NEW s \in Slots
      PROVE  ScanIsAlone(s)'
  <2>1. At(s, "commit", "publish") => handlers[s].run \in Runs
    BY <1>1, CallIsKnown DEF At, HandlerSteps
  <2> QED
    BY <1>1, <2>1 DEF ScanIsAlone, At
<1> QED
  BY <1>2, CommitsByParts

\* An operation that saves goes on to its destroy only after the answer of its commit.
LEMMA TaskStepKeepsCommits ==
    ASSUME CallsInvariant, RunsAdvance, NEW d \in Drivers, TaskStep(d)
    PROVE  DropsOnlyCommitted'
<1>1. /\ LifecycleTypeOK /\ CallsAreWellFormed
      /\ (\A s \in Slots : ScanIsAlone(s)) /\ (\A e \in Drivers : SaverIsDone(e))
  BY CommitsByParts DEF CallsInvariant
<1>2. CASE Call(d)
  <2>1. /\ UNCHANGED <<runs, tasks>>
        /\ \A q \in Slots \ {d} : handlers'[q] = handlers[q]
        /\ handlers'[d] = handlers[d] \/ handlers'[d].pc = "begin"
        /\ \A e \in Drivers : replies'[e] = "ok" => replies[e] = "ok"
    BY <1>1, <1>2 DEF Call, storeVars, managerVars, LifecycleTypeOK, Slots
  <2>2. ASSUME NEW q \in Slots
        PROVE  At(q, "commit", "publish")' => At(q, "commit", "publish") /\ handlers'[q] = handlers[q]
    BY <2>1 DEF At
  <2>3. \A q \in Slots : ScanIsAlone(q)'
    BY <1>1, <2>1, <2>2 DEF ScanIsAlone
  <2>4. \A e \in Drivers : SaverIsDone(e)'
    BY <2>1, SaverStays
  <2> QED
    BY <2>3, <2>4, CommitsByParts
<1>3. CASE Answered(d)
  <2>1. UNCHANGED <<runs, handlers>> /\ replies' = [replies EXCEPT ![d] = "none"]
    BY <1>3 DEF Answered, storeVars
  <2>2. /\ replies[d] \in {"ok", "error"} /\ tasks[d].pc \in Calls
        /\ TaskBecomes(d, NoTask) \/ (NextStep(d) \in TaskSteps /\ GoesOn(d, NextStep(d)))
    BY <1>1, <1>3, AnsweredBecomes
  <2>3. NextStep(d) = "destroy" => replies[d] = "ok" /\ tasks[d].pc = "commit"
    BY <2>2 DEF NextStep, AfterOk, AfterError
  <2>4. replies'[d] = "none" /\ \A e \in Drivers \ {d} : replies'[e] = replies[e]
    BY <1>1, <2>1 DEF LifecycleTypeOK
  <2>5. SaverIsDone(d)'
    <3>1. CASE TaskBecomes(d, NoTask)
      BY <2>4, <3>1, NoneIsNoStep DEF TaskBecomes, SaverIsDone, NoTask, TaskSteps, Calls
    <3>2. CASE GoesOn(d, NextStep(d))
      BY <1>1, <2>1, <2>3, <2>4, <3>2 DEF GoesOn, TaskBecomes, SaverIsDone
    <3> QED
      BY <2>2, <3>1, <3>2
  <2>6. ASSUME NEW e \in Drivers \ {d}
        PROVE  SaverIsDone(e)'
    BY <2>2, <2>4, <2>6, SaverStays DEF TaskBecomes, GoesOn
  <2> QED
    BY <2>1, <2>5, <2>6, MovingKeepsCommits
<1>4. CASE FailRun(d) \/ RecordReason(d)
  <2>1. UNCHANGED <<handlers, replies>>
    BY <1>4 DEF FailRun, RecordReason, callVars
  <2>2. \A r \in Runs : Control(r) = "COMMITTING" => runs'[r].state = "COMMITTING"
    BY <1>4, FailRunMoves, RecordReasonMoves DEF RunsStay, RunMoves, RunIs
  <2>3. \/ TaskBecomes(d, NoTask)
        \/ \E pc \in {"intent", "intentKept", "stop"} : GoesOn(d, pc)
    BY <1>1, <1>4, FailRunBecomes, RecordReasonBecomes
  <2>4. SaverIsDone(d)'
    BY <2>3, NoneIsNoStep DEF TaskBecomes, GoesOn, SaverIsDone, NoTask, TaskSteps, Calls
  <2>5. ASSUME NEW e \in Drivers \ {d}
        PROVE  SaverIsDone(e)'
    BY <2>1, <2>3, <2>5, SaverStays DEF TaskBecomes, GoesOn
  <2> QED
    BY <2>1, <2>2, <2>4, <2>5, MovingKeepsCommits
<1> QED
  BY <1>2, <1>3, <1>4 DEF TaskStep

\* No request begins with a commit, or with a destroy that saves.
LEMMA ManagerKeepsCommits ==
    ASSUME CallsInvariant, RunsAdvance, ManagerStep \/ RequestStep \/ Background
    PROVE  DropsOnlyCommitted'
<1>1. /\ LifecycleTypeOK /\ CallsAreWellFormed /\ TypeOK
      /\ InductiveInvariant /\ RunsAreTheInstances
  BY DEF CallsInvariant, InductiveInvariant
<1>2. UNCHANGED <<handlers, replies>> /\ Drivers = {"manager", "shutdown"}
  BY DEF ManagerStep, SetIntent, DiscardRow, Restart, RequestStep, Start, StartRefused, UserStop,
     OpenInstance, PublishFailedUpper, DiscardFailedUpper, FailStartup, Background, SeeExit,
     FinalizeExited, EndReadinessWait, callVars, Drivers
<1>3. \A r \in Runs : Control(r) = "COMMITTING" => runs'[r].state = "COMMITTING"
  <2>1. CASE UNCHANGED storeVars
    BY <2>1 DEF storeVars
  <2>2. CASE SetIntent \/ DiscardRow
    BY <2>2, SetIntentMoves, DiscardRowMoves DEF RunsStay, RunMoves, RunIs
  <2>3. ASSUME NEW r \in Runs, CreateBwaWorkspaceRun(r, TheInstance)
        PROVE  \A q \in Runs : Control(q) = "COMMITTING" => runs'[q].state = "COMMITTING"
    BY <1>1, <2>3, CreateRunMoves, NamesAreDistinct DEF RunState
  <2>4. ASSUME NEW r \in Runs, ReopenFailedWorkspaceRun(r)
        PROVE  \A q \in Runs : Control(q) = "COMMITTING" => runs'[q].state = "COMMITTING"
    BY <1>1, <2>4, ReopenMoves DEF RunMoves, RunIs
  <2> QED
    BY <2>1, <2>2, <2>3, <2>4
       DEF ManagerStep, Restart, RequestStep, Start, StartRefused, UserStop,
     OpenInstance, PublishFailedUpper, DiscardFailedUpper, FailStartup, Background, SeeExit,
     FinalizeExited, EndReadinessWait, CreateRun
<1> DEFINE NotSaving(task) == /\ task.pc # "commit"
                              /\ task.pc = "destroy" => task.op \notin StopReasons \cup {"PUBLISH"}
<1>4. /\ tasks'["shutdown"] = tasks["shutdown"]
      /\ tasks'["manager"] = tasks["manager"] \/ NotSaving(tasks'["manager"])
  <2>1. ASSUME TaskBecomes("manager", NoTask)
        PROVE  tasks'["shutdown"] = tasks["shutdown"] /\ NotSaving(tasks'["manager"])
    BY <1>2, <2>1, NoneIsNoStep DEF TaskBecomes, NoTask, TaskSteps, Calls
  <2>2. ASSUME NEW pc \in {"finalizeExited", "reason", "discard"}, GoesOn("manager", pc)
        PROVE  tasks'["shutdown"] = tasks["shutdown"] /\ NotSaving(tasks'["manager"])
    BY <1>2, <2>2 DEF TaskBecomes, GoesOn
  <2>3. ASSUME NEW op, NEW r, NEW pc, BecomesNew(op, r, pc),
               \/ pc \in {"prepareBwa", "intent", "reason", "reopenFailed"}
               \/ pc = "destroy" /\ op \in Waiters \cup Drops
        PROVE  tasks'["shutdown"] = tasks["shutdown"] /\ NotSaving(tasks'["manager"])
    BY <1>2, <2>3, LifecycleConstants DEF TaskBecomes, BecomesNew, Waiters, Drops
  <2>4. CASE ManagerStep
    BY <1>1, <2>1, <2>2, <2>3, <2>4, RestartBecomes, SetIntentBecomes, DiscardRowBecomes
       DEF ManagerStep, AfterIntent
  <2>5. CASE RequestStep
    <3>1. ASSUME NEW r \in Runs, StartRefused(r) \/ OpenInstance(r)
          PROVE  UNCHANGED tasks
      BY <3>1 DEF StartRefused, OpenInstance
    <3> QED
      BY <1>1, <2>3, <2>5, <3>1, StartBecomes, UserStopBecomes, PublishFailedUpperBecomes,
         DiscardFailedUpperBecomes, FailStartupBecomes DEF RequestStep, Drops
  <2>6. CASE Background
    <3>1. ASSUME NEW r \in Runs, SeeExit(r) \/ \E waiter \in Waiters : EndReadinessWait(r, waiter)
          PROVE  UNCHANGED tasks
      BY <3>1 DEF SeeExit, EndReadinessWait
    <3> QED
      BY <1>1, <2>3, <2>6, <3>1, FinalizeExitedBecomes, DiscardFailedUpperBecomes
         DEF Background, Drops
  <2> QED
    BY <2>4, <2>5, <2>6
<1>5. SaverIsDone("shutdown")'
  BY <1>2, <1>4, SaverStays
<1>6. SaverIsDone("manager")'
  BY <1>2, <1>4, SaverStays DEF SaverIsDone
<1> QED
  BY <1>2, <1>3, <1>5, <1>6, MovingKeepsCommits

\* Nor does anything the daemon does on its own, or a crash.
LEMMA DaemonKeepsCommits ==
    ASSUME CallsInvariant, RunsAdvance, CallsAreWellFormed',
           \/ Recovery \/ CloseDaemon \/ SaveInstances \/ ExitDaemon
           \/ \E r \in Runs : ContainerExits(r)
           \/ CrashDaemon \/ CrashManager
    PROVE  DropsOnlyCommitted'
<1>1. /\ LifecycleTypeOK /\ CallsAreWellFormed /\ PhasesServeCalls
      /\ \A s \in Slots : ScanIsAlone(s)
  BY CommitsByParts DEF CallsInvariant
<1>2. Slots = {"manager", "shutdown", "orphan", "recovery"} /\ Drivers = {"manager", "shutdown"}
  BY DEF Slots, Drivers
<1>3. ~Recovery => UNCHANGED runs
  BY DEF CloseDaemon, SaveInstances, ExitDaemon, ContainerExits, CrashDaemon, CrashManager,
     storeVars
<1>4. NoHandler.op # "commit" /\ NoTask.pc \notin {"commit", "destroy"}
  BY NoneIsNoStep DEF NoHandler, NoTask, TaskSteps, Calls
<1>5. \A d \in Drivers : SaverIsDone(d)'
  <2>1. ASSUME NEW d \in Drivers
        PROVE  /\ replies'[d] = "ok" => replies[d] = "ok"
               /\ \/ tasks'[d] = tasks[d] \/ tasks'[d].pc \notin {"commit", "destroy"}
    <3>1. CASE SaveInstances
      <4>1. UNCHANGED replies
        BY <3>1 DEF SaveInstances, callVars
      <4>2. ASSUME NEW r \in Runs,
                   TaskBecomes("shutdown", [op |-> "HOST_SHUTDOWN", run |-> r, pc |-> "reason"])
            PROVE  tasks'["manager"] = tasks["manager"] /\ tasks'["shutdown"].pc = "reason"
        BY <1>2, <4>2 DEF TaskBecomes
      <4> QED
        BY <1>1, <1>2, <3>1, <4>1, <4>2, SaveInstancesBecomes
    <3>2. CASE CrashDaemon
      BY <1>1, <1>2, <1>4, <3>2 DEF CrashDaemon, LifecycleTypeOK
    <3>3. CASE CrashManager
      BY <1>1, <1>2, <1>4, <3>3 DEF CrashManager, LifecycleTypeOK
    <3>4. CASE UNCHANGED <<tasks, replies>>
      BY <3>4
    <3> QED
      BY <3>1, <3>2, <3>3, <3>4
         DEF CloseDaemon, ExitDaemon, ContainerExits, Recovery, StartDaemon, NextPhase,
             RecoveryFails, RecoverInterrupted, RecoverControl, RecoverStopped,
             RecoverStoppedControl, RecoverIntent, callVars, managerVars
  <2> QED
    BY <2>1, SaverStays DEF SaverIsDone
<1>6. CASE Recovery
  <2>1. handlers["manager"] = NoHandler /\ handlers["orphan"] = NoHandler
        /\ tasks["shutdown"] = NoTask
    BY <1>1, <1>6 DEF PhasesServeCalls, Recovery, StartDaemon, NextPhase, RecoveryFails,
       RecoverInterrupted, RecoverControl, RecoverStopped, RecoverStoppedControl, RecoverIntent
  <2>2. handlers["shutdown"] = NoHandler
    BY <1>1, <1>2, <2>1, NoCallPending, NoneIsNoStep DEF NoTask, TaskSteps
  <2>3. \A s \in Slots \ {"recovery"} : handlers'[s] = handlers[s]
    BY <1>1, <1>6 DEF Recovery, StartDaemon, NextPhase, RecoveryFails, RecoverInterrupted,
       RecoverControl, RecoverStopped, RecoverStoppedControl, RecoverIntent,
       callVars, LifecycleTypeOK
  <2>4. \A s \in Slots : handlers'[s].op # "commit"
    BY <1>2, <1>4, <2>1, <2>2, <2>3, NoneIsNoStep DEF CallsAreWellFormed, NoHandler, TaskSteps,
       Calls
  <2>5. \A s \in Slots : ScanIsAlone(s)'
    BY <2>4 DEF ScanIsAlone, At
  <2> QED
    BY <1>5, <2>5, CommitsByParts
<1>7. CASE CrashDaemon
  <2>1. \A s \in Slots : handlers'[s].op # "commit"
    BY <1>4, <1>7 DEF CrashDaemon
  <2>2. \A s \in Slots : ScanIsAlone(s)'
    BY <2>1 DEF ScanIsAlone, At
  <2> QED
    BY <1>5, <2>2, CommitsByParts
<1>8. CASE CrashManager
  <2>1. /\ handlers'["manager"] = NoHandler /\ UNCHANGED runs
        /\ handlers'["shutdown"] = handlers["shutdown"]
        /\ handlers'["recovery"] = handlers["recovery"]
        /\ handlers'["orphan"] = IF handlers["orphan"] = NoHandler THEN handlers["manager"]
                                                                   ELSE handlers["orphan"]
    BY <1>1, <1>2, <1>8 DEF CrashManager, LifecycleTypeOK, storeVars
  <2>2. \A s \in Slots : ScanIsAlone(s)'
    BY <1>1, <1>2, <1>4, <2>1 DEF ScanIsAlone, At
  <2> QED
    BY <1>5, <2>2, CommitsByParts
<1>9. CASE ~Recovery /\ UNCHANGED handlers
  BY <1>3, <1>5, <1>9, MovingKeepsCommits
<1> QED
  BY <1>6, <1>7, <1>8, <1>9 DEF CloseDaemon, SaveInstances, ExitDaemon, ContainerExits, callVars

\* Every step keeps DropsOnlyCommitted.
LEMMA StepCommits ==
    ASSUME CallsInvariant, [LifecycleNext]_lifecycleVars
    PROVE  DropsOnlyCommitted'
<1>1. RunsAdvance /\ CallsAreWellFormed'
  BY StepsAdvance, StepTypes
<1>2. CASE LifecycleNext
  BY <1>1, <1>2, HandlerStepKeepsCommits, TaskStepKeepsCommits, ManagerKeepsCommits,
     DaemonKeepsCommits DEF LifecycleNext
<1>3. CASE UNCHANGED lifecycleVars
  <2>1. DropsOnlyCommitted /\ UNCHANGED <<runs, handlers, tasks, replies>>
    BY <1>3 DEF CallsInvariant, lifecycleVars, storeVars, callVars, managerVars
  <2> QED
    BY <2>1 DEF DropsOnlyCommitted, At
<1> QED
  BY <1>2, <1>3

-----------------------------------------------------------------------------
\* The directories: what the daemon has in its memory, and what recovery leaves.

\* Calls run in the phases that serve them, one driver's at a time.
LEMMA CallsRunInPhases ==
    ASSUME CallsInvariant, NEW s \in Slots \ {"recovery"}, handlers[s] # NoHandler
    PROVE  /\ daemon \in {"up"} \cup Closing
           /\ s = "shutdown" <=> daemon = "saving"
           /\ crashes = 0 => \A q \in Slots \ {s} : handlers[q] = NoHandler
<1>1. LifecycleTypeOK /\ CallsAreWellFormed /\ PhasesServeCalls
  BY DEF CallsInvariant
<1>2. Slots = {"manager", "shutdown", "orphan", "recovery"} /\ Drivers = {"manager", "shutdown"}
  BY DEF Slots, Drivers
<1>3. daemon # "saving" => handlers["shutdown"] = NoHandler
  <2>1. tasks["shutdown"] = NoTask => tasks["shutdown"].pc \notin Calls
    BY NoneIsNoStep DEF NoTask, TaskSteps
  <2> QED
    BY <1>1, <1>2, <2>1, NoCallPending DEF PhasesServeCalls
<1> QED
  BY <1>1, <1>2, <1>3 DEF PhasesServeCalls, Closing

\* A directory in use is one in launches; a scan is of a stopped one.
LEMMA HandlerStepKeepsDirectories ==
    ASSUME CallsInvariant, NEW s \in Slots, HandlerStep(s)
    PROVE  DirectoriesAreKnown'
<1>1. /\ LifecycleTypeOK /\ CallsAreWellFormed /\ PhasesServeCalls /\ StartsArePrepared
      /\ DirectoriesAreKnown
  BY DEF CallsInvariant
<1> DEFINE r == handlers[s].run
<1>2. /\ s # "recovery" /\ handlers[s] # NoHandler /\ r \in Runs
      /\ IsCallStep(handlers[s].op, handlers[s].pc)
      /\ \A q \in Slots \ {s} : handlers'[q] = handlers[q]
      /\ UNCHANGED <<daemon, crashes>>
      /\ \/ handlers'[s].run = r /\ handlers'[s].op = handlers[s].op
         \/ handlers'[s] = NoHandler
  BY <1>1, HandlerStepMoves
<1>3. daemon \in {"up"} \cup Closing
      /\ (crashes = 0 => \A q \in Slots \ {s} : handlers[q] = NoHandler)
  BY <1>2, CallsRunInPhases
<1>4. local[r] \in Interrupted => r \in launches
  BY <1>1, <1>2, <1>3 DEF DirectoriesAreKnown
<1>5. local'[r] \in Interrupted => r \in launches'
  <2>1. CASE PrepareDirectory(s)
    BY <2>1 DEF PrepareDirectory
  <2>2. CASE PrepareMounts(s)
    <3>1. local[r] = "PREPARING"
      BY <1>1, <2>2 DEF PrepareMounts, StartsArePrepared
    <3> QED
      BY <1>1, <1>2, <1>4, <2>2, <3>1 DEF PrepareMounts, SetLocal, LifecycleTypeOK, Interrupted
  <2>3. CASE MarkRunning(s)
    <3>1. local[r] = "PREPARED"
      BY <1>1, <2>3 DEF MarkRunning, StartsArePrepared
    <3> QED
      BY <1>4, <2>3, <3>1 DEF MarkRunning, Interrupted
  <2>4. CASE ~(PrepareDirectory(s) \/ PrepareMounts(s) \/ MarkRunning(s))
    <3>1. local'[r] \in Interrupted => local'[r] = local[r]
      BY <1>1, <1>2, <2>4
         DEF HandlerStep, Refuse, StartContainer, RecordRunning, StopContainer, RemoveContainer,
             DockerFails, MarkStopped, RecordStopped, ReopenFailed, BeginCommit, Publish,
             FailCommit, FailUpper, BeginDestroy, RemoveDirectory, RemovalFails, SetLocal,
             MarkFailed,
             LifecycleTypeOK, runtimeVars, Interrupted
    <3>2. launches' # launches => local'[r] \notin Interrupted
      BY <1>1, <1>2, <2>4
         DEF HandlerStep, Refuse, StartContainer, RecordRunning, StopContainer, RemoveContainer,
             DockerFails, MarkStopped, RecordStopped, ReopenFailed, BeginCommit, Publish,
             FailCommit, FailUpper, BeginDestroy, RemoveDirectory, RemovalFails, SetLocal,
             MarkFailed,
             LifecycleTypeOK, runtimeVars, Interrupted
    <3> QED
      BY <1>4, <3>1, <3>2
  <2> QED
    BY <2>1, <2>2, <2>3, <2>4
<1>6. \A q \in Runs : local'[q] \in Interrupted => q \in launches'
  BY <1>1, <1>3, <1>5, HandlerStepIsLocal DEF DirectoriesAreKnown
<1>7. ASSUME crashes = 0, NEW q \in Slots, At(q, "commit", "publish")'
      PROVE  local'[handlers'[q].run] = "STOPPED"
  <2>1. NoHandler.op # "commit"
    BY NoneIsNoStep DEF NoHandler, TaskSteps, Calls
  <2>2. q = s /\ handlers'[s].run = r /\ handlers[s].op = "commit" /\ handlers'[s].pc = "publish"
    BY <1>2, <1>3, <1>7, <2>1 DEF At
  <2>3. ~Reply(s, "ok") /\ ~Reply(s, "error")
    BY <1>1, <1>7, <2>1, <2>2 DEF Reply, LifecycleTypeOK, At
  <2>4. \A pc : Goto(s, pc) => pc = "publish"
    BY <1>1, <2>2 DEF Goto, LifecycleTypeOK
  <2>5. BeginCommit(s)
    BY <2>2, <2>3, <2>4
       DEF HandlerStep, Refuse, PrepareDirectory, PrepareMounts, StartContainer, MarkRunning,
           RecordRunning, StopContainer, RemoveContainer, DockerFails, MarkStopped,
           RecordStopped, ReopenFailed, Publish, FailCommit, FailUpper, BeginDestroy,
           RemoveDirectory, RemovalFails, At, Stops
  <2>6. local'[r] = "STOPPED"
    BY <2>5 DEF BeginCommit, Accepts, runtimeVars
  <2> QED
    BY <2>2, <2>6
<1> QED
  BY <1>2, <1>3, <1>6, <1>7 DEF DirectoriesAreKnown, Closing, Recovering

\* The manager sees no directory.
LEMMA ManagerKeepsDirectories ==
    ASSUME CallsInvariant,
           \/ \E d \in Drivers : TaskStep(d)
           \/ ManagerStep \/ RequestStep \/ Background
    PROVE  DirectoriesAreKnown'
<1>1. LifecycleTypeOK /\ CallsAreWellFormed /\ DirectoriesAreKnown
  BY DEF CallsInvariant
<1>2. UNCHANGED <<local, launches, daemon, crashes>>
  BY DEF TaskStep, Call, Answered, FailRun, RecordReason,
     ManagerStep, SetIntent, DiscardRow, Restart, RequestStep, Start, StartRefused, UserStop,
     OpenInstance, PublishFailedUpper, DiscardFailedUpper, FailStartup, Background, SeeExit,
     FinalizeExited, EndReadinessWait, runtimeVars, daemonVars
<1>3. \A q \in Slots : handlers'[q] = handlers[q] \/ handlers'[q].pc = "begin"
  <2>1. ASSUME NEW d \in Drivers, Call(d)
        PROVE  \A q \in Slots : handlers'[q] = handlers[q] \/ handlers'[q].pc = "begin"
    BY <1>1, <2>1 DEF Call, LifecycleTypeOK, Slots
  <2> QED
    BY <2>1 DEF TaskStep, Answered, FailRun, RecordReason, ManagerStep, SetIntent, DiscardRow,
       Restart, RequestStep, Start, StartRefused, UserStop, OpenInstance, PublishFailedUpper,
       DiscardFailedUpper, FailStartup, Background, SeeExit, FinalizeExited, EndReadinessWait,
       callVars
<1>4. ASSUME NEW q \in Slots, At(q, "commit", "publish")'
      PROVE  At(q, "commit", "publish") /\ handlers'[q] = handlers[q]
  BY <1>3, <1>4 DEF At
<1> QED
  BY <1>1, <1>2, <1>4 DEF DirectoriesAreKnown

\* The first pass only ends when no directory is in use.
LEMMA NextPhaseKeepsDirectories ==
    ASSUME CallsInvariant, NextPhase
    PROVE  /\ daemon' \in {"up"} \cup Closing => daemon = "listening" /\ daemon' = "up"
           /\ daemon' \in {"control", "host", "listening", "up"}
           /\ \A r \in Runs : local[r] \notin Interrupted
BY DEF CallsInvariant, DirectoriesAreKnown, NextPhase, Closing, Recovering

\* The passes of the recovery leave behind what the next one expects.
LEMMA RecoveryKeepsDirectories ==
    ASSUME CallsInvariant, Recovery, CallsAreWellFormed'
    PROVE  DirectoriesAreKnown'
<1>1. LifecycleTypeOK /\ CallsAreWellFormed /\ PhasesServeCalls /\ DirectoriesAreKnown
  BY DEF CallsInvariant
<1>2. daemon \notin {"up"} \cup Closing
  BY DEF Recovery, StartDaemon, NextPhase, RecoveryFails, RecoverInterrupted, RecoverControl,
     RecoverStopped, RecoverStoppedControl, RecoverIntent, Closing
<1>3. \A s \in Slots : handlers'[s].op # "commit"
  <2>1. \A s \in Slots \ {"recovery"} : handlers'[s] = handlers[s] /\ handlers[s] = NoHandler
    <3>1. \A s \in Slots \ {"recovery"} : handlers'[s] = handlers[s]
      BY <1>1 DEF Recovery, StartDaemon, NextPhase, RecoveryFails, RecoverInterrupted,
         RecoverControl, RecoverStopped, RecoverStoppedControl, RecoverIntent,
         callVars, LifecycleTypeOK
    <3> QED
      BY <1>2, <3>1, CallsRunInPhases
  <2> QED
    BY <2>1, NoneIsNoStep DEF CallsAreWellFormed, NoHandler, TaskSteps, Calls
<1>4. \A r \in Runs : local'[r] = local[r] \/ local'[r] = "FAILED"
  BY <1>1 DEF Recovery, StartDaemon, NextPhase, RecoveryFails, RecoverInterrupted,
     RecoverControl, RecoverStopped, RecoverStoppedControl, RecoverIntent, runtimeVars, SetLocal,
     LifecycleTypeOK
<1>5. CASE StartDaemon
  BY <1>2, <1>3, <1>5 DEF StartDaemon, DirectoriesAreKnown, Closing, Recovering, At, runtimeVars
<1>6. CASE NextPhase
  <2>1. UNCHANGED <<local, launches>> /\ daemon \in Recovering
    BY <1>6 DEF NextPhase, runtimeVars, Recovering
  <2> QED
    BY <1>1, <1>3, <1>6, <2>1, NextPhaseKeepsDirectories DEF DirectoriesAreKnown, At
<1>7. CASE ~(StartDaemon \/ NextPhase)
  <2>1. daemon' = daemon \/ daemon' = "down"
    BY <1>7 DEF Recovery, RecoveryFails, RecoverInterrupted, RecoverControl, RecoverStopped,
       RecoverStoppedControl, RecoverIntent, daemonVars
  <2> QED
    BY <1>1, <1>2, <1>3, <1>4, <2>1
       DEF DirectoriesAreKnown, Closing, Recovering, At, Interrupted
<1> QED
  BY <1>5, <1>6, <1>7

\* A daemon that exits or crashes takes its memory with it.
LEMMA DaemonKeepsDirectories ==
    ASSUME CallsInvariant,
           \/ CloseDaemon \/ SaveInstances \/ ExitDaemon
           \/ \E r \in Runs : ContainerExits(r)
           \/ CrashDaemon \/ CrashManager
    PROVE  DirectoriesAreKnown'
<1>1. LifecycleTypeOK /\ CallsAreWellFormed /\ PhasesServeCalls /\ DirectoriesAreKnown
  BY DEF CallsInvariant
<1>2. UNCHANGED runs
  BY DEF CloseDaemon, SaveInstances, ExitDaemon, ContainerExits, CrashDaemon, CrashManager,
     storeVars
<1>3. CASE CloseDaemon \/ SaveInstances \/ \E r \in Runs : ContainerExits(r)
  <2>1. /\ UNCHANGED <<local, launches, handlers, crashes>>
        /\ daemon' = daemon \/ (daemon \in {"up"} \cup Closing /\ daemon' \in Closing)
    BY <1>3 DEF CloseDaemon, SaveInstances, ContainerExits, runtimeVars, callVars, Closing,
       daemonVars
  <2> QED
    BY <1>1, <1>2, <2>1 DEF DirectoriesAreKnown, Closing, Recovering, At
<1>4. CASE ExitDaemon
  <2>1. /\ daemon' = "down" /\ UNCHANGED <<handlers, crashes>>
        /\ \A r \in Runs : local[r] = "STOPPED" => local'[r] = "STOPPED"
    BY <1>4 DEF ExitDaemon, callVars
  <2>2. \A s \in Slots : At(s, "commit", "publish") => handlers[s].run \in Runs
    BY <1>1, CallIsKnown DEF At, HandlerSteps
  <2> QED
    BY <1>1, <2>1, <2>2 DEF DirectoriesAreKnown, Closing, Recovering, At
<1>5. ASSUME CrashDaemon \/ CrashManager
      PROVE  crashes' # 0
  BY <1>1, <1>5, LifecycleConstants DEF CrashDaemon, CrashManager, LifecycleTypeOK
<1>6. CASE CrashDaemon
  BY <1>5, <1>6 DEF CrashDaemon, DirectoriesAreKnown, Closing, Recovering
<1>7. CASE CrashManager
  <2>1. UNCHANGED <<local, launches, daemon>>
    BY <1>7 DEF CrashManager, runtimeVars, daemonVars
  <2> QED
    BY <1>1, <1>2, <1>5, <1>7, <2>1 DEF DirectoriesAreKnown, Closing, Recovering
<1> QED
  BY <1>3, <1>4, <1>6, <1>7

\* Every step keeps DirectoriesAreKnown.
LEMMA StepDirectories ==
    ASSUME CallsInvariant, [LifecycleNext]_lifecycleVars
    PROVE  DirectoriesAreKnown'
<1>1. CallsAreWellFormed'
  BY StepTypes
<1>2. CASE LifecycleNext
  BY <1>1, <1>2, HandlerStepKeepsDirectories, ManagerKeepsDirectories, RecoveryKeepsDirectories,
     DaemonKeepsDirectories DEF LifecycleNext
<1>3. CASE UNCHANGED lifecycleVars
  <2>1. DirectoriesAreKnown /\ UNCHANGED <<runs, local, launches, daemon, handlers, crashes>>
    BY <1>3 DEF CallsInvariant, lifecycleVars, storeVars, runtimeVars, callVars, daemonVars
  <2> QED
    BY <2>1 DEF DirectoriesAreKnown, At
<1> QED
  BY <1>2, <1>3

-----------------------------------------------------------------------------
\* The removals that are going on, and what the recovery has still to do.

\* A call that destroys is made by an operation that has committed, or that means
\* to drop the Upper; what is committed stays so, and the call keeps its caller's
\* name whatever becomes of the caller.
LEMMA StepSavesOrDrops ==
    ASSUME CallsInvariant, [LifecycleNext]_lifecycleVars
    PROVE  CallsSaveOrDrop'
<1>1. /\ LifecycleTypeOK /\ CallsAreWellFormed /\ DropsOnlyCommitted /\ CallsSaveOrDrop
      /\ RunsAdvance /\ NoHandler.op # "destroy" /\ "destroy" # None
  BY StepsAdvance, NoneIsNoStep DEF CallsInvariant, NoHandler, TaskSteps, Calls
<1> DEFINE Known(call) == call.op = "destroy" =>
              \E s \in Slots : /\ handlers[s].op = "destroy" /\ handlers[s].run = call.run
                             /\ handlers[s].by = call.by
<1>2. ASSUME \A s \in Slots : Known(handlers'[s])
      PROVE  CallsSaveOrDrop'
  <2>1. ASSUME NEW s \in Slots, handlers'[s].op = "destroy"
        PROVE  \/ runs'[handlers'[s].run].state = "COMMITTED"
               \/ handlers'[s].by \in Drops \cup Waiters
    <3>1. PICK q \in Slots : /\ handlers[q].op = "destroy" /\ handlers[q].run = handlers'[s].run
                            /\ handlers[q].by = handlers'[s].by
      BY <1>2, <2>1
    <3>2. handlers[q].run \in Runs
      BY <1>1, <3>1 DEF CallsAreWellFormed
    <3> QED
      BY <1>1, <3>1, <3>2 DEF CallsSaveOrDrop, RunsAdvance
  <2> QED
    BY <2>1 DEF CallsSaveOrDrop
<1>3. CASE UNCHANGED handlers
  BY <1>2, <1>3
<1>4. ASSUME NEW s \in Slots, HandlerStep(s)
      PROVE  CallsSaveOrDrop'
  BY <1>1, <1>2, <1>4, HandlerStepMoves
<1>5. ASSUME NEW d \in Drivers, Call(d)
      PROVE  CallsSaveOrDrop'
  <2>1. CASE handlers' = [handlers EXCEPT ![d] =
                [op |-> tasks[d].pc, run |-> tasks[d].run, pc |-> "begin", by |-> tasks[d].op]]
    <3>1. d \in Slots /\ handlers \in [Slots -> HandlerRow]
      BY <1>1 DEF Slots, LifecycleTypeOK, HandlerRow
    <3>2. UNCHANGED runs
      BY <1>5 DEF Call, storeVars
    <3>3. ASSUME tasks[d].pc = "destroy"
          PROVE  Control(tasks[d].run) = "COMMITTED" \/ tasks[d].op \in Drops \cup Waiters
      <4>1. IsTaskStep(tasks[d].op, "destroy")
        BY <1>1, <3>3, TaskIsKnown DEF TaskSteps, Calls
      <4>2. tasks[d].op \in StopReasons \cup {"PUBLISH"} \cup Drops \cup Waiters
        BY <4>1, LifecycleConstants DEF IsTaskStep, Begins, Drops, Waiters
      <4> QED
        BY <1>1, <3>3, <4>2 DEF DropsOnlyCommitted
    <3>4. \A s \in Slots : handlers'[s] = IF s = d
              THEN [op |-> tasks[d].pc, run |-> tasks[d].run, pc |-> "begin", by |-> tasks[d].op]
              ELSE handlers[s]
      BY <2>1, <3>1
    <3> QED
      BY <1>1, <3>2, <3>3, <3>4 DEF CallsSaveOrDrop
  <2>2. CASE UNCHANGED handlers
    BY <1>3, <2>2
  <2> QED
    BY <1>5, <2>1, <2>2 DEF Call
<1>6. CASE Recovery \/ CrashDaemon \/ CrashManager
  <2>1. \A s \in Slots : \/ handlers'[s].op # "destroy"
                        \/ \E q \in Slots : handlers'[s] = handlers[q]
    <3>1. \/ UNCHANGED handlers
          \/ handlers' = [handlers EXCEPT !["recovery"] = NoHandler]
          \/ \E r \in Runs : handlers' = [handlers EXCEPT
                !["recovery"] = [op |-> None, run |-> r, pc |-> "control", by |-> None]]
          \/ handlers' = [s \in Slots |-> NoHandler]
          \/ handlers' = [handlers EXCEPT
                !["orphan"]  = IF @ = NoHandler THEN handlers["manager"] ELSE @,
                !["manager"] = NoHandler]
      BY <1>6 DEF Recovery, StartDaemon, NextPhase, RecoveryFails, RecoverInterrupted,
         RecoverControl, RecoverStopped, RecoverStoppedControl, RecoverIntent, CrashDaemon,
         CrashManager, callVars
    <3>2. \A s \in Slots : \/ handlers'[s] = NoHandler \/ handlers'[s].op = None
                          \/ \E q \in Slots : handlers'[s] = handlers[q]
      <4>1. {"manager", "orphan", "recovery"} \subseteq Slots /\ handlers \in [Slots -> HandlerRow]
        BY <1>1 DEF LifecycleTypeOK, HandlerRow, Slots, Drivers
      <4> QED
        BY <3>1, <4>1
    <3> QED
      BY <1>1, <3>2
  <2> QED
    BY <1>2, <2>1
<1> QED
  BY <1>3, <1>4, <1>5, <1>6
     DEF LifecycleNext, TaskStep, Answered, FailRun, RecordReason, ManagerStep, SetIntent,
         DiscardRow, Restart, RequestStep, Start, StartRefused, UserStop, OpenInstance,
         PublishFailedUpper, DiscardFailedUpper, FailStartup, Background, SeeExit,
         FinalizeExited, EndReadinessWait, CloseDaemon, SaveInstances, ExitDaemon,
         ContainerExits, callVars, lifecycleVars

\* The manager moves no Run to RUNNING or COMMITTING, and only the owner who
\* publishes takes one back to STOPPED.
LEMMA ManagerMovesRuns ==
    ASSUME CallsInvariant,
           \/ \E d \in Drivers : TaskStep(d)
           \/ ManagerStep \/ RequestStep \/ Background
    PROVE  \A q \in Runs :
              /\ runs'[q].state \in {"RUNNING", "COMMITTING"} => runs'[q].state = Control(q)
              /\ runs'[q].state = "STOPPED" => Control(q) = "STOPPED" \/ PublishFailedUpper(q)
<1> DEFINE Moved(q) ==
      /\ runs'[q].state \in {"RUNNING", "COMMITTING"} => runs'[q].state = Control(q)
      /\ runs'[q].state = "STOPPED" => Control(q) = "STOPPED" \/ PublishFailedUpper(q)
<1>1. TypeOK /\ RunsAreTheInstances
  BY DEF CallsInvariant, InductiveInvariant
<1>2. CASE UNCHANGED storeVars
  BY <1>2 DEF storeVars
<1>3. ASSUME NEW d \in Drivers, FailRun(d) \/ RecordReason(d)
      PROVE  \A q \in Runs : Moved(q)
  BY <1>3, FailRunMoves, RecordReasonMoves DEF RunsStay, RunMoves, RunIs
<1>4. CASE SetIntent \/ DiscardRow
  BY <1>4, SetIntentMoves, DiscardRowMoves DEF RunsStay, RunMoves, RunIs
<1>5. ASSUME NEW r \in Runs, CreateBwaWorkspaceRun(r, TheInstance)
      PROVE  \A q \in Runs : Moved(q)
  BY <1>1, <1>5, CreateRunMoves
<1>6. ASSUME NEW r \in Runs, PublishFailedUpper(r)
      PROVE  \A q \in Runs : Moved(q)
  <2>1. ReopenFailedWorkspaceRun(r)
    BY <1>6 DEF PublishFailedUpper
  <2> QED
    BY <1>1, <1>6, <2>1, ReopenMoves DEF RunMoves, RunIs
<1> QED
  BY <1>2, <1>3, <1>4, <1>5, <1>6
     DEF TaskStep, Call, Answered, ManagerStep, Restart, RequestStep, Start, StartRefused,
         UserStop, OpenInstance, DiscardFailedUpper, FailStartup,
         Background, SeeExit, FinalizeExited, EndReadinessWait, CreateRun

RecoveryMemory == [rows : [Runs -> OpenStates \cup {None}], intent : BOOLEAN,
                   reopened : SUBSET Runs]

\* What the manager does while a pass goes on takes nothing off its list.
LEMMA ManagerKeepsList ==
    ASSUME CallsInvariant,
           \/ \E d \in Drivers : TaskStep(d)
           \/ ManagerStep \/ RequestStep \/ Background
    PROVE  RecoveryGoesByItsList'
<1>1. RecoveryGoesByItsList /\ recovery \in RecoveryMemory /\ RunsAdvance
  BY StepsAdvance DEF CallsInvariant, RecoveryGoesByItsList, RecoveryTypeOK, RecoveryMemory,
     LifecycleNext
<1>2. UNCHANGED daemon
  BY DEF TaskStep, Call, Answered, FailRun, RecordReason,
     ManagerStep, SetIntent, DiscardRow, Restart, RequestStep, Start, StartRefused, UserStop,
     OpenInstance, PublishFailedUpper, DiscardFailedUpper, FailStartup, Background, SeeExit,
     FinalizeExited, EndReadinessWait, daemonVars
<1>3. handlers'["recovery"] = handlers["recovery"]
  <2>1. ASSUME NEW d \in Drivers, Call(d)
        PROVE  handlers'["recovery"] = handlers["recovery"]
    BY <2>1 DEF Call, Drivers, CallsInvariant, LifecycleTypeOK, Slots
  <2> QED
    BY <2>1 DEF TaskStep, Answered, FailRun, RecordReason, ManagerStep, SetIntent, DiscardRow,
       Restart, RequestStep, Start, StartRefused, UserStop, OpenInstance, PublishFailedUpper,
       DiscardFailedUpper, FailStartup, Background, SeeExit, FinalizeExited, EndReadinessWait,
       callVars
<1>4. /\ recovery' \in RecoveryMemory /\ recovery'.rows = recovery.rows
      /\ recovery.reopened \subseteq recovery'.reopened
      /\ \A q \in Runs : PublishFailedUpper(q) /\ daemon \in Recovering => q \in recovery'.reopened
      /\ daemon \notin Recovering => recovery' = recovery
  <2>1. \A r \in Runs : PublishFailedUpper(r) =>
           recovery' = [recovery EXCEPT !.reopened =
                          IF daemon \in Recovering THEN @ \cup {r} ELSE @]
    BY DEF PublishFailedUpper
  <2>2. CASE \E r \in Runs : PublishFailedUpper(r)
    BY <1>1, <2>1, <2>2 DEF RecoveryMemory
  <2>3. CASE ~\E r \in Runs : PublishFailedUpper(r)
    <3>1. UNCHANGED recovery
      BY <2>3 DEF TaskStep, Call, Answered, FailRun, RecordReason,
         ManagerStep, SetIntent, DiscardRow, Restart, RequestStep, Start, StartRefused, UserStop,
         OpenInstance, DiscardFailedUpper, FailStartup, Background, SeeExit,
         FinalizeExited, EndReadinessWait, daemonVars
    <3> QED
      BY <1>1, <2>3, <3>1
  <2> QED
    BY <2>2, <2>3
<1> QED
  BY <1>1, <1>2, <1>3, <1>4, ManagerMovesRuns
     DEF RecoveryGoesByItsList, RecoveryTypeOK, RecoveryMemory, Recovering, RunsAdvance

\* A pass strikes a Run off its list when it has come to a verdict on it, and only
\* ends with an empty list.
LEMMA RecoveryKeepsList ==
    ASSUME CallsInvariant, Recovery
    PROVE  RecoveryGoesByItsList'
<1>1. /\ RecoveryGoesByItsList /\ recovery \in RecoveryMemory /\ LifecycleTypeOK
      /\ TypeOK /\ CallsAreWellFormed /\ DirectoriesAreKnown /\ PhasesServeCalls
  BY DEF CallsInvariant, InductiveInvariant, RecoveryGoesByItsList, RecoveryTypeOK, RecoveryMemory
<1>2. NoRecovery \in RecoveryMemory /\ \A r \in Runs : NoRecovery.rows[r] = None
  BY DEF NoRecovery, RecoveryMemory
<1>3. RecoveryTypeOK' <=> recovery' \in RecoveryMemory
  BY DEF RecoveryTypeOK, RecoveryMemory
<1>4. CASE StartDaemon
  <2>1. daemon' = "interrupted" /\ UNCHANGED recovery /\ recovery = NoRecovery
    BY <1>1, <1>4 DEF StartDaemon, RecoveryGoesByItsList, Recovering
  <2> QED
    BY <1>2, <1>3, <2>1 DEF RecoveryGoesByItsList, Recovering
<1>5. CASE RecoveryFails
  <2>1. daemon' = "down" /\ recovery' = NoRecovery
    BY <1>5 DEF RecoveryFails
  <2> QED
    BY <1>2, <1>3, <2>1 DEF RecoveryGoesByItsList, Recovering
<1>6. CASE NextPhase
  <2>1. UNCHANGED <<runs, handlers>> /\ Visited
    BY <1>6 DEF NextPhase, storeVars, callVars
  <2>2. CASE daemon = "interrupted" /\ daemon' = "control" /\ recovery' = ListControl
    <3>1. /\ recovery' \in RecoveryMemory
          /\ \A r \in Runs : recovery'.rows[r] =
                IF Control(r) \in OpenStates THEN Control(r) ELSE None
      BY <1>1, <2>2 DEF ListControl, RecoveryMemory
    <3> QED
      BY <1>3, <2>1, <2>2, <3>1, NamesAreDistinct
         DEF RecoveryGoesByItsList, Recovering, OpenStates, RunState
  <2>3. CASE daemon = "control" /\ daemon' = "host" /\ recovery' = ListHost
    <3>1. /\ recovery' \in RecoveryMemory
          /\ \A r \in Runs : recovery'.rows[r] =
                IF Control(r) = "STOPPED" THEN "STOPPED" ELSE None
      BY <1>1, <2>3 DEF ListHost, RecoveryMemory, OpenStates
    <3>2. \A r \in Runs : Control(r) \notin {"RUNNING", "COMMITTING"}
      BY <1>1, <2>1, <2>3, NamesAreDistinct DEF Visited, RecoveryGoesByItsList, RunState
    <3> QED
      BY <1>3, <2>1, <2>3, <3>1, <3>2, NamesAreDistinct
         DEF RecoveryGoesByItsList, Recovering, RunState
  <2>4. CASE daemon = "host" /\ daemon' = "listening" /\ UNCHANGED recovery
    BY <1>1, <1>3, <2>1, <2>4 DEF RecoveryGoesByItsList, Recovering, Visited
  <2>5. CASE daemon = "listening" /\ daemon' = "up" /\ recovery' = NoRecovery
    BY <1>2, <1>3, <2>5 DEF RecoveryGoesByItsList, Recovering
  <2> QED
    BY <1>6, <2>2, <2>3, <2>4, <2>5 DEF NextPhase
<1>7. ASSUME NEW r \in Runs, RecoverInterrupted(r)
      PROVE  RecoveryGoesByItsList'
  <2>1. UNCHANGED <<runs, handlers, daemon, recovery>>
    BY <1>7 DEF RecoverInterrupted, storeVars, callVars, daemonVars
  <2> QED
    BY <1>1, <2>1 DEF RecoveryGoesByItsList, RecoveryTypeOK
<1>8. ASSUME NEW r \in Runs, RecoverControl(r)
      PROVE  RecoveryGoesByItsList'
  <2>1. /\ daemon = "control" /\ UNCHANGED <<handlers, daemon>>
        /\ recovery' = [recovery EXCEPT !.rows[r] = None]
    BY <1>8 DEF RecoverControl, callVars
  <2>2. /\ recovery' \in RecoveryMemory
        /\ \A q \in Runs : recovery'.rows[q] = IF q = r THEN None ELSE recovery.rows[q]
    BY <1>1, <2>1 DEF RecoveryMemory
  <2>3. RunsStay \/ \E state \in {"STOPPED", "FAILED"} : RunMoves(r, state)
    BY <1>8, RecoverControlMoves
  <2>4. ASSUME RunsStay, RecoveredControl(r) = None
        PROVE  Control(r) \notin {"RUNNING", "COMMITTING"}
    <3>1. local[r] \in {"ABSENT", "STOPPED", "FAILED", "DESTROYED"}
      BY <1>1, <2>1 DEF DirectoriesAreKnown, LifecycleTypeOK, LocalRunState, Interrupted, Recovering
    <3>2. recovery.rows[r] \notin {"RUNNING", "COMMITTING"}
      BY <2>4, <3>1, NamesAreDistinct DEF RecoveredControl, RunState
    <3> QED
      BY <1>1, <2>1, <3>2 DEF RecoveryGoesByItsList
  <2>5. runs'[r].state \notin {"RUNNING", "COMMITTING"}
    BY <1>8, <2>4, RecoverControlMoves DEF RunsStay, RunMoves, RunIs
  <2>6. \A q \in Runs \ {r} : runs'[q].state = Control(q)
    BY <2>3 DEF RunsStay, RunMoves, RunIs
  <2> QED
    BY <1>1, <1>3, <2>1, <2>2, <2>5, <2>6 DEF RecoveryGoesByItsList, Recovering
<1>9. ASSUME NEW r \in Runs, RecoverStopped(r)
      PROVE  RecoveryGoesByItsList'
  <2>1. /\ daemon = "host" /\ UNCHANGED <<runs, daemon>> /\ handlers["recovery"] = NoHandler
        /\ recovery' = [recovery EXCEPT !.rows[r] = None]
        /\ handlers'["recovery"].run = r
    BY <1>1, <1>9 DEF RecoverStopped, storeVars, LifecycleTypeOK, Slots
  <2>2. /\ recovery' \in RecoveryMemory /\ recovery'.reopened = recovery.reopened
        /\ \A q \in Runs : recovery'.rows[q] = IF q = r THEN None ELSE recovery.rows[q]
    BY <1>1, <2>1 DEF RecoveryMemory
  <2>3. \A q \in Runs : handlers["recovery"].run # q
    BY <2>1, NamesAreDistinct DEF NoHandler
  <2> QED
    BY <1>1, <1>3, <2>1, <2>2, <2>3 DEF RecoveryGoesByItsList, Recovering
<1>10. CASE RecoverStoppedControl
  <2> DEFINE r == handlers["recovery"].run
  <2>1. /\ daemon = "host" /\ UNCHANGED <<daemon, recovery>> /\ r \in Runs
    BY <1>1, <1>10 DEF RecoverStoppedControl, daemonVars, CallsAreWellFormed, Slots
  <2>2. \A q \in Runs : runs'[q].state = IF q = r THEN "FAILED" ELSE Control(q)
    BY <1>10, RecoverStoppedControlMoves DEF RunMoves, RunIs
  <2> QED
    BY <1>1, <1>3, <2>1, <2>2, NamesAreDistinct DEF RecoveryGoesByItsList, Recovering, RunState
<1>11. CASE RecoverIntent
  <2>1. /\ daemon = "host" /\ UNCHANGED <<daemon, handlers>>
        /\ recovery' = [recovery EXCEPT !.intent = FALSE]
    BY <1>11 DEF RecoverIntent, callVars
  <2>2. /\ recovery' \in RecoveryMemory /\ recovery'.reopened = recovery.reopened
        /\ recovery'.rows = recovery.rows
    BY <1>1, <2>1 DEF RecoveryMemory
  <2>3. \A q \in Runs : runs'[q].state = Control(q)
    BY <1>11, RecoverIntentMoves DEF RunsStay, RunIs
  <2> QED
    BY <1>1, <1>3, <2>1, <2>2, <2>3 DEF RecoveryGoesByItsList, Recovering
<1> QED
  BY <1>4, <1>5, <1>6, <1>7, <1>8, <1>9, <1>10, <1>11 DEF Recovery

\* A daemon that is not recovering has no list.
LEMMA StepGoesByList ==
    ASSUME CallsInvariant, [LifecycleNext]_lifecycleVars
    PROVE  RecoveryGoesByItsList'
<1>1. RecoveryGoesByItsList /\ LifecycleTypeOK /\ CallsAreWellFormed /\ PhasesServeCalls
  BY DEF CallsInvariant
<1>2. ASSUME daemon' \notin Recovering, recovery' = NoRecovery
      PROVE  RecoveryGoesByItsList'
  <2>1. RecoveryTypeOK'
    BY <1>2 DEF RecoveryTypeOK, NoRecovery
  <2> QED
    BY <1>2, <2>1 DEF RecoveryGoesByItsList, Recovering, NoRecovery
<1>3. ASSUME NEW s \in Slots, HandlerStep(s)
      PROVE  RecoveryGoesByItsList'
  <2>1. daemon \in {"up"} \cup Closing /\ UNCHANGED daemon
    BY <1>1, <1>3, HandlerStepMoves, CallsRunInPhases
  <2>2. UNCHANGED recovery
    BY <1>3 DEF HandlerStep, Refuse, PrepareDirectory, PrepareMounts, StartContainer, MarkRunning,
       RecordRunning, StopContainer, RemoveContainer, DockerFails, MarkStopped,
       RecordStopped, ReopenFailed, BeginCommit, Publish, FailCommit, FailUpper, BeginDestroy,
       RemoveDirectory, RemovalFails, daemonVars
  <2> QED
    BY <1>1, <1>2, <2>1, <2>2 DEF RecoveryGoesByItsList, Recovering, Closing
<1>4. CASE CloseDaemon \/ SaveInstances \/ ExitDaemon
  <2>1. daemon \in {"up"} \cup Closing /\ daemon' \notin Recovering /\ UNCHANGED recovery
    BY <1>4 DEF CloseDaemon, SaveInstances, ExitDaemon, Closing, Recovering
  <2> QED
    BY <1>1, <1>2, <2>1 DEF RecoveryGoesByItsList, Recovering, Closing
<1>5. CASE CrashDaemon
  BY <1>2, <1>5 DEF CrashDaemon, Recovering
<1>6. CASE UNCHANGED lifecycleVars \/ CrashManager \/ \E r \in Runs : ContainerExits(r)
  <2>1. UNCHANGED <<runs, daemon, recovery>> /\ handlers'["recovery"] = handlers["recovery"]
    BY <1>1, <1>6 DEF lifecycleVars, CrashManager, ContainerExits, storeVars, daemonVars, callVars,
       LifecycleTypeOK, Slots
  <2> QED
    BY <1>1, <2>1 DEF RecoveryGoesByItsList, RecoveryTypeOK
<1> QED
  BY <1>3, <1>4, <1>5, <1>6, ManagerKeepsList, RecoveryKeepsList DEF LifecycleNext

-----------------------------------------------------------------------------
\* The first half of the argument: who is where.

\* The store as the lifecycle finds it: the Workspace has its first head.
LEMMA LifecycleInitStore ==
    ASSUME LifecycleInit
    PROVE  InductiveInvariant
<1>1. /\ \A ref \in RefIds : /\ refs[ref] = [head |-> FirstHead(ref), base |-> NoFid, revision |-> 0]
                             /\ published[ref] = IF FirstHead(ref) = NoFid THEN {}
                                  ELSE {[head |-> FirstHead(ref), revision |-> 0]}
      /\ \A r \in Runs : runs[r] = NoRun
      /\ lastFid = 2
  BY DEF LifecycleInit, NoRef
<1>2. \A ref \in RefIds : FirstHead(ref) \in {0, 1, 2}
  BY DEF FirstHead, NoFid
<1>3. TheWorkspace # Main /\ FirstHead(TheWorkspace) = 2 /\ TheWorkspace \in RefIds
  BY NamesAreDistinct, LifecycleConstants DEF FirstHead, RefIds
<1>4. \A ref \in RefIds : refs[ref].head = FirstHead(ref) /\ refs[ref].revision = 0
  <2> SUFFICES ASSUME NEW ref \in RefIds
               PROVE  refs[ref].head = FirstHead(ref) /\ refs[ref].revision = 0
    OBVIOUS
  <2>1. refs[ref] = [head |-> FirstHead(ref), base |-> NoFid, revision |-> 0]
    BY <1>1
  <2> QED
    BY <2>1
<1>5. TypeOK
  <2>1. refs \in [RefIds -> RefRow] /\ published \in [RefIds -> SUBSET Version]
    <3>1. \A ref \in RefIds : refs[ref] \in RefRow
      <4> SUFFICES ASSUME NEW ref \in RefIds PROVE refs[ref] \in RefRow
        OBVIOUS
      <4>1. refs[ref] = [head |-> FirstHead(ref), base |-> 0, revision |-> 0]
        BY <1>1 DEF NoFid
      <4> QED
        BY <1>2, <4>1 DEF RefRow
    <3>2. \A n \in {1, 2} : [head |-> n, revision |-> 0] \in Version
      BY DEF Version, Fid, NoFid
    <3>3. \A ref \in RefIds : published[ref] \subseteq Version
      BY <1>1, <1>2, <3>2 DEF NoFid
    <3> QED
      BY <3>1, <3>3 DEF LifecycleInit
  <2>2. lastFid \in Fid /\ leases \in [Workspaces -> Runs \cup {None}]
    BY <1>1 DEF LifecycleInit, Fid, NoFid
  <2>3. runs \in [Runs -> RunRow]
    BY DEF LifecycleInit, NoRun, RunRow, NoFid
  <2>4. applications \in [Applications -> ApplicationRow]
    BY LifecycleConstants DEF LifecycleInit, ApplicationRow, NoApplication
  <2>5. instances \in [Instances -> InstanceRow]
    BY LifecycleConstants DEF LifecycleInit, InstanceRow, NoInstance
  <2> QED
    BY <2>1, <2>2, <2>3, <2>4, <2>5 DEF TypeOK
<1>6. /\ \A i \in Instances : InstanceExists(i) <=> i = TheInstance
      /\ instances[TheInstance].workspace = TheWorkspace
      /\ instances[TheInstance].application = TheApplication
      /\ \A i \in Instances \ {TheInstance} : instances[i] = NoInstance
      /\ \A a \in Applications \ {TheApplication} : applications[a] = NoApplication
      /\ applications[TheApplication].digest # None
      /\ applications[TheApplication].default = TheInstance
  BY LifecycleConstants, NamesAreDistinct DEF LifecycleInit, InstanceExists, NoInstance
<1>7. RowsAreConsistent
  <2>1. RefExists(TheWorkspace)
    BY <1>3, <1>4 DEF RefExists, NoFid
  <2> QED
    BY <1>1, <1>6, <2>1, LifecycleConstants DEF RowsAreConsistent, NoRun
<1>8. VersionsAreConsistent
  <2>1. \A ref \in RefIds :
           IF RefExists(ref) THEN Current(ref) \in published[ref]
                             ELSE refs[ref] = NoRef /\ published[ref] = {}
    <3>1. \A ref \in RefIds : RefExists(ref) => Current(ref) \in published[ref]
      BY <1>1, <1>4 DEF RefExists, Current
    <3>2. \A ref \in RefIds : ~RefExists(ref) => refs[ref] = NoRef /\ published[ref] = {}
      BY <1>1, <1>4 DEF RefExists, NoRef
    <3> QED
      BY <3>1, <3>2
  <2>2. \A ref \in RefIds : \A v \in published[ref] :
           /\ v.head <= lastFid /\ v.revision < v.head
           /\ v.head = refs[ref].head => v = Current(ref)
    <3> SUFFICES ASSUME NEW ref \in RefIds, NEW v \in published[ref]
                 PROVE  /\ v.head <= lastFid /\ v.revision < v.head
                        /\ v.head = refs[ref].head => v = Current(ref)
      OBVIOUS
    <3>1. v = [head |-> FirstHead(ref), revision |-> 0] /\ FirstHead(ref) \in {1, 2}
      BY <1>1, <1>2 DEF NoFid
    <3>2. v.head = FirstHead(ref) /\ v.revision = 0
      BY <3>1
    <3> QED
      BY <1>1, <1>4, <3>1, <3>2 DEF Current
  <2> QED
    BY <1>1, <2>1, <2>2, LifecycleConstants DEF VersionsAreConsistent
<1>9. \A r \in Runs : ~IsUnresolved(runs[r].state) /\ runs[r].state = None
  BY <1>1, NamesAreDistinct DEF NoRun, RunState, IsUnresolved, OpenStates
<1>10. LeaseHeldByTheOpenRun
  <2>1. \A w \in Workspaces : leases[w] = None
    BY DEF LifecycleInit
  <2> QED
    BY <1>9, <2>1, NamesAreDistinct DEF LeaseHeldByTheOpenRun, IsUnresolved
<1>11. UnresolvedRunPinsHead /\ NoConflict /\ OneUnresolvedRunPerWorkspace /\ UnresolvedRunIsBound
       /\ CommittedOutputFollowsInput
  BY <1>9, NamesAreDistinct DEF RunState, UnresolvedRunPinsHead, NoConflict,
     OneUnresolvedRunPerWorkspace, UnresolvedRunIsBound, CommittedOutputFollowsInput
<1>12. DefaultIsAnInstance
  <2>1. InstancesOf(TheApplication) = {TheInstance}
    BY <1>6, LifecycleConstants, NamesAreDistinct DEF InstancesOf, NoInstance
  <2>2. ASSUME NEW a \in Applications \ {TheApplication}
        PROVE  InstancesOf(a) = {} /\ applications[a].default = None
    BY <1>6, <2>2, LifecycleConstants, NamesAreDistinct DEF InstancesOf, NoInstance, NoApplication
  <2> QED
    BY <1>6, <2>1, <2>2 DEF DefaultIsAnInstance
<1> QED
  BY <1>5, <1>7, <1>8, <1>10, <1>11, <1>12 DEF InductiveInvariant

\* An Instance that was never started satisfies the invariant.
THEOREM LifecycleInitEstablishesCalls == LifecycleInit => CallsInvariant
<1> SUFFICES ASSUME LifecycleInit PROVE CallsInvariant
  OBVIOUS
<1>1. LifecycleTypeOK
  <2>1. local \in [Runs -> LocalRunState] /\ container \in [Runs -> ContainerState]
    BY DEF LifecycleInit, LocalRunState, ContainerState
  <2>2. crashes \in 0 .. MaxCrashes
    BY LifecycleConstants DEF LifecycleInit
  <2>3. handlers \in [Slots -> [op : Calls \cup {None}, run : Runs \cup {None},
                               pc : HandlerSteps \cup {None},
                               by : Operations \cup {None}]]
    BY DEF LifecycleInit, NoHandler
  <2>4. tasks \in [Drivers -> [op : Operations \cup {None}, run : Runs \cup {None},
                              pc : TaskSteps \cup {None}]]
    BY DEF LifecycleInit, NoTask
  <2>5. /\ launches \subseteq Runs /\ daemon \in DaemonPhase
        /\ replies \in [Drivers -> {"none", "ok", "error"}]
        /\ waits \subseteq Runs \X Waiters /\ exitSeen \in BOOLEAN /\ discards \subseteq Runs
    BY DEF LifecycleInit, DaemonPhase
  <2> QED
    BY <2>1, <2>2, <2>3, <2>4, <2>5 DEF LifecycleTypeOK
<1>2. CallsAreWellFormed /\ PhasesServeCalls
  BY NoneIsNoStep DEF LifecycleInit, CallsAreWellFormed, PhasesServeCalls, NoHandler, NoTask,
     Slots, Drivers
<1>3. RunsAreTheInstances
  BY LifecycleConstants DEF LifecycleInit, RunsAreTheInstances, NoRun
<1>4. RunsHaveBegun /\ StartsArePrepared /\ DropsOnlyCommitted
  BY NoneIsNoStep DEF LifecycleInit, RunsHaveBegun, StartsArePrepared, DropsOnlyCommitted, At,
     NoHandler, NoTask, Slots, Drivers, TaskSteps, Calls, Begins, Operations
<1>5. DirectoriesAreKnown
  BY NoneIsNoStep DEF LifecycleInit, DirectoriesAreKnown, At, NoHandler, Recovering, Closing,
     TaskSteps, Calls
<1>6. InductiveInvariant
  BY LifecycleInitStore
<1>7. CallsSaveOrDrop
  BY NoneIsNoStep DEF LifecycleInit, CallsSaveOrDrop, NoHandler, TaskSteps, Calls
<1>8. RecoveryGoesByItsList
  BY DEF LifecycleInit, RecoveryGoesByItsList, RecoveryTypeOK, NoRecovery, Recovering
<1> QED
  BY <1>1, <1>2, <1>3, <1>4, <1>5, <1>6, <1>7, <1>8 DEF CallsInvariant

\* Every step of either program, of Docker and of the disk keeps every clause.
THEOREM LifecycleNextPreservesCalls ==
    CallsInvariant /\ [LifecycleNext]_lifecycleVars => CallsInvariant'
<1> SUFFICES ASSUME CallsInvariant, [LifecycleNext]_lifecycleVars PROVE CallsInvariant'
  OBVIOUS
<1> QED
  BY StepsAdvance, StepTypes, StepBegun, StepPrepared, StepCommits, StepDirectories,
     StepSavesOrDrops, StepGoesByList
  DEF CallsInvariant

\* In every state the calls, operations, Runs and directories agree with each other.
THEOREM CallsInvariantHolds == LifecycleSpec => []CallsInvariant
BY LifecycleInitEstablishesCalls, LifecycleNextPreservesCalls, PTL DEF LifecycleSpec

\* The lifecycle uses the store as RefStore describes it: each of its steps is a
\* transaction of the store or leaves it alone.
THEOREM LifecycleStepsAreStoreSteps == LifecycleSpec => [][Next]_storeVars
<1>1. CallsInvariant /\ [LifecycleNext]_lifecycleVars => [Next]_storeVars
  BY StepsAdvance
<1> QED
  BY <1>1, CallsInvariantHolds, PTL DEF LifecycleSpec

\* Every variable holds a value of its type, for any number of Runs and crashes.
THEOREM LifecycleTypesHold == LifecycleSpec => []LifecycleTypeOK
<1>1. CallsInvariant => LifecycleTypeOK
  BY DEF CallsInvariant
<1> QED
  BY <1>1, CallsInvariantHolds, PTL

\* What RefStore promises of its tables is kept by the two programs that write them.
THEOREM LifecycleKeepsTheStore == LifecycleSpec => []InductiveInvariant
<1>1. CallsInvariant => InductiveInvariant
  BY DEF CallsInvariant
<1> QED
  BY <1>1, CallsInvariantHolds, PTL

-----------------------------------------------------------------------------
\* No Upper is dropped before it is published.

\* A directory only goes, or is torn, while a call removes it.
LEMMA OnlyRemovalTakesDirectories ==
    ASSUME CallsInvariant, LifecycleNext, NEW r \in Runs,
           local[r] \notin Gone, local'[r] \in Gone
    PROVE  \E s \in Slots : At(s, "destroy", "remove") /\ handlers[s].run = r
<1> USE DEF Gone
<1>1. LifecycleTypeOK /\ CallsAreWellFormed
  BY DEF CallsInvariant
<1>2. CASE \E s \in Slots : HandlerStep(s)
  <2>1. PICK s \in Slots : HandlerStep(s)
    BY <1>2
  <2>2. /\ s # "recovery" /\ handlers[s] # NoHandler
        /\ handlers[s].run = r
    BY <1>1, <2>1, HandlerStepMoves, HandlerStepIsLocal
  <2>3. local \in [Runs -> LocalRunState]
    BY <1>1 DEF LifecycleTypeOK
  <2>4. handlers[s].op = "destroy" /\ handlers[s].pc = "remove"
    <3>1. CASE RemoveDirectory(s) \/ RemovalFails(s)
      BY <2>2, <2>3, <3>1 DEF RemoveDirectory, RemovalFails, SetLocal
    <3>2. CASE BeginDestroy(s)
      BY <2>2, <2>3, <3>2 DEF BeginDestroy, SetLocal
    <3>3. CASE Refuse(s) \/ DockerFails(s) \/ MarkStopped(s) \/ FailUpper(s)
      BY <2>2, <2>3, <3>3 DEF Refuse, DockerFails, MarkStopped, FailUpper, SetLocal, MarkFailed
    <3>4. CASE \/ PrepareDirectory(s) \/ PrepareMounts(s) \/ StartContainer(s) \/ MarkRunning(s)
               \/ ReopenFailed(s)
      BY <2>2, <2>3, <3>4 DEF PrepareDirectory, PrepareMounts, StartContainer, MarkRunning,
         ReopenFailed, SetLocal
    <3>5. CASE \/ RecordRunning(s) \/ StopContainer(s) \/ RemoveContainer(s) \/ RecordStopped(s)
               \/ BeginCommit(s) \/ Publish(s) \/ FailCommit(s)
      BY <3>5 DEF RecordRunning, StopContainer, RemoveContainer, RecordStopped, BeginCommit,
         Publish, FailCommit, runtimeVars
    <3> QED
      BY <2>1, <3>1, <3>2, <3>3, <3>4, <3>5 DEF HandlerStep
  <2> QED
    BY <2>1, <2>2, <2>4 DEF At
<1>3. CASE (\E d \in Drivers : TaskStep(d)) \/ ManagerStep \/ RequestStep \/ Background
  <2>1. UNCHANGED local
    BY <1>3 DEF TaskStep, Call, Answered, FailRun, RecordReason, ManagerStep, Restart, SetIntent,
       DiscardRow, RequestStep, Start, StartRefused, UserStop, OpenInstance, PublishFailedUpper,
       DiscardFailedUpper, FailStartup, Background, SeeExit, FinalizeExited, EndReadinessWait,
       runtimeVars
  <2> QED
    BY <2>1
<1>4. CASE Recovery
  <2>1. UNCHANGED local \/ \E q \in Runs : local' = [local EXCEPT ![q] = "FAILED"]
    BY <1>4 DEF Recovery, StartDaemon, NextPhase, RecoveryFails, RecoverInterrupted,
       RecoverControl, RecoverStopped, RecoverStoppedControl, RecoverIntent, SetLocal, runtimeVars
  <2> QED
    BY <1>1, <2>1 DEF LifecycleTypeOK
<1>5. CASE ExitDaemon \/ CrashDaemon
  BY <1>5 DEF ExitDaemon, CrashDaemon, TornBy
<1>6. CASE \/ CloseDaemon \/ SaveInstances \/ CrashManager \/ \E q \in Runs : ContainerExits(q)
  BY <1>6 DEF CloseDaemon, SaveInstances, CrashManager, ContainerExits, runtimeVars
<1> QED
  BY <1>2, <1>3, <1>4, <1>5, <1>6 DEF LifecycleNext

\* Whatever removes the directory of a Run, a call whose caller has crashed and a
\* removal that fails or is torn by a crash included, was asked to: by an operation
\* that drops its Upper on purpose, or after its output was committed.
THEOREM UpperIsRemovedOnPurposeHolds == LifecycleSpec => UpperIsRemovedOnPurpose
<1> DEFINE OnPurpose == \A r \in Runs :
         local[r] \notin Gone /\ local'[r] \in Gone =>
           \E s \in Slots :
              /\ At(s, "destroy", "remove") /\ handlers[s].run = r
              /\ \/ Control(r) = "COMMITTED"
                 \/ handlers[s].by \in {"DISCARD", "DISCARD_FAILED_START"} \cup Waiters
<1>1. CallsInvariant /\ [LifecycleNext]_lifecycleVars => [OnPurpose]_lifecycleVars
  <2>1. ASSUME CallsInvariant, LifecycleNext, NEW r \in Runs,
               local[r] \notin Gone, local'[r] \in Gone
        PROVE  \E s \in Slots :
                  /\ At(s, "destroy", "remove") /\ handlers[s].run = r
                  /\ \/ Control(r) = "COMMITTED"
                     \/ handlers[s].by \in {"DISCARD", "DISCARD_FAILED_START"} \cup Waiters
    <3>1. PICK s \in Slots : At(s, "destroy", "remove") /\ handlers[s].run = r
      BY <2>1, OnlyRemovalTakesDirectories
    <3> QED
      BY <2>1, <3>1 DEF CallsInvariant, CallsSaveOrDrop, At, Drops
  <2> QED
    BY <2>1
<1>2. LifecycleSpec => [][OnPurpose]_lifecycleVars
  BY <1>1, CallsInvariantHolds, PTL DEF LifecycleSpec
<1> QED
  BY <1>2 DEF UpperIsRemovedOnPurpose
-----------------------------------------------------------------------------
\* The containers, under a Docker that does what it is told.

\* What ContainersAreInUse says of one Run.
IsInUse(r) ==
    container[r] # "none" =>
        /\ IsUnresolved(Control(r))
        /\ \/ local[r] = "RUNNING"
           \/ /\ local[r] = "PREPARED"
              /\ \/ daemon \in {"down", "interrupted"}
                 \/ \E s \in Slots : At(s, "start", "mark") /\ handlers[s].run = r

\* A call that has removed the container, or has found that there is none.
IsPastRemoval(call) ==
    \/ /\ call.op \in {"stop", "destroy", "preserve", "finalizeExited"}
       /\ call.pc \in {"mark", "markFailed", "remove"}
    \/ call.op = "commit" /\ call.pc = "publish"

CallIsQuiet(s) == IsPastRemoval(handlers[s]) => container[handlers[s].run] = "none"

\* An operation that drops an Upper whose container is gone.
IsPastDestroy(task, reply) ==
    \/ task.op \in Waiters /\ task.pc \in {"fail", "intent", "discard"}
    \/ task.op \in Drops /\ task.pc = "discard"
    \/ task.op \in Waiters \cup Drops /\ task.pc = "destroy" /\ reply = "ok"

TaskIsQuiet ==
    IsPastDestroy(tasks["manager"], replies["manager"]) => container[tasks["manager"].run] = "none"

\* ContainersAreInUse, one Run, one call and one task at a time.
LEMMA UseByParts ==
    /\ ContainersAreInUse
          <=> (\A r \in Runs : IsInUse(r)) /\ (\A s \in Slots : CallIsQuiet(s)) /\ TaskIsQuiet
    /\ ContainersAreInUse'
          <=> (\A r \in Runs : IsInUse(r)') /\ (\A s \in Slots : CallIsQuiet(s)') /\ TaskIsQuiet'
  BY DEF ContainersAreInUse, IsInUse, CallIsQuiet, IsPastRemoval, TaskIsQuiet, IsPastDestroy, At

\* Nobody but its own start works on a Run while its container is being started.
LEMMA StartIsAlone ==
    ASSUME CallsInvariant, NEW s \in Slots, StartContainer(s) \/ At(s, "start", "mark")
    PROVE  /\ handlers[s].run \in Runs /\ Control(handlers[s].run) = "PREPARING"
           /\ local[handlers[s].run] = "PREPARED" /\ s # "recovery" /\ handlers[s] # NoHandler
           /\ \A q \in Slots \ {s} : handlers[q].run # handlers[s].run
           /\ tasks["manager"].run = handlers[s].run => tasks["manager"].op \in Begins
<1>1. LifecycleTypeOK /\ CallsAreWellFormed /\ StartsArePrepared /\ RunsHaveBegun
  BY DEF CallsInvariant
<1>2. handlers[s].op = "start" /\ handlers[s].pc \in {"begin", "mark"}
  BY DEF StartContainer, At
<1>3. handlers[s].run \in Runs /\ s # "recovery" /\ handlers[s] # NoHandler
  BY <1>1, <1>2, CallIsKnown DEF HandlerSteps
<1>4. local[handlers[s].run] = "PREPARED"
  BY <1>1 DEF StartContainer, Accepts, StartsArePrepared
<1>5. Control(handlers[s].run) = "PREPARING"
  BY <1>1, <1>2, <1>4 DEF StartsArePrepared
<1>6. ~HasStarted(handlers[s].run)
  BY <1>5 DEF HasStarted
<1>7. \A q \in Slots \ {s} : handlers[q].run # handlers[s].run
  BY <1>3, <1>6, AloneWithARun
<1>8. ASSUME tasks["manager"].run = handlers[s].run
      PROVE  tasks["manager"].op \in Begins
  <2>1. tasks["manager"] # NoTask /\ "manager" \in Drivers
    BY <1>3, <1>8, NamesAreDistinct DEF NoTask, Drivers
  <2> QED
    BY <1>1, <1>6, <1>8, <2>1 DEF RunsHaveBegun
<1> QED
  BY <1>3, <1>4, <1>5, <1>7, <1>8

\* A container only appears when it is started, and Docker fails only when there is none.
LEMMA HandlerStepContainers ==
    ASSUME CallsInvariant, ~DockerMayFail, NEW s \in Slots, HandlerStep(s)
    PROVE  /\ container' # container /\ ~StartContainer(s) =>
                 container[handlers[s].run] # "none"
           /\ DockerFails(s) => container[handlers[s].run] = "none"
<1>1. CASE container' # container /\ ~StartContainer(s)
  <2>1. StopContainer(s) \/ RemoveContainer(s)
    BY <1>1 DEF HandlerStep, Refuse, PrepareDirectory, PrepareMounts, MarkRunning, RecordRunning,
       DockerFails, MarkStopped, RecordStopped, ReopenFailed, BeginCommit, Publish, FailCommit,
       FailUpper, BeginDestroy, RemoveDirectory, RemovalFails, runtimeVars
  <2> QED
    BY <2>1 DEF StopContainer, RemoveContainer, DockerFails
<1>2. DockerFails(s) => container[handlers[s].run] = "none"
  BY DEF DockerFails
<1> QED
  BY <1>1, <1>2
\* A step of a call leaves a container only where its directory is in use.
LEMMA HandlerStepKeepsInUse ==
    ASSUME CallsInvariant, ContainersAreInUse, ~DockerMayFail, NEW s \in Slots, HandlerStep(s),
           NEW r \in Runs
    PROVE  IsInUse(r)'
<1>1. /\ LifecycleTypeOK /\ CallsAreWellFormed /\ PhasesServeCalls /\ StartsArePrepared
      /\ IsInUse(r) /\ CallIsQuiet(s)
  BY UseByParts DEF CallsInvariant
<1>2. /\ s # "recovery" /\ handlers[s] # NoHandler /\ handlers[s].run \in Runs
      /\ \A q \in Slots \ {s} : handlers'[q] = handlers[q]
      /\ UNCHANGED daemon
  BY <1>1, HandlerStepMoves
<1>3. daemon \notin {"down", "interrupted"}
  BY <1>2, CallsRunInPhases DEF Closing
<1>4. CASE r # handlers[s].run
  <2>1. local'[r] = local[r] /\ container'[r] = container[r] /\ runs'[r].state = Control(r)
    BY <1>1, <1>4, HandlerStepIsLocal, HandlerStepMovesItsRun
  <2>2. ASSUME NEW t \in Slots, At(t, "start", "mark"), handlers[t].run = r
        PROVE  At(t, "start", "mark")' /\ handlers'[t].run = r
    BY <1>2, <1>4, <2>2 DEF At
  <2> QED
    BY <1>1, <1>2, <2>1, <2>2 DEF IsInUse
<1>5. CASE r = handlers[s].run /\ StartContainer(s)
  <2>1. /\ Control(r) = "PREPARING" /\ local[r] = "PREPARED" /\ handlers[s].pc = "begin"
        /\ \A q \in Slots \ {s} : handlers[q].run # r
        /\ runs'[r].state = "PREPARING"
    BY <1>5, StartIsAlone DEF StartContainer, At, storeVars
  <2>2. container[r] = "none"
    BY <1>1, <1>3, <2>1 DEF IsInUse, At
  <2>3. IsUnresolved("PREPARING")
    BY DEF IsUnresolved, OpenStates
  <2>4. CASE Goto(s, "mark") /\ UNCHANGED local
    <3>1. handlers'[s].run = r /\ At(s, "start", "mark")'
      BY <1>1, <1>5, <2>4 DEF Goto, At, StartContainer, LifecycleTypeOK
    <3> QED
      BY <2>1, <2>3, <2>4, <3>1 DEF IsInUse
  <2>5. ASSUME NEW left \in {"none"}, container' = [container EXCEPT ![r] = left]
        PROVE  IsInUse(r)'
    BY <1>1, <2>5 DEF IsInUse, LifecycleTypeOK
  <2> QED
    BY <1>5, <2>4, <2>5 DEF StartContainer
<1>6. CASE r = handlers[s].run /\ MarkRunning(s)
  <2>1. local'[r] = "RUNNING" /\ container'[r] = container[r] /\ runs'[r].state = Control(r)
    BY <1>1, <1>6 DEF MarkRunning, SetLocal, LifecycleTypeOK, storeVars
  <2> QED
    BY <1>1, <2>1 DEF IsInUse
<1>7. ASSUME r = handlers[s].run, ~StartContainer(s), ~MarkRunning(s), container'[r] # "none"
      PROVE  IsInUse(r)'
  <2>1. container[r] # "none"
    BY <1>7, HandlerStepContainers
  <2>2. local[r] = "RUNNING" /\ IsUnresolved(Control(r))
    <3>1. ASSUME NEW t \in Slots, At(t, "start", "mark"), handlers[t].run = r
          PROVE  FALSE
      <4>1. t = s
        BY <1>7, <3>1, StartIsAlone
      <4> QED
        BY <1>1, <1>7, <3>1, <4>1
           DEF At, HandlerStep, Refuse, PrepareDirectory, PrepareMounts, RecordRunning,
               StopContainer, RemoveContainer, DockerFails, MarkStopped, RecordStopped,
               ReopenFailed, BeginCommit, Publish, FailCommit, FailUpper, BeginDestroy,
               RemoveDirectory, RemovalFails, Stops
    <3> QED
      BY <1>1, <1>3, <2>1, <3>1 DEF IsInUse
  <2>3. ~MarkStopped(s) /\ ~DockerFails(s) /\ ~Publish(s)
    <3>1. ~IsPastRemoval(handlers[s])
      BY <1>1, <1>7, <2>1 DEF CallIsQuiet
    <3>2. MarkStopped(s) => IsPastRemoval(handlers[s])
      BY <1>1, <1>2, CallIsKnown DEF MarkStopped, IsPastRemoval, IsCallStep, HandlerSteps, Calls
    <3> QED
      BY <1>7, <2>1, <3>1, <3>2, HandlerStepContainers DEF Publish, IsPastRemoval, At
  <2>4. local'[r] = "RUNNING"
    <3>1. ~PrepareMounts(s)
      BY <1>1, <1>7, <2>2 DEF PrepareMounts, StartsArePrepared
    <3> QED
      BY <1>1, <1>7, <2>2, <2>3, <3>1
         DEF HandlerStep, Refuse, PrepareDirectory, RecordRunning, StopContainer, RemoveContainer,
             RecordStopped, ReopenFailed, BeginCommit, FailCommit, FailUpper, BeginDestroy,
             RemoveDirectory, RemovalFails, SetLocal, LifecycleTypeOK, runtimeVars, Accepts
  <2>5. IsUnresolved(runs'[r].state)
    <3>1. CASE UNCHANGED storeVars
      BY <2>2, <3>1 DEF storeVars
    <3>2. CASE RecordRunning(s) \/ RecordStopped(s) \/ BeginCommit(s) \/ FailCommit(s)
      BY <1>7, <2>2, <3>2, RecordRunningMoves, RecordStoppedMoves, BeginCommitMoves,
         FailCommitMoves DEF RunsStay, RunMoves, RunIs, IsUnresolved, OpenStates
    <3> QED
      BY <1>7, <2>3, <3>1, <3>2
         DEF HandlerStep, Refuse, PrepareDirectory, PrepareMounts, StopContainer,
             RemoveContainer, ReopenFailed, FailUpper, BeginDestroy, RemoveDirectory, RemovalFails
  <2> QED
    BY <2>4, <2>5 DEF IsInUse
<1> QED
  BY <1>4, <1>5, <1>6, <1>7 DEF IsInUse

\* No call gets past the removal of a container that is still there.
LEMMA HandlerStepKeepsQuiet ==
    ASSUME CallsInvariant, ContainersAreInUse, ~DockerMayFail, NEW s \in Slots, HandlerStep(s),
           NEW q \in Slots
    PROVE  CallIsQuiet(q)'
<1>1. /\ LifecycleTypeOK /\ CallsAreWellFormed /\ PhasesServeCalls /\ StartsArePrepared
      /\ CallIsQuiet(s) /\ CallIsQuiet(q) /\ \A r \in Runs : IsInUse(r)
  BY UseByParts DEF CallsInvariant
<1> DEFINE r == handlers[s].run
<1>2. /\ s # "recovery" /\ handlers[s] # NoHandler /\ r \in Runs
      /\ \A t \in Slots \ {s} : handlers'[t] = handlers[t]
      /\ handlers'[s] = NoHandler \/ (handlers'[s].run = r /\ handlers'[s].op = handlers[s].op)
  BY <1>1, HandlerStepMoves
<1>3. \A p \in Runs : container[p] = "none" /\ container'[p] # "none" =>
         StartContainer(s) /\ p = r
  BY <1>1, <1>2, HandlerStepIsLocal, HandlerStepContainers
<1>4. CASE q # s
  <2>1. handlers'[q] = handlers[q] /\ (IsPastRemoval(handlers[q]) => handlers[q].run \in Runs)
    BY <1>1, <1>2, <1>4, CallIsKnown DEF IsPastRemoval, HandlerSteps
  <2>2. StartContainer(s) => handlers[q].run # r
    BY <1>4, StartIsAlone
  <2> QED
    BY <1>1, <1>3, <2>1, <2>2 DEF CallIsQuiet
<1>5. ASSUME q = s, IsPastRemoval(handlers'[s])
      PROVE  container'[r] = "none" /\ handlers'[s].run = r
  <2>1. NoHandler.op # "commit" /\ NoHandler.op \notin {"stop", "destroy", "preserve",
  "finalizeExited"}
    BY NoneIsNoStep DEF NoHandler, TaskSteps, Calls
  <2>2. handlers'[s] # NoHandler /\ handlers'[s].run = r /\ handlers'[s].op = handlers[s].op
    BY <1>2, <1>5, <2>1 DEF IsPastRemoval
  <2>3. \A answer : ~Reply(s, answer)
    BY <1>1, <2>2 DEF Reply, LifecycleTypeOK
  <2>4. \A pc : Goto(s, pc) => handlers'[s].pc = pc
    BY <1>1 DEF Goto, LifecycleTypeOK
  <2>5. ~StartContainer(s)
    BY <1>5, <2>2 DEF StartContainer, At, IsPastRemoval
  <2>6. CASE RemoveContainer(s)
    BY <1>1, <1>2, <2>2, <2>6 DEF RemoveContainer, LifecycleTypeOK
  <2>7. CASE MarkStopped(s)
    <3>1. IsPastRemoval(handlers[s])
      BY <1>1, <1>2, <2>7, CallIsKnown DEF MarkStopped, IsPastRemoval, IsCallStep, HandlerSteps,
         Calls
    <3> QED
      BY <1>1, <1>2, <1>3, <2>2, <2>5, <3>1 DEF CallIsQuiet
  <2>8. CASE BeginDestroy(s) \/ BeginCommit(s)
    <3>1. \A t \in Slots \ {s} : At(t, "start", "mark") => handlers[t].run # r
      BY StartIsAlone
    <3>2. ~At(s, "start", "mark") /\ local[r] # "RUNNING"
      BY <2>8 DEF BeginDestroy, BeginCommit, At, Accepts
    <3>3. daemon \notin {"down", "interrupted"}
      BY <1>2, CallsRunInPhases DEF Closing
    <3> QED
      BY <1>1, <1>2, <1>3, <2>2, <2>5, <3>1, <3>2, <3>3 DEF IsInUse
  <2> QED
    BY <1>5, <2>2, <2>3, <2>4, <2>5, <2>6, <2>7, <2>8
       DEF HandlerStep, Refuse, PrepareDirectory, PrepareMounts, MarkRunning, RecordRunning,
           StopContainer, DockerFails, RecordStopped, ReopenFailed, Publish, FailCommit,
           FailUpper, RemoveDirectory, RemovalFails, IsPastRemoval, At
<1> QED
  BY <1>4, <1>5 DEF CallIsQuiet

\* A destroy only answers ok when no container is left.
LEMMA HandlerStepKeepsTaskQuiet ==
    ASSUME CallsInvariant, ContainersAreInUse, ~DockerMayFail, NEW s \in Slots, HandlerStep(s)
    PROVE  TaskIsQuiet'
<1>1. /\ LifecycleTypeOK /\ CallsAreWellFormed /\ PhasesServeCalls
      /\ CallIsQuiet(s) /\ TaskIsQuiet /\ \A r \in Runs : IsInUse(r)
  BY UseByParts DEF CallsInvariant
<1> DEFINE r == handlers[s].run
           task == tasks["manager"]
<1>2. /\ s # "recovery" /\ handlers[s] # NoHandler /\ r \in Runs /\ UNCHANGED tasks
  BY <1>1, HandlerStepMoves
<1>3. \A p \in Runs : container[p] = "none" /\ container'[p] # "none" =>
         StartContainer(s) /\ p = r
  BY <1>1, <1>2, HandlerStepIsLocal, HandlerStepContainers
<1> SUFFICES ASSUME IsPastDestroy(task, replies'["manager"]) PROVE container'[task.run] = "none"
  BY <1>2 DEF TaskIsQuiet
<1>4. task.run \in Runs /\ task.op \notin Begins
  <2>1. task.pc \in TaskSteps /\ "manager" \in Drivers
    BY DEF IsPastDestroy, TaskSteps, Calls, Drivers
  <2> QED
    BY <1>1, <2>1, TaskIsKnown DEF IsPastDestroy, Begins, Waiters, Drops
<1>5. StartContainer(s) => task.run # r
  BY <1>4, StartIsAlone
<1>6. CASE IsPastDestroy(task, replies["manager"])
  BY <1>1, <1>3, <1>4, <1>5, <1>6 DEF TaskIsQuiet
<1>7. CASE ~IsPastDestroy(task, replies["manager"])
  <2>1. task.pc = "destroy" /\ replies'["manager"] = "ok" /\ replies["manager"] # "ok"
    BY <1>7 DEF IsPastDestroy
  <2>2. s = "manager" /\ Reply(s, "ok")
    <3>1. \A pc : ~Goto(s, pc)
      BY <2>1 DEF Goto
    <3>2. \A answer : Reply(s, answer) => s = "manager" /\ answer = "ok"
      BY <2>1 DEF Reply, Drivers
    <3>3. \E answer : Reply(s, answer)
      BY <2>1, <3>1 DEF HandlerStep, Refuse, PrepareDirectory, PrepareMounts, StartContainer,
         MarkRunning, RecordRunning, StopContainer, RemoveContainer, DockerFails, MarkStopped,
         RecordStopped, ReopenFailed, BeginCommit, Publish, FailCommit, FailUpper, BeginDestroy,
         RemoveDirectory, RemovalFails
    <3> QED
      BY <3>2, <3>3
  <2>3. handlers[s].op = "destroy" /\ r = task.run
    BY <1>1, <1>2, <2>1, <2>2 DEF CallsAreWellFormed, Drivers
  <2>4. ~Reply(s, "error")
    BY <2>1, <2>2 DEF Reply, Drivers
  <2>5. (BeginDestroy(s) /\ local[r] = "ABSENT") \/ RemoveDirectory(s)
    <3>1. \A pc : ~Goto(s, pc)
      BY <2>1 DEF Goto
    <3>2. ~RecordStopped(s)
      BY <1>1, <2>3, HandlerStepMoves DEF RecordStopped, IsCallStep
    <3> QED
      BY <2>3, <2>4, <3>1, <3>2 DEF HandlerStep, Refuse, PrepareDirectory, PrepareMounts,
         StartContainer,
         MarkRunning, RecordRunning, StopContainer, RemoveContainer, DockerFails, MarkStopped,
         RecordStopped, ReopenFailed, BeginCommit, Publish, FailCommit, FailUpper, BeginDestroy,
         RemovalFails, At, Stops
  <2>6. CASE BeginDestroy(s) /\ local[r] = "ABSENT"
    BY <1>1, <1>2, <2>3, <2>6 DEF IsInUse, BeginDestroy
  <2>7. CASE RemoveDirectory(s)
    BY <1>1, <2>3, <2>7 DEF CallIsQuiet, RemoveDirectory, IsPastRemoval
  <2> QED
    BY <2>5, <2>6, <2>7
<1> QED
  BY <1>6, <1>7
\* The steps that leave the directories, the containers and the calls past "begin" alone.
LEMMA MovingKeepsUse ==
    ASSUME CallsInvariant, ContainersAreInUse, UNCHANGED <<local, container>>,
           \/ daemon \notin {"down", "interrupted"}
           \/ daemon' \in {"down", "interrupted"}
           \/ \A r \in Runs : local[r] # "PREPARED",
           \A q \in Slots : handlers'[q] = handlers[q]
                            \/ (~At(q, "start", "mark") /\ ~IsPastRemoval(handlers'[q])),
           \A r \in Runs : container[r] # "none" /\ IsUnresolved(Control(r)) =>
                              IsUnresolved(runs'[r].state),
           TaskIsQuiet'
    PROVE  ContainersAreInUse'
<1>1. (\A r \in Runs : IsInUse(r)) /\ (\A s \in Slots : CallIsQuiet(s))
  BY UseByParts
<1>2. ASSUME NEW r \in Runs
      PROVE  IsInUse(r)'
  <2>1. ASSUME NEW s \in Slots, At(s, "start", "mark"), handlers[s].run = r
        PROVE  At(s, "start", "mark")' /\ handlers'[s].run = r
    BY <2>1 DEF At
  <2> QED
    BY <1>1, <2>1 DEF IsInUse
<1>3. \A q \in Slots : CallIsQuiet(q)'
  BY <1>1 DEF CallIsQuiet
<1> QED
  BY <1>2, <1>3, UseByParts

\* What an operation does next does not reach past the destroy of its container.
LEMMA ManagerKeepsTaskQuiet ==
    ASSUME CallsInvariant, ContainersAreInUse,
           \/ \E d \in Drivers : TaskStep(d)
           \/ ManagerStep \/ RequestStep \/ Background
    PROVE  TaskIsQuiet'
<1>1. /\ LifecycleTypeOK /\ CallsAreWellFormed /\ InductiveInvariant /\ RunsAreTheInstances
      /\ TaskIsQuiet
  BY UseByParts DEF CallsInvariant
<1>2. UNCHANGED container
  BY DEF TaskStep, Call, Answered, FailRun, RecordReason,
     ManagerStep, SetIntent, DiscardRow, Restart, RequestStep, Start, StartRefused, UserStop,
     OpenInstance, PublishFailedUpper, DiscardFailedUpper, FailStartup, Background, SeeExit,
     FinalizeExited, EndReadinessWait, runtimeVars
<1>3. "manager" \in Drivers /\ Drivers = {"manager", "shutdown"}
  BY DEF Drivers
<1> DEFINE task == tasks["manager"]
<1>4. ASSUME tasks'["manager"] = task, replies'["manager"] = "ok" => replies["manager"] = "ok"
      PROVE  TaskIsQuiet'
  BY <1>1, <1>2, <1>4 DEF TaskIsQuiet, IsPastDestroy
<1>5. ASSUME TaskBecomes("manager", NoTask)
      PROVE  TaskIsQuiet'
  BY <1>5, NoneIsNoStep DEF TaskBecomes, TaskIsQuiet, IsPastDestroy, NoTask, TaskSteps, Calls
<1>6. ASSUME NEW pc, GoesOn("manager", pc), replies'["manager"] # "ok",
             \/ pc \notin {"fail", "intent", "discard"}
             \/ task.op \notin Waiters \cup Drops
             \/ IsPastDestroy(task, replies["manager"])
      PROVE  TaskIsQuiet'
  <2>1. /\ tasks'["manager"].op = task.op /\ tasks'["manager"].run = task.run
        /\ tasks'["manager"].pc = pc
    BY <1>6 DEF GoesOn, TaskBecomes
  <2> QED
    BY <1>1, <1>2, <1>6, <2>1 DEF TaskIsQuiet, IsPastDestroy
<1>7. ASSUME NEW op, NEW r, NEW pc, BecomesNew(op, r, pc), replies'["manager"] # "ok",
             pc \in {"prepareBwa", "destroy", "reason", "reopenFailed"}
             \/ (pc = "intent" /\ op \notin Waiters)
      PROVE  TaskIsQuiet'
  <2>1. tasks'["manager"].op = op /\ tasks'["manager"].pc = pc
    BY <1>7 DEF BecomesNew, TaskBecomes
  <2> QED
    BY <1>7, <2>1 DEF TaskIsQuiet, IsPastDestroy
<1>8. task.pc \notin Calls => replies["manager"] = "none"
  BY <1>1, <1>3, NoCallPending
<1>9. CASE \E d \in Drivers : Call(d)
  <2>1. PICK d \in Drivers : Call(d)
    BY <1>9
  <2>2. UNCHANGED tasks /\ (UNCHANGED replies \/ replies' = [replies EXCEPT ![d] = "error"])
    BY <2>1 DEF Call, managerVars
  <2> QED
    BY <1>1, <1>3, <1>4, <2>2 DEF LifecycleTypeOK
<1>10. ASSUME NEW d \in Drivers, Answered(d)
       PROVE  TaskIsQuiet'
  <2>1. /\ tasks[d].pc \in Calls /\ replies[d] \in {"ok", "error"}
        /\ replies' = [replies EXCEPT ![d] = "none"]
        /\ TaskBecomes(d, NoTask) \/ (NextStep(d) \in TaskSteps /\ GoesOn(d, NextStep(d)))
    BY <1>1, <1>10, AnsweredBecomes
  <2>2. CASE d # "manager"
    <3>1. tasks'["manager"] = task /\ replies'["manager"] = replies["manager"]
      BY <1>1, <1>3, <2>1, <2>2 DEF TaskBecomes, GoesOn, LifecycleTypeOK
    <3> QED
      BY <1>4, <3>1
  <2>3. CASE d = "manager" /\ GoesOn(d, NextStep(d))
    <3>1. replies'["manager"] = "none"
      BY <1>1, <2>1, <2>3 DEF LifecycleTypeOK
    <3>2. task.op \in Waiters \cup Drops => task.pc = "destroy"
      BY <1>1, <1>3, <2>1, <2>3, TaskIsKnown, LifecycleConstants
         DEF IsTaskStep, TaskSteps, Calls, Waiters, Drops, Begins
    <3>3. \/ NextStep(d) \notin {"fail", "intent", "discard"}
          \/ task.op \notin Waiters \cup Drops
          \/ IsPastDestroy(task, replies["manager"])
      BY <2>3, <3>2 DEF NextStep, AfterOk, AfterError, IsPastDestroy, Waiters, Drops
    <3> QED
      BY <1>6, <2>3, <3>1, <3>3
  <2> QED
    BY <1>5, <2>1, <2>2, <2>3
<1>11. ASSUME NEW d \in Drivers, FailRun(d) \/ RecordReason(d)
       PROVE  TaskIsQuiet'
  <2>1. UNCHANGED replies
    BY <1>11 DEF FailRun, RecordReason, callVars
  <2>2. CASE d # "manager"
    <3>1. tasks'["manager"] = task
      BY <1>1, <1>3, <1>11, <2>2, FailRunBecomes, RecordReasonBecomes DEF TaskBecomes, GoesOn
    <3> QED
      BY <1>4, <2>1, <3>1
  <2>3. CASE d = "manager" /\ FailRun(d)
    <3>1. task.pc \in {"fail", "failKept"} /\ replies'["manager"] # "ok"
      BY <1>1, <1>8, <1>11, <2>1, <2>3, FailRunBecomes DEF Calls
    <3>2. CASE GoesOn(d, IF task.pc = "fail" THEN "intent" ELSE "intentKept")
               /\ task.op \in Begins \cup Waiters
      <4>1. task.pc = "failKept" \/ task.op \notin Waiters \/ IsPastDestroy(task, replies["manager"])
        BY <3>1 DEF IsPastDestroy
      <4> QED
        BY <1>6, <2>3, <3>1, <3>2, <4>1 DEF Begins, Waiters, Drops
    <3> QED
      BY <1>1, <1>5, <2>3, <3>2, FailRunBecomes
  <2>4. CASE d = "manager" /\ RecordReason(d)
    <3>1. task.pc = "reason" /\ replies'["manager"] # "ok"
      BY <1>1, <1>8, <1>11, <2>1, <2>4, RecordReasonBecomes DEF Calls
    <3>2. task.op \notin Waiters \cup Drops
      BY <1>1, <1>3, <3>1, TaskIsKnown, LifecycleConstants
         DEF IsTaskStep, TaskSteps, Waiters, Drops, Begins
    <3> QED
      BY <1>1, <1>5, <1>6, <2>4, <3>1, <3>2, RecordReasonBecomes
  <2> QED
    BY <1>11, <2>2, <2>3, <2>4
<1>12. ASSUME ManagerStep \/ RequestStep \/ Background
       PROVE  UNCHANGED replies /\ (tasks'["manager"] = task \/ task.pc \notin Calls)
  <2>1. UNCHANGED replies
    BY <1>12 DEF ManagerStep, SetIntent, DiscardRow, Restart, RequestStep, Start, StartRefused,
       UserStop, OpenInstance, PublishFailedUpper, DiscardFailedUpper, FailStartup, Background,
       SeeExit, FinalizeExited, EndReadinessWait, callVars
  <2>2. NoTask.pc \notin Calls
    BY NoneIsNoStep DEF NoTask, TaskSteps
  <2>3. CASE ManagerStep
    <3>1. task.pc \in {"create", "intent", "intentKept", "discard"}
      BY <2>3 DEF ManagerStep, SetIntent, DiscardRow, Restart
    <3> QED
      BY <2>1, <3>1 DEF Calls
  <2>4. CASE RequestStep \/ Background
    <3>1. UNCHANGED tasks \/ Idle("manager")
      BY <2>4 DEF RequestStep, Start, StartRefused, LockIsFree,
         UserStop, OpenInstance, PublishFailedUpper, DiscardFailedUpper, FailStartup, Background,
         SeeExit, FinalizeExited, EndReadinessWait
    <3> QED
      BY <2>1, <2>2, <3>1 DEF Idle
  <2> QED
    BY <1>12, <2>1, <2>3, <2>4
<1>13. CASE ManagerStep
  <2>1. replies'["manager"] # "ok"
    BY <1>8, <1>13 DEF ManagerStep, SetIntent, DiscardRow, Restart, callVars, Calls
  <2>2. CASE Restart \/ DiscardRow
    BY <1>1, <1>5, <1>7, <2>1, <2>2, RestartBecomes, DiscardRowBecomes
  <2>3. CASE SetIntent
    <3>1. ASSUME GoesOn("manager", AfterIntent(task)),
                 \/ task.op \in {"EXITED", "USER_STOP"}
                 \/ task.op \in Waiters /\ task.pc = "intent"
          PROVE  TaskIsQuiet'
      <4>1. task.op \in Waiters => IsPastDestroy(task, replies["manager"])
        BY <3>1 DEF IsPastDestroy, Waiters
      <4> QED
        BY <1>6, <2>1, <3>1, <4>1 DEF Waiters, Drops
    <3> QED
      BY <1>1, <1>5, <2>3, <3>1, SetIntentBecomes
  <2> QED
    BY <1>13, <2>2, <2>3 DEF ManagerStep
<1>14. CASE RequestStep \/ Background
  <2>1. CASE tasks'["manager"] = task
    BY <1>4, <1>12, <1>14, <2>1
  <2>2. CASE tasks'["manager"] # task
    <3>1. replies'["manager"] # "ok"
      BY <1>8, <1>12, <1>14, <2>2
    <3>2. CASE RequestStep
      <4>1. ASSUME NEW r \in Runs, StartRefused(r) \/ OpenInstance(r)
            PROVE  UNCHANGED tasks
        BY <4>1 DEF StartRefused, OpenInstance
      <4> QED
        BY <1>1, <1>7, <2>2, <3>1, <3>2, <4>1, StartBecomes, UserStopBecomes,
           PublishFailedUpperBecomes, DiscardFailedUpperBecomes, FailStartupBecomes
           DEF RequestStep, Drops, Waiters
    <3>3. CASE Background
      <4>1. ASSUME NEW r \in Runs, SeeExit(r) \/ \E waiter \in Waiters : EndReadinessWait(r, waiter)
            PROVE  UNCHANGED tasks
        BY <4>1 DEF SeeExit, EndReadinessWait
      <4> QED
        BY <1>1, <1>7, <2>2, <3>1, <3>3, <4>1, FinalizeExitedBecomes, DiscardFailedUpperBecomes
           DEF Background, Drops
    <3> QED
      BY <1>14, <3>2, <3>3
  <2> QED
    BY <2>1, <2>2
<1> QED
  BY <1>9, <1>10, <1>11, <1>13, <1>14 DEF TaskStep
\* The manager resolves no Run that has a container.
LEMMA ManagerKeepsUse ==
    ASSUME CallsInvariant, ContainersAreInUse,
           \/ \E d \in Drivers : TaskStep(d)
           \/ ManagerStep \/ RequestStep \/ Background
    PROVE  ContainersAreInUse'
<1>1. /\ LifecycleTypeOK /\ CallsAreWellFormed /\ TypeOK /\ RunsAreTheInstances /\ TaskIsQuiet
  BY UseByParts DEF CallsInvariant, InductiveInvariant
<1>2. UNCHANGED <<local, container, daemon>>
  BY DEF TaskStep, Call, Answered, FailRun, RecordReason,
     ManagerStep, SetIntent, DiscardRow, Restart, RequestStep, Start, StartRefused, UserStop,
     OpenInstance, PublishFailedUpper, DiscardFailedUpper, FailStartup, Background, SeeExit,
     FinalizeExited, EndReadinessWait, runtimeVars, daemonVars
<1>3. \A q \in Slots : handlers'[q] = handlers[q]
                       \/ (~At(q, "start", "mark") /\ ~IsPastRemoval(handlers'[q]))
  <2>1. ASSUME NEW d \in Drivers, Call(d), NEW q \in Slots, handlers'[q] # handlers[q]
        PROVE  ~At(q, "start", "mark") /\ ~IsPastRemoval(handlers'[q])
    <3>1. handlers[q] = NoHandler /\ handlers'[q].pc = "begin"
      BY <1>1, <2>1 DEF Call, LifecycleTypeOK, Slots
    <3> QED
      BY <3>1, NoneIsNoStep DEF NoHandler, At, IsPastRemoval, TaskSteps, Calls
  <2>2. UNCHANGED handlers \/ \E d \in Drivers : Call(d)
    BY DEF TaskStep, Answered, FailRun, RecordReason, ManagerStep, SetIntent, DiscardRow,
       Restart, RequestStep, Start, StartRefused, UserStop, OpenInstance, PublishFailedUpper,
       DiscardFailedUpper, FailStartup, Background, SeeExit, FinalizeExited, EndReadinessWait,
       callVars
  <2> QED
    BY <2>1, <2>2
<1>4. \A r \in Runs : container[r] # "none" /\ IsUnresolved(Control(r)) =>
                         IsUnresolved(runs'[r].state)
  <2>1. CASE UNCHANGED storeVars
    BY <2>1 DEF storeVars
  <2>2. ASSUME NEW d \in Drivers, FailRun(d) \/ RecordReason(d), NEW r \in Runs,
  IsUnresolved(Control(r))
        PROVE  IsUnresolved(runs'[r].state)
    BY <2>2, FailRunMoves, RecordReasonMoves DEF RunsStay, RunMoves, RunIs, IsUnresolved
  <2>3. CASE SetIntent
    BY <2>3, SetIntentMoves DEF RunsStay, RunIs
  <2>4. ASSUME DiscardRow, NEW r \in Runs, container[r] # "none", IsUnresolved(Control(r))
        PROVE  IsUnresolved(runs'[r].state)
    <3>1. tasks["manager"].pc = "discard" /\ "manager" \in Drivers
      BY <2>4 DEF DiscardRow, Drivers
    <3>2. tasks["manager"].op \in Waiters \cup Drops
      BY <1>1, <3>1, TaskIsKnown DEF TaskSteps, IsTaskStep
    <3>3. tasks["manager"].run # r
      BY <1>1, <2>4, <3>1, <3>2 DEF TaskIsQuiet, IsPastDestroy
    <3> QED
      BY <2>4, <3>3, DiscardRowMoves DEF RunsStay, RunMoves, RunIs
  <2>5. ASSUME NEW q \in Runs, CreateBwaWorkspaceRun(q, TheInstance), NEW r \in Runs,
               IsUnresolved(Control(r))
        PROVE  IsUnresolved(runs'[r].state)
    BY <1>1, <2>5, CreateRunMoves DEF IsUnresolved, OpenStates
  <2>6. ASSUME NEW q \in Runs, ReopenFailedWorkspaceRun(q), NEW r \in Runs, IsUnresolved(Control(r))
        PROVE  IsUnresolved(runs'[r].state)
    BY <1>1, <2>6, ReopenMoves DEF RunMoves, RunIs, IsUnresolved, OpenStates
  <2> QED
    BY <2>1, <2>2, <2>3, <2>4, <2>5, <2>6
       DEF TaskStep, Call, Answered, ManagerStep, Restart, RequestStep, Start, StartRefused,
           UserStop, OpenInstance, PublishFailedUpper, DiscardFailedUpper, FailStartup,
           Background, SeeExit, FinalizeExited, EndReadinessWait, CreateRun
<1>5. TaskIsQuiet'
  BY ManagerKeepsTaskQuiet
<1> QED
  BY <1>2, <1>3, <1>4, <1>5, MovingKeepsUse

\* While the daemon recovers it serves no call, and what it recovers has no container left.
LEMMA RecoveryKeepsUse ==
    ASSUME CallsInvariant, ContainersAreInUse, Recovery
    PROVE  ContainersAreInUse'
<1>1. /\ LifecycleTypeOK /\ CallsAreWellFormed /\ PhasesServeCalls /\ DirectoriesAreKnown
      /\ (\A r \in Runs : IsInUse(r)) /\ TaskIsQuiet
  BY UseByParts DEF CallsInvariant
<1>2. daemon \in {"down"} \cup Recovering /\ UNCHANGED <<tasks, replies>>
  BY DEF Recovery, StartDaemon, NextPhase, RecoveryFails, RecoverInterrupted, RecoverControl,
     RecoverStopped, RecoverStoppedControl, RecoverIntent, Recovering, managerVars, callVars
<1>3. \A q \in Slots : /\ handlers[q].op \notin Calls
                       /\ handlers'[q].op \notin Calls
  <2>1. \A q \in Slots \ {"recovery"} : handlers'[q] = handlers[q] /\ handlers[q] = NoHandler
    <3>1. \A q \in Slots \ {"recovery"} : handlers'[q] = handlers[q]
      BY <1>1 DEF Recovery, StartDaemon, NextPhase, RecoveryFails, RecoverInterrupted,
         RecoverControl, RecoverStopped, RecoverStoppedControl, RecoverIntent,
         callVars, LifecycleTypeOK
    <3> QED
      BY <1>2, <3>1, CallsRunInPhases DEF Recovering, Closing
  <2>2. handlers["recovery"].op = None /\ handlers'["recovery"].op = None
    <3>1. handlers["recovery"].op = None /\ "recovery" \in Slots
      BY <1>1 DEF CallsAreWellFormed, NoHandler, Slots
    <3>2. UNCHANGED handlers \/ handlers' = [handlers EXCEPT !["recovery"] = NoHandler]
          \/ \E r \in Runs : RecoverStopped(r)
      BY DEF Recovery, StartDaemon, NextPhase, RecoveryFails, RecoverInterrupted,
         RecoverControl, RecoverStopped, RecoverStoppedControl, RecoverIntent, callVars
    <3> QED
      BY <1>1, <3>1, <3>2 DEF NoHandler, LifecycleTypeOK, RecoverStopped
  <2> QED
    BY <2>1, <2>2, NoneIsNoStep DEF NoHandler, TaskSteps
<1>4. \A q \in Slots : ~At(q, "start", "mark") /\ ~IsPastRemoval(handlers'[q])
  BY <1>3 DEF At, IsPastRemoval, Calls
<1>5. CASE StartDaemon \/ NextPhase \/ RecoveryFails
  <2>1. UNCHANGED <<local, container, runs>>
    BY <1>5 DEF StartDaemon, NextPhase, RecoveryFails, runtimeVars, storeVars
  <2>2. \/ daemon \notin {"down", "interrupted"} \/ daemon' \in {"down", "interrupted"}
        \/ \A r \in Runs : local[r] # "PREPARED"
    BY <1>5 DEF StartDaemon, NextPhase, RecoveryFails, Interrupted
  <2>3. TaskIsQuiet'
    BY <1>1, <1>2, <2>1 DEF TaskIsQuiet
  <2> QED
    BY <1>4, <2>1, <2>2, <2>3, MovingKeepsUse
<1>6. ASSUME NEW r \in Runs, RecoverInterrupted(r)
      PROVE  ContainersAreInUse'
  <2>1. /\ container'[r] = "none"
        /\ \A q \in Runs \ {r} : container'[q] = container[q] /\ local'[q] = local[q]
        /\ daemon = "interrupted" /\ UNCHANGED <<runs, daemon>>
    BY <1>1, <1>6 DEF RecoverInterrupted, SetLocal, LifecycleTypeOK, storeVars, daemonVars
  <2>2. \A q \in Runs : IsInUse(q)'
    BY <1>1, <2>1 DEF IsInUse
  <2>3. \A s \in Slots : CallIsQuiet(s)'
    BY <1>4 DEF CallIsQuiet
  <2>4. TaskIsQuiet'
    <3>1. IsPastDestroy(tasks["manager"], replies["manager"]) => tasks["manager"].run \in Runs
      BY <1>1, TaskIsKnown DEF IsPastDestroy, TaskSteps, Calls, Drivers
    <3> QED
      BY <1>1, <1>2, <2>1, <3>1 DEF TaskIsQuiet
  <2> QED
    BY <2>2, <2>3, <2>4, UseByParts
<1>7. CASE (\E r \in Runs : RecoverControl(r) \/ RecoverStopped(r))
           \/ RecoverStoppedControl \/ RecoverIntent
  <2>1. daemon \in {"control", "host"} /\ UNCHANGED container
    BY <1>7 DEF RecoverControl, RecoverStopped, RecoverStoppedControl, RecoverIntent, runtimeVars
  <2>2. \A r \in Runs : container'[r] = "none"
    BY <1>1, <1>4, <2>1 DEF DirectoriesAreKnown, Interrupted, Recovering, IsInUse
  <2>3. (\A r \in Runs : IsInUse(r)') /\ (\A s \in Slots : CallIsQuiet(s)')
    BY <1>4, <2>2 DEF IsInUse, CallIsQuiet
  <2>4. TaskIsQuiet'
    BY <1>1, <1>2, <2>1 DEF TaskIsQuiet
  <2> QED
    BY <2>3, <2>4, UseByParts
<1> QED
  BY <1>5, <1>6, <1>7 DEF Recovery

\* A daemon that exits leaves no container; one that crashes leaves it to the recovery.
LEMMA DaemonKeepsUse ==
    ASSUME CallsInvariant, ContainersAreInUse, ~DockerMayFail,
           \/ CloseDaemon \/ SaveInstances \/ ExitDaemon
           \/ \E r \in Runs : ContainerExits(r)
           \/ CrashDaemon \/ CrashManager
    PROVE  ContainersAreInUse'
<1>1. /\ LifecycleTypeOK /\ CallsAreWellFormed /\ PhasesServeCalls /\ DirectoriesAreKnown
      /\ (\A r \in Runs : IsInUse(r)) /\ (\A s \in Slots : CallIsQuiet(s)) /\ TaskIsQuiet
  BY UseByParts DEF CallsInvariant
<1>2. UNCHANGED runs
  BY DEF CloseDaemon, SaveInstances, ExitDaemon, ContainerExits, CrashDaemon, CrashManager,
     storeVars
<1>3. /\ IsPastDestroy(tasks["manager"], replies["manager"]) => tasks["manager"].run \in Runs
      /\ \A s \in Slots : IsPastRemoval(handlers[s]) => handlers[s].run \in Runs
  BY <1>1, TaskIsKnown, CallIsKnown
     DEF IsPastDestroy, IsPastRemoval, TaskSteps, Calls, HandlerSteps, Drivers
<1>4. NoHandler.op \notin Calls /\ ~IsPastRemoval(NoHandler) /\ ~IsPastDestroy(NoTask, "none")
  BY NoneIsNoStep
     DEF NoHandler, NoTask, IsPastRemoval, IsPastDestroy, TaskSteps, Calls, Waiters, Drops
<1>5. CASE CloseDaemon \/ SaveInstances
  <2>1. /\ UNCHANGED <<local, container, handlers, replies>>
        /\ daemon \notin {"down", "interrupted"}
        /\ tasks'["manager"] = tasks["manager"]
    <3>1. CASE CloseDaemon
      BY <3>1 DEF CloseDaemon, runtimeVars, callVars, managerVars
    <3>2. CASE SaveInstances
      <4>1. UNCHANGED <<local, container, handlers, replies>> /\ daemon = "closing"
        BY <3>2 DEF SaveInstances, runtimeVars, callVars
      <4>2. tasks'["manager"] = tasks["manager"]
        BY <1>1, <3>2, SaveInstancesBecomes DEF TaskBecomes, Drivers
      <4> QED
        BY <4>1, <4>2
    <3> QED
      BY <1>5, <3>1, <3>2
  <2>2. TaskIsQuiet'
    BY <1>1, <2>1 DEF TaskIsQuiet
  <2>3. \A q \in Slots : handlers'[q] = handlers[q]
    BY <2>1
  <2>4. \A r \in Runs : IsUnresolved(Control(r)) => IsUnresolved(runs'[r].state)
    BY <1>2
  <2> QED
    BY <2>1, <2>2, <2>3, <2>4, MovingKeepsUse
<1>6. ASSUME \A r \in Runs : container[r] = "none" => container'[r] = "none",
             UNCHANGED handlers, tasks'["manager"] = tasks["manager"],
             replies'["manager"] = replies["manager"]
      PROVE  TaskIsQuiet' /\ \A s \in Slots : CallIsQuiet(s)'
  BY <1>1, <1>3, <1>6 DEF TaskIsQuiet, CallIsQuiet
<1>7. CASE ExitDaemon
  <2>1. \A r \in Runs : container'[r] = IF r \in launches /\ local[r] \in {"PREPARED", "RUNNING"}
                                          THEN "none" ELSE container[r]
    BY <1>7 DEF ExitDaemon
  <2>2. daemon = "saving" /\ UNCHANGED <<handlers, tasks, replies>>
    BY <1>7 DEF ExitDaemon, callVars, managerVars
  <2>3. ASSUME NEW r \in Runs
        PROVE  container'[r] = "none"
    BY <1>1, <2>1, <2>2, <2>3 DEF DirectoriesAreKnown, Closing, IsInUse, Interrupted
  <2> QED
    BY <1>6, <2>2, <2>3, UseByParts DEF IsInUse
<1>8. ASSUME NEW r \in Runs, ContainerExits(r)
      PROVE  ContainersAreInUse'
  <2>1. /\ container[r] = "running" /\ UNCHANGED <<handlers, tasks, replies, local, daemon>>
        /\ \A q \in Runs \ {r} : container'[q] = container[q]
    BY <1>1, <1>8 DEF ContainerExits, callVars, managerVars, LifecycleTypeOK, daemonVars
  <2>2. \A q \in Runs : IsInUse(q)'
    BY <1>1, <1>2, <2>1 DEF IsInUse, At
  <2> QED
    BY <1>6, <2>1, <2>2, UseByParts
<1>9. CASE CrashDaemon
  <2>1. /\ UNCHANGED container /\ daemon' = "down" /\ handlers' = [s \in Slots |-> NoHandler]
        /\ tasks' = [tasks EXCEPT !["shutdown"] = NoTask]
        /\ replies' = [d \in Drivers |->
             IF d = "manager" /\ handlers[d] # NoHandler THEN "error"
             ELSE IF d = "shutdown" THEN "none" ELSE replies[d]]
    BY <1>9 DEF CrashDaemon
  <2>2. ASSUME NEW r \in Runs, container[r] # "none"
        PROVE  local'[r] = local[r]
    <3>1. ~TornBy(r)
      BY <1>1, <2>2 DEF TornBy, At, CallIsQuiet, IsPastRemoval
    <3> QED
      BY <1>9, <3>1 DEF CrashDaemon
  <2>3. \A r \in Runs : IsInUse(r)'
    BY <1>1, <1>2, <2>1, <2>2 DEF IsInUse
  <2>4. \A s \in Slots : CallIsQuiet(s)'
    BY <1>4, <2>1 DEF CallIsQuiet
  <2>5. tasks'["manager"] = tasks["manager"] /\ (replies'["manager"] = "ok" => replies["manager"] = "ok")
    BY <1>1, <2>1 DEF LifecycleTypeOK, Drivers
  <2>6. TaskIsQuiet'
    BY <1>1, <2>1, <2>5 DEF TaskIsQuiet, IsPastDestroy
  <2> QED
    BY <2>3, <2>4, <2>6, UseByParts
<1>10. CASE CrashManager
  <2>1. /\ UNCHANGED <<local, container, daemon>>
        /\ handlers' = [handlers EXCEPT
             !["orphan"]  = IF @ = NoHandler THEN handlers["manager"] ELSE @,
             !["manager"] = NoHandler]
        /\ tasks' = [tasks EXCEPT !["manager"] = NoTask]
        /\ replies' = [replies EXCEPT !["manager"] = "none"]
        /\ handlers["orphan"] = NoHandler \/ handlers["manager"] = NoHandler
    BY <1>10 DEF CrashManager, runtimeVars, daemonVars
  <2>2. /\ handlers'["manager"] = NoHandler
        /\ handlers'["orphan"] = IF handlers["orphan"] = NoHandler THEN handlers["manager"]
                                                                   ELSE handlers["orphan"]
        /\ handlers'["shutdown"] = handlers["shutdown"]
        /\ handlers'["recovery"] = handlers["recovery"]
        /\ Slots = {"manager", "shutdown", "orphan", "recovery"}
    BY <1>1, <2>1 DEF LifecycleTypeOK, Slots, Drivers
  <2>3. ASSUME NEW s \in Slots, handlers[s] # NoHandler
        PROVE  \E t \in Slots : handlers'[t] = handlers[s]
    BY <2>1, <2>2, <2>3
  <2>4. ASSUME NEW t \in Slots
        PROVE  handlers'[t] = NoHandler \/ \E s \in Slots : handlers'[t] = handlers[s]
    BY <2>2, <2>4
  <2>5. \A s \in Slots : CallIsQuiet(s)'
    BY <1>1, <1>4, <2>1, <2>4 DEF CallIsQuiet
  <2>6. ASSUME NEW r \in Runs
        PROVE  IsInUse(r)'
    <3>1. ASSUME NEW s \in Slots, At(s, "start", "mark"), handlers[s].run = r
          PROVE  \E t \in Slots : At(t, "start", "mark")' /\ handlers'[t].run = r
      <4>1. handlers[s] # NoHandler
        BY <1>4, <3>1 DEF At, Calls
      <4> QED
        BY <2>3, <3>1, <4>1 DEF At
    <3> QED
      BY <1>1, <1>2, <2>1, <3>1 DEF IsInUse
  <2>7. TaskIsQuiet'
    <3>1. tasks'["manager"] = NoTask /\ replies'["manager"] = "none"
      BY <1>1, <2>1 DEF LifecycleTypeOK, Drivers
    <3> QED
      BY <1>4, <3>1 DEF TaskIsQuiet
  <2> QED
    BY <2>5, <2>6, <2>7, UseByParts
<1> QED
  BY <1>5, <1>7, <1>8, <1>9, <1>10

\* Every step keeps ContainersAreInUse.
LEMMA StepUse ==
    ASSUME CallsInvariant, ContainersAreInUse, ~DockerMayFail, [LifecycleNext]_lifecycleVars
    PROVE  ContainersAreInUse'
<1>1. CASE \E s \in Slots : HandlerStep(s)
  BY <1>1, HandlerStepKeepsInUse, HandlerStepKeepsQuiet, HandlerStepKeepsTaskQuiet, UseByParts
<1>2. CASE UNCHANGED lifecycleVars
  <2>1. UNCHANGED <<runs, local, container, daemon, handlers, tasks, replies>>
    BY <1>2 DEF lifecycleVars, storeVars, runtimeVars, callVars, managerVars, daemonVars
  <2> QED
    BY <2>1 DEF ContainersAreInUse, At
<1> QED
  BY <1>1, <1>2, ManagerKeepsUse, RecoveryKeepsUse, DaemonKeepsUse DEF LifecycleNext
-----------------------------------------------------------------------------
\* The second half of the argument: where the containers are.  DockerMayFail is
\* the only thing assumed away: a docker stop or docker rm that fails leaves a
\* container behind that nobody looks for any more.

\* At first there is no container.
THEOREM LifecycleInitEstablishesUse == LifecycleInit => ContainersAreInUse
<1> SUFFICES ASSUME LifecycleInit PROVE ContainersAreInUse
  OBVIOUS
<1>1. \A r \in Runs : container[r] = "none"
  BY DEF LifecycleInit
<1>2. handlers = [s \in Slots |-> NoHandler] /\ tasks["manager"] = NoTask
  BY DEF LifecycleInit, Drivers
<1> QED
  BY <1>1, <1>2, NoneIsNoStep DEF ContainersAreInUse, NoHandler, NoTask, At, TaskSteps, Calls,
     Waiters, Drops

\* In every state each container belongs to a Run that its directory and its row
\* account for, and whoever stops, scans or drops an Upper has none left of it.
THEOREM ContainersInUseHolds ==
    ASSUME ~DockerMayFail
    PROVE  LifecycleSpec => [](CallsInvariant /\ ContainersAreInUse)
<1>1. LifecycleInit => CallsInvariant /\ ContainersAreInUse
  BY LifecycleInitEstablishesCalls, LifecycleInitEstablishesUse
<1>2. CallsInvariant /\ ContainersAreInUse /\ [LifecycleNext]_lifecycleVars =>
         CallsInvariant' /\ ContainersAreInUse'
  BY LifecycleNextPreservesCalls, StepUse
<1> QED
  BY <1>1, <1>2, PTL DEF LifecycleSpec

\* Two containers never write Uppers of the same Workspace, whichever of the
\* programs crashed before and however often.
THEOREM OneContainerHolds ==
    ASSUME ~DockerMayFail
    PROVE  LifecycleSpec => []OneContainer
<1>1. ASSUME CallsInvariant, ContainersAreInUse
      PROVE  OneContainer
  <2> SUFFICES ASSUME NEW r \in Runs, NEW q \in Runs, container[r] # "none", container[q] # "none"
               PROVE  r = q
    BY DEF OneContainer
  <2>1. IsUnresolved(Control(r)) /\ IsUnresolved(Control(q))
    BY <1>1 DEF ContainersAreInUse
  <2>2. runs[r].workspace = runs[q].workspace
    BY <1>1, <2>1, NamesAreDistinct
       DEF CallsInvariant, RunsAreTheInstances, IsUnresolved, OpenStates, RunState
  <2> QED
    BY <1>1, <2>1, <2>2 DEF CallsInvariant, InductiveInvariant, OneUnresolvedRunPerWorkspace
<1>2. CallsInvariant /\ ContainersAreInUse => OneContainer
  BY <1>1
<1> QED
  BY <1>2, ContainersInUseHolds, PTL

\* While the daemon serves calls, a running container is one it knows of and can stop.
THEOREM LifecycleInvariantHolds ==
    ASSUME ~DockerMayFail
    PROVE  LifecycleSpec => []LifecycleInvariant
<1>1. ASSUME CallsInvariant, ContainersAreInUse
      PROVE  LifecycleInvariant
  <2>1. LifecycleTypeOK /\ DirectoriesAreKnown
    BY <1>1 DEF CallsInvariant
  <2>2. ASSUME NEW r \in Runs, daemon = "up", container[r] = "running"
        PROVE  r \in launches /\ local[r] \in {"PREPARED", "RUNNING"}
    <3>1. local[r] \in {"PREPARED", "RUNNING"}
      BY <1>1, <2>2 DEF ContainersAreInUse
    <3> QED
      BY <2>1, <2>2, <3>1 DEF DirectoriesAreKnown, Interrupted
  <2> QED
    BY <1>1, <2>1, <2>2
       DEF CallsInvariant, RecoveryGoesByItsList, LifecycleInvariant, ContainerIsKnown
<1>2. CallsInvariant /\ ContainersAreInUse => LifecycleInvariant
  BY <1>1
<1> QED
  BY <1>2, ContainersInUseHolds, PTL

\* Nothing can write an Upper any more while it is scanned and published.
THEOREM CommitScansAQuietUpperHolds ==
    ASSUME ~DockerMayFail
    PROVE  LifecycleSpec => []CommitScansAQuietUpper
<1>1. CallsInvariant /\ ContainersAreInUse => CommitScansAQuietUpper
  BY DEF CallsInvariant, DropsOnlyCommitted, DirectoriesAreKnown, ContainersAreInUse,
     CommitScansAQuietUpper
<1> QED
  BY <1>1, ContainersInUseHolds, PTL

\* When the daemon serves calls again, no container and no Run is left that only
\* the crashed one knew of, although each pass of its recovery went by a list that
\* the manager has worked against since.
THEOREM RecoveryReachesAVerdictHolds ==
    ASSUME ~DockerMayFail
    PROVE  LifecycleSpec => RecoveryReachesAVerdict
<1> DEFINE Verdict ==
      daemon # "up" /\ daemon' = "up" =>
         \A r \in Runs : /\ container[r] = "none"
                         /\ local[r] \notin Interrupted
                         /\ Control(r) \notin {"RUNNING", "COMMITTING"}
                         /\ Control(r) = "STOPPED" => r \in recovery.reopened
<1>1. ASSUME CallsInvariant, ContainersAreInUse, LifecycleNext, daemon # "up", daemon' = "up",
             NEW r \in Runs
      PROVE  /\ container[r] = "none" /\ local[r] \notin Interrupted
             /\ Control(r) \notin {"RUNNING", "COMMITTING"}
             /\ Control(r) = "STOPPED" => r \in recovery.reopened
  <2>1. /\ LifecycleTypeOK /\ CallsAreWellFormed /\ DirectoriesAreKnown
        /\ RecoveryGoesByItsList /\ PhasesServeCalls
    BY <1>1 DEF CallsInvariant
  <2>2. NextPhase
    <3>1. ASSUME NEW s \in Slots, HandlerStep(s) PROVE FALSE
      BY <1>1, <2>1, <3>1, HandlerStepMoves
    <3>2. ~CloseDaemon /\ ~SaveInstances /\ ~ExitDaemon /\ ~CrashDaemon /\ ~CrashManager
      BY <1>1 DEF CloseDaemon, SaveInstances, ExitDaemon, CrashDaemon, CrashManager, daemonVars
    <3>3. ~(\E q \in Runs : ContainerExits(q)) /\ ~(\E d \in Drivers : TaskStep(d))
      BY <1>1 DEF ContainerExits, TaskStep, Call, Answered, FailRun, RecordReason, daemonVars
    <3>4. ~ManagerStep /\ ~RequestStep /\ ~Background
      BY <1>1 DEF ManagerStep, SetIntent, DiscardRow, Restart, RequestStep, Start, StartRefused,
         UserStop, OpenInstance, PublishFailedUpper, DiscardFailedUpper, FailStartup, Background,
         SeeExit, FinalizeExited, EndReadinessWait, daemonVars
    <3>5. Recovery
      BY <1>1, <3>1, <3>2, <3>3, <3>4 DEF LifecycleNext
    <3> QED
      BY <1>1, <3>5 DEF Recovery, StartDaemon, RecoveryFails, RecoverInterrupted, RecoverControl,
         RecoverStopped, RecoverStoppedControl, RecoverIntent, daemonVars
  <2>3. daemon = "listening"
    BY <1>1, <2>2 DEF NextPhase
  <2>4. local[r] \notin Interrupted
    BY <2>1, <2>3 DEF DirectoriesAreKnown, Recovering
  <2>5. container[r] = "none"
    BY <1>1, <2>3, <2>4 DEF ContainersAreInUse, Interrupted
  <2>6. recovery.rows[r] = None /\ handlers["recovery"].run # r
    BY <2>1, <2>3, NamesAreDistinct DEF RecoveryGoesByItsList, PhasesServeCalls, NoHandler
  <2> QED
    BY <2>1, <2>3, <2>4, <2>5, <2>6 DEF RecoveryGoesByItsList
<1>2. CallsInvariant /\ ContainersAreInUse /\ [LifecycleNext]_lifecycleVars =>
         [Verdict]_lifecycleVars
  BY <1>1
<1>3. LifecycleSpec => [][Verdict]_lifecycleVars
  BY <1>2, ContainersInUseHolds, PTL DEF LifecycleSpec
<1> QED
  BY <1>3 DEF RecoveryReachesAVerdict
=============================================================================
