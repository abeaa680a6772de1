--------------------------- MODULE BwaImageUpdate ---------------------------
(***************************************************************************)
(* BwaApplicationUpdateService: the update and the rollback of the image   *)
(* of one Application.  The service stops every RUNNING Instance, replaces *)
(* the image in the control database and starts what it stopped, under a   *)
(* lock that only updates take.  The operations of BwaLifecycleService     *)
(* keep a lock per Instance, so a user, or the Supervisor, may act on any  *)
(* Instance between two steps of an update.                                *)
(*                                                                         *)
(* BwaLifecycle models how an operation of the lifecycle service talks to  *)
(* the Compute Runtime; here it is cut down to its steps and outcomes.     *)
(***************************************************************************)
EXTENDS Naturals, Sequences, FiniteSets, SequencesExt

CONSTANTS
    Instances,  \* the Instances of the Application
    Digests,    \* images of its repository
    Updates,    \* the requests for an update or a rollback
    None,
    MaxRuns     \* bound: Runs that are created

ASSUME ImageUpdateAssumption ==
    /\ None \notin Instances \cup Digests \cup Updates
    /\ MaxRuns \in Nat
    /\ IsFiniteSet(Instances)

VARIABLES
    installed,  \* installedDigest of the Application
    run,        \* per Instance: its last Run; the others are COMMITTED or DISCARDED
    op,         \* per Instance: the lifecycle operation that holds its lock
    queue,      \* #locks: the updates, the first of which holds the Application's
    update,     \* per request: where it is
    runsMade    \* Runs created so far

imageVars == <<installed, run, op, queue, update, runsMade>>

RunRows == [state : {"PREPARING", "RUNNING", "STOPPED", "COMMITTED", "FAILED", "DISCARDED"},
            digest : Digests]
Open(i) == run[i].state \notin {"COMMITTED", "DISCARDED"}   \* "unsafe" to an update

\* step: what the operation awaits; restart: whether a start follows the stop;
\* by: the update that called it.
Operations == [step : {"none", "environment", "start", "stop", "commit", "destroy", "discard",
                       "fail"},
               restart : BOOLEAN, by : Updates \cup {None}]
Operation(step, restart, by) == [step |-> step, restart |-> restart, by |-> by]
NoOperation == Operation("none", FALSE, None)
Free(i)     == op[i] = NoOperation

\* todo: the Instances still to stop; stopped: those to start again; calling:
\* whether it awaits the lifecycle; expected: the digest to replace.
UpdateRows == [phase : {"new", "queued", "stopping", "replacing", "restarting", "done"},
               todo : Seq(Instances), stopped : Seq(Instances), calling : BOOLEAN,
               expected : Digests \cup {None}]
NewUpdate == [phase |-> "new", todo |-> <<>>, stopped |-> <<>>, calling |-> FALSE,
              expected |-> None]

HoldsLock(u) == queue # <<>> /\ Head(queue) = u

ImageUpdateInit ==
    /\ installed \in Digests
    /\ run \in [Instances -> {[state |-> s, digest |-> installed] : s \in {"RUNNING", "COMMITTED"}}]
    /\ op = [i \in Instances |-> NoOperation]
    /\ queue = <<>>
    /\ update = [u \in Updates |-> NewUpdate]
    /\ runsMade = 0
-----------------------------------------------------------------------------
(***************************************************************************)
(* The lifecycle operations, as far as an update can tell                  *)
(***************************************************************************)

SetRun(i, state) == run' = [run EXCEPT ![i].state = state]
Await(i, step)   == op' = [op EXCEPT ![i].step = step] /\ UNCHANGED update

\* Mutant of Answered: the first restart that fails ends the restarts.
AnsweredOrAbandoned(u, i, succeeded) ==
    LET row == [update[u] EXCEPT !.calling = FALSE]
    IN  CASE row.phase = "restarting" ->
                 [row EXCEPT !.stopped = IF succeeded THEN Tail(@) ELSE <<>>]
          [] row.phase = "stopping" /\ succeeded ->
                 [row EXCEPT !.todo = Tail(@), !.stopped = Append(@, i)]
          [] OTHER -> [row EXCEPT !.phase = "restarting", !.todo = <<>>]

\* The operation returns to its caller.  An update that called stop goes on
\* with the next Instance, or restarts what it stopped when the stop threw; a
\* failed restart does not keep it from the next.
Answered(u, i, succeeded) ==
    LET row == [update[u] EXCEPT !.calling = FALSE]
    IN  CASE row.phase = "restarting" -> [row EXCEPT !.stopped = Tail(@)]
          [] row.phase = "stopping" /\ succeeded ->
                 [row EXCEPT !.todo = Tail(@), !.stopped = Append(@, i)]
          [] OTHER -> [row EXCEPT !.phase = "restarting", !.todo = <<>>]

Return(i, succeeded) ==
    /\ op' = [op EXCEPT ![i] = NoOperation]
    /\ LET u == op[i].by
       IN  update' = IF u = None THEN update
                     ELSE [update EXCEPT ![u] = Answered(u, i, succeeded)]

\* The first synchronous steps of #start and of #stop, once the Instance's lock
\* is theirs.
BeginStart(i, by) == op' = [op EXCEPT ![i] = Operation("environment", FALSE, by)]
BeginStop(i, restart, by) ==
    /\ run[i].state = "RUNNING"
    /\ op' = [op EXCEPT ![i] = Operation("stop", restart, by)]

\* A user starts, stops, saves and restarts, publishes or discards; the
\* Supervisor finalizes a Run whose container exited, which takes the steps of
\* a stop; the page of a start reports that it failed (failStartup).
UserCall(i) ==
    /\ Free(i)
    /\ \/ BeginStart(i, None)
       \/ \E restart \in BOOLEAN : BeginStop(i, restart, None)
       \/ Open(i) /\ run[i].state # "FAILED" /\ op' = [op EXCEPT ![i] = Operation("fail", FALSE, None)]
    /\ UNCHANGED <<installed, run, queue, update, runsMade>>

ResolveFailedRun(i) ==
    /\ Free(i) /\ run[i].state = "FAILED"
    /\ \/ SetRun(i, "STOPPED") /\ Await(i, "commit")
       \/ UNCHANGED run /\ Await(i, "discard")
    /\ UNCHANGED <<installed, queue, runsMade>>

\* createBwaWorkspaceRun takes the installed digest, unless the environment
\* cannot be resolved or an earlier Run is unresolved.
CreateRun(i) ==
    /\ op[i].step = "environment"
    /\ \/ /\ ~Open(i) /\ runsMade < MaxRuns
          /\ runsMade' = runsMade + 1
          /\ run' = [run EXCEPT ![i] = [state |-> "PREPARING", digest |-> installed]]
          /\ Await(i, "start")
       \/ Return(i, FALSE) /\ UNCHANGED <<run, runsMade>>
    /\ UNCHANGED <<installed, queue>>

Started(i) ==
    /\ op[i].step = "start"
    /\ \E state \in {"RUNNING", "FAILED"} :
          SetRun(i, state) /\ Return(i, state = "RUNNING")
    /\ UNCHANGED <<installed, queue, runsMade>>

\* A stop that fails leaves the Run FAILED, a finalization RUNNING.
Stopped(i) ==
    /\ op[i].step = "stop"
    /\ \/ SetRun(i, "STOPPED") /\ Await(i, "commit")
       \/ SetRun(i, "FAILED") /\ Return(i, FALSE)
       \/ op[i].by = None /\ ~op[i].restart /\ UNCHANGED run /\ Return(i, FALSE)
    /\ UNCHANGED <<installed, queue, runsMade>>

\* A commit that fails leaves the Run FAILED, or STOPPED when it did not get
\* that far; one whose answer is lost is reported as failed too.
Committed(i) ==
    /\ op[i].step = "commit"
    /\ \/ SetRun(i, "COMMITTED") /\ Await(i, "destroy")
       \/ \E state \in {"COMMITTED", "FAILED", "STOPPED"} : SetRun(i, state) /\ Return(i, FALSE)
    /\ UNCHANGED <<installed, queue, runsMade>>

\* destroy(runId, false), the last step: it may fail after the commit.
Destroyed(i) ==
    /\ op[i].step = "destroy"
    /\ \/ ~op[i].restart /\ Return(i, TRUE)
       \/ op[i].restart /\ BeginStart(i, op[i].by) /\ UNCHANGED update
       \/ Return(i, FALSE)
    /\ UNCHANGED <<installed, run, queue, runsMade>>

Discarded(i) ==
    /\ op[i].step = "discard"
    /\ \/ SetRun(i, "DISCARDED")
       \/ UNCHANGED run
    /\ Return(i, TRUE)
    /\ UNCHANGED <<installed, queue, runsMade>>

\* failStartup keeps the Run, FAILED, when destroy throws.
FailedStartup(i) ==
    /\ op[i].step = "fail"
    /\ \E state \in {"DISCARDED", "FAILED"} : SetRun(i, state)
    /\ Return(i, TRUE)
    /\ UNCHANGED <<installed, queue, runsMade>>
-----------------------------------------------------------------------------
(***************************************************************************)
(* #exclusive and #replace                                                 *)
(***************************************************************************)

Request(u) ==
    /\ update[u].phase = "new"
    /\ update' = [update EXCEPT ![u].phase = "queued"]
    /\ queue' = Append(queue, u)
    /\ UNCHANGED <<installed, run, op, runsMade>>

ListRunning(u) ==
    /\ update[u].phase = "queued" /\ HoldsLock(u)
    /\ update' = [update EXCEPT ![u].phase = "stopping",
          ![u].todo = SetToSeq({i \in Instances : run[i].state = "RUNNING"})]
    /\ UNCHANGED <<installed, run, op, queue, runsMade>>

\* await lifecycle.stop: the Instance's lock comes first, and the Run may have
\* ended by then, which makes the stop throw.
StopNext(u) ==
    /\ update[u].phase = "stopping" /\ update[u].todo # <<>> /\ ~update[u].calling
    /\ LET i == Head(update[u].todo)
       IN  /\ Free(i)
           /\ \/ /\ BeginStop(i, FALSE, u)
                 /\ update' = [update EXCEPT ![u].calling = TRUE]
              \/ /\ run[i].state # "RUNNING"
                 /\ update' = [update EXCEPT ![u] = Answered(u, i, FALSE)]
                 /\ UNCHANGED op
    /\ UNCHANGED <<installed, run, queue, runsMade>>

\* registry.update and registry.rollback read the row, then await the image.
ReadApplication(u) ==
    /\ update[u].phase = "stopping" /\ update[u].todo = <<>>
    /\ update' = [update EXCEPT ![u].phase = "replacing", ![u].expected = installed]
    /\ UNCHANGED <<installed, run, op, queue, runsMade>>

\* Mutant of NothingUnresolved: updateBwaApplicationImage trusts the caller to
\* have stopped the Instances.
NothingToCheck == TRUE

NothingUnresolved == \A i \in Instances : ~Open(i)

\* updateBwaApplicationImage, in one transaction; a rollback's digest is one
\* of an earlier replacement, which an update may name as well.
ReplaceImage(u) ==
    /\ update[u].phase = "replacing" /\ installed = update[u].expected
    /\ NothingUnresolved
    /\ \E d \in Digests \ {installed} : installed' = d
    /\ update' = [update EXCEPT ![u].phase = "restarting"]
    /\ UNCHANGED <<run, op, queue, runsMade>>

\* The image is the installed one, cannot be pulled or verified, there is none
\* to roll back to, or the transaction refuses.
KeepImage(u) ==
    /\ update[u].phase = "replacing"
    /\ update' = [update EXCEPT ![u].phase = "restarting"]
    /\ UNCHANGED <<installed, run, op, queue, runsMade>>

\* #restartBestEffort
RestartNext(u) ==
    /\ update[u].phase = "restarting" /\ update[u].stopped # <<>> /\ ~update[u].calling
    /\ LET i == Head(update[u].stopped) IN Free(i) /\ BeginStart(i, u)
    /\ update' = [update EXCEPT ![u].calling = TRUE]
    /\ UNCHANGED <<installed, run, queue, runsMade>>

\* Mutant of Release: the lock is released only after a change of the image.
ReleaseOnSuccess ==
    queue' = IF update[Head(queue)].expected \in {None, installed} THEN queue ELSE Tail(queue)

Release == queue' = Tail(queue)

Finish(u) ==
    /\ update[u].phase = "restarting" /\ update[u].stopped = <<>>
    /\ update' = [update EXCEPT ![u].phase = "done"]
    /\ Release
    /\ UNCHANGED <<installed, run, op, runsMade>>

LifecycleStep(i) ==
    \/ CreateRun(i) \/ Started(i) \/ Stopped(i) \/ Committed(i) \/ Destroyed(i)
    \/ Discarded(i) \/ FailedStartup(i)
UpdateStep(u) == ListRunning(u) \/ StopNext(u) \/ ReadApplication(u)
                 \/ ReplaceImage(u) \/ KeepImage(u) \/ RestartNext(u) \/ Finish(u)

ImageUpdateNext ==
    \/ \E i \in Instances : UserCall(i) \/ ResolveFailedRun(i) \/ LifecycleStep(i)
    \/ \E u \in Updates : Request(u) \/ UpdateStep(u)

\* The Compute Runtime answers every request, or its connection breaks (the
\* client has no timeout of its own), and the lock of an Instance is a queue,
\* so an update that waits for one gets it.
ImageUpdateFairness ==
    /\ \A i \in Instances : WF_imageVars(LifecycleStep(i))
    /\ \A u \in Updates : SF_imageVars(UpdateStep(u))

ImageUpdateSpec == ImageUpdateInit /\ [][ImageUpdateNext]_imageVars /\ ImageUpdateFairness
-----------------------------------------------------------------------------
ImageUpdateTypeOK ==
    /\ installed \in Digests
    /\ run \in [Instances -> RunRows]
    /\ op \in [Instances -> Operations]
    /\ queue \in Seq(Updates)
    /\ update \in [Updates -> UpdateRows]
    /\ \A u \in Updates : update[u].phase \in {"stopping", "replacing", "restarting"} => HoldsLock(u)

(***************************************************************************)
(* No Run that is open, or whose Upper is still to be decided on, is of an *)
(* image other than the installed one, although a user may start Instances *)
(* between the stops and the change (updateBwaApplicationImage).           *)
(***************************************************************************)
ImagesAreNotMixed == \A i \in Instances : Open(i) => run[i].digest = installed

(***************************************************************************)
(* Runs, locks and updates in every state: the updates hold the locks of   *)
(* the Instances they stopped, and no Run is of another image.             *)
(***************************************************************************)
ImageUpdateInvariant == ImageUpdateTypeOK /\ ImagesAreNotMixed

(***************************************************************************)
(* An update that stopped an Instance starts it before it ends, whether    *)
(* the image changed or not (#replace, #restartBestEffort): no Instance    *)
(* leaves "stopped" but by a call of start that has returned.              *)
(***************************************************************************)
StoppedIsRestarted ==
    [][\A u \in Updates : \A i \in ToSet(update[u].stopped) :
          i \notin ToSet(update'[u].stopped) => op[i].by = u /\ op'[i] = NoOperation]_imageVars

(***************************************************************************)
(* Every update ends, and lets the next one in (#exclusive).               *)
(***************************************************************************)
EveryUpdateEnds ==
    \A u \in Updates : (update[u].phase = "queued") ~> (update[u].phase = "done")
-----------------------------------------------------------------------------
(***************************************************************************)
(* What the proofs need to know of the operations: an update waits for the *)
(* operation it called, on the Instance it is at; and an operation is on a *)
(* Run in the state that its step is for.                                  *)
(***************************************************************************)
CallersWait ==
    \A i \in Instances : op[i].by # None =>
        LET row == update[op[i].by]
        IN  /\ row.calling
            /\ \/ /\ row.phase = "stopping" /\ row.todo # <<>> /\ Head(row.todo) = i
                  /\ op[i].step \in {"stop", "commit", "destroy"} /\ ~op[i].restart
               \/ /\ row.phase = "restarting" /\ row.stopped # <<>> /\ Head(row.stopped) = i
                  /\ op[i].step \in {"environment", "start"}

StepsMatchTheRun ==
    \A i \in Instances :
        /\ op[i].step = "start" => run[i].state = "PREPARING"
        /\ op[i].step = "stop" => run[i].state = "RUNNING"
        /\ op[i].step = "commit" => run[i].state = "STOPPED"
        /\ op[i].step = "fail" => Open(i)

\* The inductive invariant.
ImageUpdateInductive == ImageUpdateInvariant /\ CallersWait /\ StepsMatchTheRun
=============================================================================
