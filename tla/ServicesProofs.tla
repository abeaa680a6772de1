--------------------------- MODULE ServicesProofs ---------------------------
(***************************************************************************)
(* Proofs about two services of the BWA manager: the update of the image   *)
(* of an Application (BwaImageUpdate), and its environment                 *)
(* (BwaEnvironment).                                                       *)
(***************************************************************************)
EXTENDS BwaImageUpdate, BwaEnvironment, FiniteSetTheorems, SequenceTheorems, TLAPS

-----------------------------------------------------------------------------
(* Image updates: queues of Instances.                                     *)

\* The first of a queue, and what it leaves.
LEMMA QueueLosesItsFirst ==
    ASSUME NEW S, NEW s \in Seq(S), s # <<>>
    PROVE  /\ Head(s) \in S /\ Tail(s) \in Seq(S)
           /\ \A x \in ToSet(s) : x = Head(s) \/ x \in ToSet(Tail(s))
<1>1. Len(s) \in Nat /\ Len(s) # 0 /\ DOMAIN s = 1..Len(s) /\ \A k \in 1..Len(s) : s[k] \in S
  BY LenProperties, EmptySeq, ElementOfSeq
<1>2. /\ Head(s) = s[1] /\ Tail(s) \in Seq(S) /\ Len(Tail(s)) = Len(s) - 1
      /\ \A k \in 1..Len(Tail(s)) : Tail(s)[k] = s[k + 1]
  BY HeadTailProperties
<1>3. DOMAIN Tail(s) = 1..(Len(s) - 1)
  BY <1>1, <1>2, LenProperties
<1>4. ASSUME NEW x \in ToSet(s), x # Head(s) PROVE x \in ToSet(Tail(s))
  <2>1. PICK k \in 1..Len(s) : x = s[k]
    BY <1>1 DEF ToSet
  <2>2. k # 1 /\ k - 1 \in 1..(Len(s) - 1)
    BY <1>1, <1>2, <1>4, <2>1
  <2>3. Tail(s)[k - 1] = s[(k - 1) + 1] /\ (k - 1) + 1 = k
    BY <1>1, <1>2, <2>1, <2>2
  <2>4. \E m \in DOMAIN Tail(s) : Tail(s)[m] = x
    BY <1>3, <2>1, <2>2, <2>3
  <2> QED  BY <2>4 DEF ToSet
<1> QED  BY <1>1, <1>2, <1>4

\* One more at its end keeps the others in it.
LEMMA QueueGetsALast ==
    ASSUME NEW S, NEW s \in Seq(S), NEW x \in S
    PROVE  /\ Append(s, x) \in Seq(S) /\ Append(s, x) # <<>>
           /\ \A y \in ToSet(s) : y \in ToSet(Append(s, x))
           /\ Head(Append(s, x)) = IF s = <<>> THEN x ELSE Head(s)
<1>1. /\ Append(s, x) \in Seq(S) /\ Len(Append(s, x)) = Len(s) + 1
      /\ \A k \in 1..Len(s) : Append(s, x)[k] = s[k]
      /\ Append(s, x)[Len(s) + 1] = x
  BY AppendProperties
<1>2. /\ Len(s) \in Nat /\ DOMAIN s = 1..Len(s) /\ DOMAIN Append(s, x) = 1..(Len(s) + 1)
      /\ s = <<>> <=> Len(s) = 0
  BY <1>1, LenProperties, EmptySeq
<1>3. Append(s, x) # <<>>
  BY <1>1, <1>2, EmptySeq
<1>4. \A y \in ToSet(s) : y \in ToSet(Append(s, x))
  BY <1>1, <1>2 DEF ToSet
<1>5. Head(Append(s, x)) = Append(s, x)[1] /\ (s # <<>> => Head(s) = s[1])
  BY <1>1, <1>3, HeadTailProperties
<1>6. s # <<>> => 1 \in 1..Len(s)
  BY <1>2
<1>7. s = <<>> => Len(s) + 1 = 1
  BY <1>2
<1> QED  BY <1>1, <1>3, <1>4, <1>5, <1>6, <1>7

\* The Instances that run, as a list.
LEMMA AListOfInstances ==
    ASSUME NEW S \in SUBSET Instances
    PROVE  SetToSeq(S) \in Seq(Instances)
<1>1. IsFiniteSet(S)
  BY FS_Subset, ImageUpdateAssumption
<1>2. Cardinality(S) \in Nat /\ ExistsBijection(1..Cardinality(S), S)
  BY <1>1, FS_CardinalityType
<1>3. \E f \in [1..Cardinality(S) -> S] : IsInjective(f)
  BY <1>2 DEF ExistsBijection, Bijection, Injection, IsInjective
<1>4. SetToSeq(S) \in [1..Cardinality(S) -> S]
  BY <1>3 DEF SetToSeq
<1>5. SetToSeq(S) \in [1..Cardinality(S) -> Instances]
  BY <1>4
<1> QED  BY <1>2, <1>5, IsASeq

-----------------------------------------------------------------------------
(* Image updates: the two halves of the invariant.                         *)

\* Locks, requests and the operations that they wait for ...
RequestsInOrder ==
    /\ op \in [Instances -> Operations]
    /\ queue \in Seq(Updates)
    /\ update \in [Updates -> UpdateRows]
    /\ \A u \in Updates : update[u].phase \in {"stopping", "replacing", "restarting"} => HoldsLock(u)
    /\ CallersWait

\* ... and the Runs.
RunsInOrder ==
    /\ installed \in Digests /\ run \in [Instances -> RunRows]
    /\ ImagesAreNotMixed /\ StepsMatchTheRun

\* Together they are the inductive invariant.
LEMMA ImageUpdateHalves ==
    /\ ImageUpdateInductive <=> RequestsInOrder /\ RunsInOrder
    /\ ImageUpdateInductive' <=> RequestsInOrder' /\ RunsInOrder'
BY DEF ImageUpdateInductive, ImageUpdateInvariant, ImageUpdateTypeOK, RequestsInOrder, RunsInOrder

\* Two operations of one update would be on the Instance it is at: there is
\* one at most, and none while the update does not wait.
LEMMA OneCallOfAnUpdate ==
    ASSUME RequestsInOrder
    PROVE  /\ \A i, j \in Instances : op[i].by = op[j].by /\ op[i].by # None => i = j
           /\ \A i \in Instances : op[i].by # None =>
                 /\ op[i].by \in Updates
                 /\ update[op[i].by].phase \in {"stopping", "restarting"}
                 /\ update[op[i].by].calling
BY DEF RequestsInOrder, CallersWait, Operations

\* What an update becomes when the operation it waits for returns.
LEMMA AnswersAreRows ==
    ASSUME NEW u \in Updates, NEW i \in Instances, NEW ok \in BOOLEAN,
           update \in [Updates -> UpdateRows],
           \/ update[u].phase = "stopping" /\ update[u].todo # <<>>
           \/ update[u].phase = "restarting" /\ update[u].stopped # <<>>
    PROVE  /\ Answered(u, i, ok) \in UpdateRows
           /\ \A j \in ToSet(update[u].stopped) \ ToSet(Answered(u, i, ok).stopped) :
                 update[u].phase = "restarting" /\ j = Head(update[u].stopped)
<1> DEFINE row == update[u]
           todo == row.todo
           stopped == row.stopped
<1>1. /\ row \in UpdateRows /\ todo \in Seq(Instances) /\ stopped \in Seq(Instances)
      /\ row.expected \in Digests \cup {None}
  BY DEF UpdateRows
<1>2. CASE row.phase = "restarting"
  <2>1. Answered(u, i, ok) = [[row EXCEPT !.calling = FALSE] EXCEPT !.stopped = Tail(@)]
    BY <1>1, <1>2 DEF Answered, UpdateRows
  <2>2. /\ Tail(stopped) \in Seq(Instances)
        /\ \A j \in ToSet(stopped) : j = Head(stopped) \/ j \in ToSet(Tail(stopped))
    BY <1>1, <1>2, QueueLosesItsFirst
  <2>3. Answered(u, i, ok).stopped = Tail(stopped)
    BY <1>1, <2>1 DEF UpdateRows
  <2>4. Answered(u, i, ok) \in UpdateRows
    BY <1>1, <2>1, <2>2 DEF UpdateRows
  <2> QED  BY <1>2, <2>2, <2>3, <2>4
<1>3. CASE row.phase = "stopping" /\ ok
  <2>1. Answered(u, i, ok) = [[row EXCEPT !.calling = FALSE]
                                 EXCEPT !.todo = Tail(@), !.stopped = Append(@, i)]
    BY <1>1, <1>3 DEF Answered, UpdateRows
  <2>2. Tail(todo) \in Seq(Instances)
    BY <1>1, <1>3, QueueLosesItsFirst
  <2>3. /\ Append(stopped, i) \in Seq(Instances)
        /\ \A j \in ToSet(stopped) : j \in ToSet(Append(stopped, i))
    BY <1>1, QueueGetsALast
  <2>4. Answered(u, i, ok).stopped = Append(stopped, i)
    BY <1>1, <2>1 DEF UpdateRows
  <2>5. Answered(u, i, ok) \in UpdateRows
    BY <1>1, <2>1, <2>2, <2>3 DEF UpdateRows
  <2> QED  BY <2>3, <2>4, <2>5
<1>4. CASE row.phase = "stopping" /\ ~ok
  <2>1. Answered(u, i, ok) = [[row EXCEPT !.calling = FALSE]
                                 EXCEPT !.phase = "restarting", !.todo = <<>>]
    BY <1>1, <1>4 DEF Answered, UpdateRows
  <2>2. <<>> \in Seq(Instances)
    BY EmptySeq
  <2>3. Answered(u, i, ok).stopped = stopped
    BY <1>1, <2>1 DEF UpdateRows
  <2>4. Answered(u, i, ok) \in UpdateRows
    BY <1>1, <2>1, <2>2 DEF UpdateRows
  <2> QED  BY <2>3, <2>4
<1> QED  BY <1>2, <1>3, <1>4

\* An update that waits for nothing takes a step.
LEMMA HoldersStepIsSafe ==
    ASSUME RequestsInOrder, NEW u \in Updates, NEW row \in UpdateRows,
           update' = [update EXCEPT ![u] = row], op' = op, queue' = queue,
           HoldsLock(u), \A i \in Instances : op[i].by # u
    PROVE  RequestsInOrder'
<1>1. update' \in [Updates -> UpdateRows] /\ \A v \in Updates : v # u => update'[v] = update[v]
  BY DEF RequestsInOrder
<1>2. \A v \in Updates : HoldsLock(v)' <=> HoldsLock(v)
  BY DEF HoldsLock
<1>3. CallersWait'
  <2>1. \A i \in Instances : op[i].by # None => op[i].by \in Updates /\ op[i].by # u
    BY OneCallOfAnUpdate
  <2> QED  BY <1>1, <2>1 DEF CallersWait, RequestsInOrder
<1> QED  BY <1>1, <1>2, <1>3 DEF RequestsInOrder

\* An operation returns to the user or to the update that called it.
LEMMA ReturnIsSafe ==
    ASSUME RequestsInOrder, NEW i \in Instances, NEW ok \in BOOLEAN,
           Return(i, ok), queue' = queue
    PROVE  RequestsInOrder'
<1> DEFINE u == op[i].by
<1>1. /\ op' = [op EXCEPT ![i] = NoOperation] /\ NoOperation \in Operations
      /\ NoOperation.by = None
  BY DEF Return, NoOperation, Operation, Operations
<1>2. op' \in [Instances -> Operations] /\ \A j \in Instances \ {i} : op'[j] = op[j]
  BY <1>1 DEF RequestsInOrder
<1>3. \A v \in Updates : HoldsLock(v)' <=> HoldsLock(v)
  BY DEF HoldsLock
<1>4. CASE u = None
  <2>1. update' = update
    BY <1>4 DEF Return
  <2>2. CallersWait'
    BY <1>1, <1>2, <2>1 DEF CallersWait, RequestsInOrder
  <2> QED  BY <1>2, <1>3, <2>1, <2>2 DEF RequestsInOrder
<1>5. CASE u # None
  <2>1. update' = [update EXCEPT ![u] = Answered(u, i, ok)]
    BY <1>5 DEF Return
  <2>2. /\ u \in Updates
        /\ \/ update[u].phase = "stopping" /\ update[u].todo # <<>>
           \/ update[u].phase = "restarting" /\ update[u].stopped # <<>>
    BY <1>5, OneCallOfAnUpdate DEF RequestsInOrder, CallersWait
  <2>3. Answered(u, i, ok) \in UpdateRows
    BY <2>2, AnswersAreRows DEF RequestsInOrder
  <2>4. /\ update' \in [Updates -> UpdateRows]
        /\ \A v \in Updates : v # u => update'[v] = update[v]
    BY <2>1, <2>3 DEF RequestsInOrder
  <2>5. HoldsLock(u)
    BY <2>2 DEF RequestsInOrder
  <2>6. \A j \in Instances \ {i} : op[j].by # None => op[j].by \in Updates /\ op[j].by # u
    BY <1>5, OneCallOfAnUpdate
  <2>7. CallersWait'
    BY <1>1, <1>2, <2>4, <2>6 DEF CallersWait, RequestsInOrder
  <2> QED  BY <1>2, <1>3, <2>4, <2>5, <2>7 DEF RequestsInOrder
<1> QED  BY <1>4, <1>5

\* An operation gets to its next step, for the same caller.
LEMMA NextStepIsSafe ==
    ASSUME RequestsInOrder, NEW i \in Instances, NEW o \in Operations,
           op' = [op EXCEPT ![i] = o], update' = update, queue' = queue,
           o.by = op[i].by,
           o.by # None =>
              \/ /\ op[i].step \in {"stop", "commit", "destroy"}
                 /\ o.step \in {"stop", "commit", "destroy"} /\ ~o.restart
              \/ op[i].step = "environment" /\ o.step \in {"environment", "start"}
    PROVE  RequestsInOrder'
<1>1. op' \in [Instances -> Operations] /\ op'[i] = o /\ \A j \in Instances \ {i} : op'[j] = op[j]
  BY DEF RequestsInOrder
<1>2. \A v \in Updates : HoldsLock(v)' <=> HoldsLock(v)
  BY DEF HoldsLock
<1>3. CallersWait'
  BY <1>1 DEF CallersWait, RequestsInOrder
<1> QED  BY <1>1, <1>2, <1>3 DEF RequestsInOrder

-----------------------------------------------------------------------------
(* Image updates: the invariant holds.                                     *)

\* At first every Run is of the installed image, and nobody holds a lock.
LEMMA ImageUpdateInitHolds == ImageUpdateInit => ImageUpdateInductive
<1> SUFFICES ASSUME ImageUpdateInit PROVE ImageUpdateInductive
  OBVIOUS
<1>1. NoOperation \in Operations /\ NoOperation.by = None /\ NoOperation.step = "none"
  BY DEF NoOperation, Operation, Operations
<1>2. NewUpdate \in UpdateRows /\ NewUpdate.phase = "new"
  BY EmptySeq DEF NewUpdate, UpdateRows
<1>3. RequestsInOrder
  BY <1>1, <1>2, EmptySeq DEF ImageUpdateInit, RequestsInOrder, CallersWait
<1>4. RunsInOrder
  BY <1>1 DEF ImageUpdateInit, RunsInOrder, RunRows, ImagesAreNotMixed, Open, StepsMatchTheRun
<1> QED  BY <1>3, <1>4, ImageUpdateHalves

\* What is called on an Instance whose lock is free is of no update.
LEMMA UserCallIsSafe ==
    ASSUME ImageUpdateInductive, NEW i \in Instances, UserCall(i)
    PROVE  ImageUpdateInductive'
<1>1. RequestsInOrder /\ RunsInOrder
  BY ImageUpdateHalves
<1>2. PICK o \in Operations :
          /\ op' = [op EXCEPT ![i] = o] /\ o.by = None
          /\ \/ o.step = "environment"
             \/ o.step = "stop" /\ run[i].state = "RUNNING"
             \/ o.step = "fail" /\ Open(i)
  <2>1. ASSUME NEW step \in {"environment", "stop", "fail"}, NEW restart \in BOOLEAN
        PROVE  /\ Operation(step, restart, None) \in Operations
               /\ Operation(step, restart, None).by = None
               /\ Operation(step, restart, None).step = step
    BY DEF Operation, Operations
  <2>2. CASE BeginStart(i, None)
    BY <2>1, <2>2 DEF BeginStart
  <2>3. CASE \E restart \in BOOLEAN : BeginStop(i, restart, None)
    BY <2>1, <2>3 DEF BeginStop
  <2>4. CASE Open(i) /\ op' = [op EXCEPT ![i] = Operation("fail", FALSE, None)]
    BY <2>1, <2>4
  <2> QED  BY <2>2, <2>3, <2>4 DEF UserCall
<1>3. op[i].by = None /\ UNCHANGED <<installed, run, queue, update>>
  BY DEF UserCall, Free, NoOperation, Operation
<1>4. RequestsInOrder'
  BY <1>1, <1>2, <1>3, NextStepIsSafe
<1>5. RunsInOrder'
  BY <1>1, <1>2, <1>3 DEF RunsInOrder, ImagesAreNotMixed, Open, StepsMatchTheRun, RequestsInOrder
<1> QED  BY <1>4, <1>5, ImageUpdateHalves

\* An operation gets to another step, with a Run in the state that step is for.
LEMMA AwaitIsSafe ==
    ASSUME ImageUpdateInductive, NEW i \in Instances,
           NEW step \in {"start", "commit", "destroy", "discard"}, NEW r \in RunRows,
           Await(i, step), run' = [run EXCEPT ![i] = r], UNCHANGED <<installed, queue>>,
           \/ op[i].by = None
           \/ op[i].step \in {"stop", "commit"} /\ step \in {"commit", "destroy"}
           \/ op[i].step = "environment" /\ step = "start",
           r.state \notin {"COMMITTED", "DISCARDED"} => r.digest = installed,
           step = "start" => r.state = "PREPARING", step = "commit" => r.state = "STOPPED"
    PROVE  ImageUpdateInductive'
<1>1. RequestsInOrder /\ RunsInOrder
  BY ImageUpdateHalves
<1> DEFINE o == [op[i] EXCEPT !.step = step]
<1>2. /\ op[i] \in Operations /\ o \in Operations /\ op' = [op EXCEPT ![i] = o] /\ update' = update
      /\ o.step = step /\ o.by = op[i].by /\ o.restart = op[i].restart
  BY <1>1 DEF Await, RequestsInOrder, Operations
<1> HIDE DEF o
<1>3. /\ o.by # None /\ op[i].step \in {"stop", "commit"} => ~o.restart
      /\ queue' = queue
  BY <1>1, <1>2 DEF RequestsInOrder, CallersWait
<1>4. RequestsInOrder'
  BY <1>1, <1>2, <1>3, NextStepIsSafe
<1>5. /\ run' \in [Instances -> RunRows] /\ run'[i] = r /\ op'[i] = o /\ installed' = installed
      /\ \A j \in Instances \ {i} : run'[j] = run[j] /\ op'[j] = op[j]
  BY <1>1, <1>2 DEF RequestsInOrder, RunsInOrder
<1>6. ImagesAreNotMixed'
  BY <1>1, <1>5 DEF RunsInOrder, ImagesAreNotMixed, Open
<1>7. StepsMatchTheRun'
  BY <1>1, <1>2, <1>5 DEF RunsInOrder, StepsMatchTheRun, Open
<1> QED  BY <1>1, <1>4, <1>5, <1>6, <1>7, ImageUpdateHalves DEF RunsInOrder

\* An operation returns, with a Run of the installed image or a closed one.
LEMMA LastStepIsSafe ==
    ASSUME ImageUpdateInductive, NEW i \in Instances, NEW ok \in BOOLEAN, NEW r \in RunRows,
           Return(i, ok), run' = [run EXCEPT ![i] = r], UNCHANGED <<installed, queue>>,
           r.state \notin {"COMMITTED", "DISCARDED"} => r.digest = installed
    PROVE  ImageUpdateInductive'
<1>1. RequestsInOrder /\ RunsInOrder
  BY ImageUpdateHalves
<1>2. RequestsInOrder'
  BY <1>1, ReturnIsSafe
<1>3. /\ run' \in [Instances -> RunRows] /\ run'[i] = r /\ installed' = installed
      /\ op'[i].step = "none"
      /\ \A j \in Instances \ {i} : run'[j] = run[j] /\ op'[j] = op[j]
  BY <1>1 DEF RequestsInOrder, RunsInOrder, Return, NoOperation, Operation
<1>4. ImagesAreNotMixed'
  BY <1>1, <1>3 DEF RunsInOrder, ImagesAreNotMixed, Open
<1>5. StepsMatchTheRun'
  BY <1>1, <1>3 DEF RunsInOrder, StepsMatchTheRun, Open
<1> QED  BY <1>1, <1>2, <1>3, <1>4, <1>5, ImageUpdateHalves DEF RunsInOrder

\* What SetRun makes of a Run that is open: one of the same image.
LEMMA TheRunKeepsItsImage ==
    ASSUME ImageUpdateInductive, NEW i \in Instances, NEW state, SetRun(i, state),
           state \in {"RUNNING", "STOPPED", "COMMITTED", "FAILED", "DISCARDED"}
    PROVE  \E r \in RunRows :
              /\ run' = [run EXCEPT ![i] = r] /\ r.state = state
              /\ Open(i) => r.digest = installed
<1>1. run \in [Instances -> RunRows] /\ ImagesAreNotMixed
  BY ImageUpdateHalves DEF RunsInOrder
<1> DEFINE r == [run[i] EXCEPT !.state = state]
<1>2. r \in RunRows /\ run' = [run EXCEPT ![i] = r] /\ r.state = state /\ r.digest = run[i].digest
  BY <1>1 DEF SetRun, RunRows
<1>3. Open(i) => run[i].digest = installed
  BY <1>1 DEF ImagesAreNotMixed
<1> QED  BY <1>2, <1>3

\* A Run that stays as it is.
LEMMA TheRunStays ==
    ASSUME ImageUpdateInductive, NEW i \in Instances, run' = run
    PROVE  /\ run[i] \in RunRows /\ run' = [run EXCEPT ![i] = run[i]]
           /\ run[i].state \notin {"COMMITTED", "DISCARDED"} => run[i].digest = installed
BY ImageUpdateHalves DEF RunsInOrder, ImagesAreNotMixed, Open

\* Save or discard a Run that failed.
LEMMA ResolveFailedRunIsSafe ==
    ASSUME ImageUpdateInductive, NEW i \in Instances, ResolveFailedRun(i)
    PROVE  ImageUpdateInductive'
<1>1. op[i].by = None /\ Open(i) /\ UNCHANGED <<installed, queue>>
  BY DEF ResolveFailedRun, Free, NoOperation, Operation, Open
<1>2. CASE SetRun(i, "STOPPED") /\ Await(i, "commit")
  BY <1>1, <1>2, TheRunKeepsItsImage, AwaitIsSafe
<1>3. CASE UNCHANGED run /\ Await(i, "discard")
  BY <1>1, <1>3, TheRunStays, AwaitIsSafe
<1> QED  BY <1>2, <1>3 DEF ResolveFailedRun

\* A new Run is of the installed image.
LEMMA CreateRunIsSafe ==
    ASSUME ImageUpdateInductive, NEW i \in Instances, CreateRun(i)
    PROVE  ImageUpdateInductive'
<1>1. op[i].step = "environment" /\ UNCHANGED <<installed, queue>>
  BY DEF CreateRun
<1>2. CASE /\ run' = [run EXCEPT ![i] = [state |-> "PREPARING", digest |-> installed]]
           /\ Await(i, "start")
  <2> DEFINE r == [state |-> "PREPARING", digest |-> installed]
  <2>1. r \in RunRows /\ r.state = "PREPARING" /\ r.digest = installed
    BY ImageUpdateHalves DEF RunsInOrder, RunRows
  <2>2. run' = [run EXCEPT ![i] = r]
    BY <1>2
  <2> HIDE DEF r
  <2> QED  BY <1>1, <1>2, <2>1, <2>2, AwaitIsSafe
<1>3. CASE Return(i, FALSE) /\ UNCHANGED run
  BY <1>1, <1>3, TheRunStays, LastStepIsSafe
<1> QED  BY <1>2, <1>3 DEF CreateRun

\* start, stop, commit, destroy and discard, as the Compute Runtime answers.
LEMMA LifecycleStepIsSafe ==
    ASSUME ImageUpdateInductive, NEW i \in Instances, LifecycleStep(i)
    PROVE  ImageUpdateInductive'
<1>1. StepsMatchTheRun /\ CallersWait
  BY DEF ImageUpdateInductive
<1>2. CASE Started(i)
  <2>1. Open(i) /\ UNCHANGED <<installed, queue>>
    BY <1>1, <1>2 DEF Started, StepsMatchTheRun, Open
  <2>2. PICK state \in {"RUNNING", "FAILED"} : SetRun(i, state) /\ Return(i, state = "RUNNING")
    BY <1>2 DEF Started
  <2>3. (state = "RUNNING") \in BOOLEAN
    OBVIOUS
  <2>4. PICK r \in RunRows :
           run' = [run EXCEPT ![i] = r] /\ r.state = state /\ (Open(i) => r.digest = installed)
    BY <2>2, TheRunKeepsItsImage
  <2>5. r.state \notin {"COMMITTED", "DISCARDED"} => r.digest = installed
    BY <2>1, <2>4
  <2>6. Return(i, state = "RUNNING")
    BY <2>2
  <2> QED  BY <2>1, <2>3, <2>4, <2>5, <2>6, LastStepIsSafe
<1>3. CASE Stopped(i)
  <2>1. Open(i) /\ op[i].step = "stop" /\ UNCHANGED <<installed, queue>>
    BY <1>1, <1>3 DEF Stopped, StepsMatchTheRun, Open
  <2>2. CASE SetRun(i, "STOPPED") /\ Await(i, "commit")
    BY <2>1, <2>2, TheRunKeepsItsImage, AwaitIsSafe
  <2>3. CASE SetRun(i, "FAILED") /\ Return(i, FALSE)
    BY <2>1, <2>3, TheRunKeepsItsImage, LastStepIsSafe
  <2>4. CASE UNCHANGED run /\ Return(i, FALSE)
    BY <2>1, <2>4, TheRunStays, LastStepIsSafe
  <2> QED  BY <1>3, <2>2, <2>3, <2>4 DEF Stopped
<1>4. CASE Committed(i)
  <2>1. Open(i) /\ op[i].step = "commit" /\ UNCHANGED <<installed, queue>>
    BY <1>1, <1>4 DEF Committed, StepsMatchTheRun, Open
  <2>2. CASE SetRun(i, "COMMITTED") /\ Await(i, "destroy")
    BY <2>1, <2>2, TheRunKeepsItsImage, AwaitIsSafe
  <2>3. CASE \E state \in {"COMMITTED", "FAILED", "STOPPED"} :
               SetRun(i, state) /\ Return(i, FALSE)
    BY <2>1, <2>3, TheRunKeepsItsImage, LastStepIsSafe
  <2> QED  BY <1>4, <2>2, <2>3 DEF Committed
<1>5. CASE Destroyed(i)
  <2>1. op[i].step = "destroy" /\ UNCHANGED <<installed, run, queue>>
    BY <1>5 DEF Destroyed
  <2>2. CASE \E ok \in BOOLEAN : Return(i, ok)
    BY <2>1, <2>2, TheRunStays, LastStepIsSafe
  <2>3. CASE op[i].restart /\ BeginStart(i, op[i].by) /\ UNCHANGED update
    <3> DEFINE o == Operation("environment", FALSE, op[i].by)
    <3>1. RequestsInOrder /\ RunsInOrder
      BY ImageUpdateHalves
    <3>2. op[i].by = None
      BY <1>1, <2>1, <2>3 DEF CallersWait
    <3>3. /\ o \in Operations /\ op' = [op EXCEPT ![i] = o] /\ o.by = op[i].by
          /\ o.step = "environment"
      BY <2>3, <3>2 DEF BeginStart, Operation, Operations
    <3> HIDE DEF o
    <3>4. RequestsInOrder'
      BY <2>1, <2>3, <3>1, <3>2, <3>3, NextStepIsSafe
    <3>5. RunsInOrder'
      BY <2>1, <3>1, <3>3 DEF RunsInOrder, RequestsInOrder, ImagesAreNotMixed, Open, StepsMatchTheRun
    <3> QED  BY <3>4, <3>5, ImageUpdateHalves
  <2> QED  BY <1>5, <2>2, <2>3 DEF Destroyed
<1>6. CASE Discarded(i)
  <2>1. Return(i, TRUE) /\ UNCHANGED <<installed, queue>>
    BY <1>6 DEF Discarded
  <2>2. CASE SetRun(i, "DISCARDED")
    BY <2>1, <2>2, TheRunKeepsItsImage, LastStepIsSafe
  <2>3. CASE UNCHANGED run
    BY <2>1, <2>3, TheRunStays, LastStepIsSafe
  <2> QED  BY <1>6, <2>2, <2>3 DEF Discarded
<1>7. CASE FailedStartup(i)
  <2>1. Open(i) /\ Return(i, TRUE) /\ UNCHANGED <<installed, queue>>
    BY <1>1, <1>7 DEF FailedStartup, StepsMatchTheRun
  <2>2. PICK state \in {"DISCARDED", "FAILED"} : SetRun(i, state)
    BY <1>7 DEF FailedStartup
  <2> QED  BY <2>1, <2>2, TheRunKeepsItsImage, LastStepIsSafe
<1> QED  BY <1>2, <1>3, <1>4, <1>5, <1>6, <1>7, CreateRunIsSafe DEF LifecycleStep

\* A request waits for its turn.
LEMMA RequestIsSafe ==
    ASSUME ImageUpdateInductive, NEW u \in Updates, Request(u)
    PROVE  ImageUpdateInductive'
<1>1. RequestsInOrder /\ RunsInOrder
  BY ImageUpdateHalves
<1> DEFINE row == [update[u] EXCEPT !.phase = "queued"]
<1>2. row \in UpdateRows /\ row.phase = "queued" /\ update' = [update EXCEPT ![u] = row]
  BY <1>1 DEF RequestsInOrder, UpdateRows, Request
<1> HIDE DEF row
<1>3. /\ update' \in [Updates -> UpdateRows] /\ update'[u].phase = "queued"
      /\ \A v \in Updates \ {u} : update'[v] = update[v]
  BY <1>1, <1>2 DEF RequestsInOrder
<1>4. /\ queue' \in Seq(Updates) /\ queue' # <<>>
      /\ queue # <<>> => Head(queue') = Head(queue)
  BY <1>1, QueueGetsALast DEF RequestsInOrder, Request
<1>5. op' = op /\ UNCHANGED <<installed, run>> /\ update[u].phase = "new"
  BY DEF Request
<1>6. \A v \in Updates : HoldsLock(v) => HoldsLock(v)'
  BY <1>4 DEF HoldsLock
<1>7. \A i \in Instances : op[i].by # None => op[i].by \in Updates \ {u}
  BY <1>1, <1>5, OneCallOfAnUpdate
<1>8. CallersWait'
  BY <1>1, <1>3, <1>5, <1>7 DEF RequestsInOrder, CallersWait
<1>9. RequestsInOrder'
  BY <1>1, <1>3, <1>4, <1>5, <1>6, <1>8 DEF RequestsInOrder
<1>10. RunsInOrder'
  BY <1>1, <1>5 DEF RunsInOrder, ImagesAreNotMixed, Open, StepsMatchTheRun
<1> QED  BY <1>9, <1>10, ImageUpdateHalves

\* An update that waits for nothing takes a step of its own: no Run changes.
LEMMA OwnStepIsSafe ==
    ASSUME ImageUpdateInductive, NEW u \in Updates, NEW row \in UpdateRows,
           HoldsLock(u), update' = [update EXCEPT ![u] = row],
           UNCHANGED <<installed, run, op, queue>>,
           \A i \in Instances : op[i].by # u
    PROVE  ImageUpdateInductive'
<1>1. RequestsInOrder /\ RunsInOrder
  BY ImageUpdateHalves
<1>2. RequestsInOrder'
  BY <1>1, HoldersStepIsSafe
<1>3. RunsInOrder'
  BY <1>1 DEF RunsInOrder, ImagesAreNotMixed, Open, StepsMatchTheRun
<1> QED  BY <1>2, <1>3, ImageUpdateHalves

\* No operation is of an update that waits for none.
LEMMA NoCallOfAnUpdate ==
    ASSUME ImageUpdateInductive, NEW u \in Updates,
           \/ ~update[u].calling
           \/ update[u].phase \notin {"stopping", "restarting"}
           \/ update[u].phase = "stopping" /\ update[u].todo = <<>>
           \/ update[u].phase = "restarting" /\ update[u].stopped = <<>>
    PROVE  \A i \in Instances : op[i].by # u
BY ImageUpdateAssumption DEF ImageUpdateInductive, CallersWait

\* The rows of the steps that change nothing else.
LEMMA RowsOfTheSteps ==
    ASSUME ImageUpdateInductive, NEW u \in Updates,
           NEW S \in SUBSET Instances, NEW digest \in Digests
    PROVE  /\ update[u] \in UpdateRows
           /\ [update[u] EXCEPT !.phase = "stopping", !.todo = SetToSeq(S)] \in UpdateRows
           /\ [update[u] EXCEPT !.phase = "replacing", !.expected = digest] \in UpdateRows
           /\ [update[u] EXCEPT !.phase = "restarting"] \in UpdateRows
           /\ [update[u] EXCEPT !.phase = "done"] \in UpdateRows
           /\ [update[u] EXCEPT !.calling = TRUE] \in UpdateRows
<1>1. update[u] \in UpdateRows
  BY ImageUpdateHalves DEF RequestsInOrder
<1>2. SetToSeq(S) \in Seq(Instances)
  BY AListOfInstances
<1> QED  BY <1>1, <1>2 DEF UpdateRows

\* ListRunning, ReadApplication and KeepImage.
LEMMA PlanningIsSafe ==
    ASSUME ImageUpdateInductive, NEW u \in Updates,
           ListRunning(u) \/ ReadApplication(u) \/ KeepImage(u)
    PROVE  ImageUpdateInductive'
<1>1. update \in [Updates -> UpdateRows] /\ installed \in Digests
  BY ImageUpdateHalves DEF RequestsInOrder, RunsInOrder
<1>2. HoldsLock(u) /\ UNCHANGED <<installed, run, op, queue>>
  BY ImageUpdateHalves DEF RequestsInOrder, ListRunning, ReadApplication, KeepImage
<1>3. \A i \in Instances : op[i].by # u
  BY NoCallOfAnUpdate DEF ListRunning, ReadApplication, KeepImage
<1>4. \E row \in UpdateRows : update' = [update EXCEPT ![u] = row]
  <2>1. CASE ListRunning(u)
    <3> DEFINE row == [update[u] EXCEPT !.phase = "stopping",
                           !.todo = SetToSeq({i \in Instances : run[i].state = "RUNNING"})]
    <3>1. row \in UpdateRows
      BY <1>1, RowsOfTheSteps
    <3>2. update' = [update EXCEPT ![u] = row]
      BY <1>1, <2>1 DEF ListRunning
    <3> QED  BY <3>1, <3>2
  <2>2. CASE ReadApplication(u)
    <3> DEFINE row == [update[u] EXCEPT !.phase = "replacing", !.expected = installed]
    <3>1. row \in UpdateRows
      BY <1>1, RowsOfTheSteps
    <3>2. update' = [update EXCEPT ![u] = row]
      BY <1>1, <2>2 DEF ReadApplication
    <3> QED  BY <3>1, <3>2
  <2>3. CASE KeepImage(u)
    <3> DEFINE row == [update[u] EXCEPT !.phase = "restarting"]
    <3>1. row \in UpdateRows
      BY <1>1, RowsOfTheSteps
    <3>2. update' = [update EXCEPT ![u] = row]
      BY <1>1, <2>3 DEF KeepImage
    <3> QED  BY <3>1, <3>2
  <2> QED  BY <2>1, <2>2, <2>3
<1> QED  BY <1>2, <1>3, <1>4, OwnStepIsSafe

\* The image is replaced when no Run of the old one is open.
LEMMA ReplaceImageIsSafe ==
    ASSUME ImageUpdateInductive, NEW u \in Updates, ReplaceImage(u)
    PROVE  ImageUpdateInductive'
<1>1. RequestsInOrder /\ RunsInOrder
  BY ImageUpdateHalves
<1> DEFINE row == [update[u] EXCEPT !.phase = "restarting"]
<1>2. row \in UpdateRows /\ update' = [update EXCEPT ![u] = row]
  BY <1>1, RowsOfTheSteps DEF ReplaceImage, RunsInOrder
<1>3. HoldsLock(u) /\ (\A i \in Instances : op[i].by # u) /\ UNCHANGED <<run, op, queue>>
  BY <1>1, NoCallOfAnUpdate DEF ReplaceImage, RequestsInOrder
<1> HIDE DEF row
<1>4. RequestsInOrder'
  BY <1>1, <1>2, <1>3, HoldersStepIsSafe
<1>5. installed' \in Digests /\ (\A i \in Instances : ~Open(i)') /\ StepsMatchTheRun'
  BY <1>1, <1>3 DEF ReplaceImage, NothingUnresolved, Open, RunsInOrder, StepsMatchTheRun
<1>6. RunsInOrder'
  BY <1>1, <1>3, <1>5 DEF RunsInOrder, ImagesAreNotMixed
<1> QED  BY <1>4, <1>6, ImageUpdateHalves

\* An update calls stop, or start, on the first Instance of its list.
LEMMA CallIsSafe ==
    ASSUME ImageUpdateInductive, NEW u \in Updates, NEW i \in Instances, NEW o \in Operations,
           Free(i), ~update[u].calling, o.by = u,
           \/ /\ update[u].phase = "stopping" /\ update[u].todo # <<>>
              /\ Head(update[u].todo) = i
              /\ o.step = "stop" /\ ~o.restart /\ run[i].state = "RUNNING"
           \/ /\ update[u].phase = "restarting" /\ update[u].stopped # <<>>
              /\ Head(update[u].stopped) = i
              /\ o.step = "environment",
           op' = [op EXCEPT ![i] = o], update' = [update EXCEPT ![u].calling = TRUE],
           UNCHANGED <<installed, run, queue>>
    PROVE  ImageUpdateInductive'
<1>1. RequestsInOrder /\ RunsInOrder
  BY ImageUpdateHalves
<1> DEFINE row == [update[u] EXCEPT !.calling = TRUE]
<1>2. /\ row \in UpdateRows /\ update' = [update EXCEPT ![u] = row] /\ row.calling
      /\ row.phase = update[u].phase /\ row.todo = update[u].todo /\ row.stopped = update[u].stopped
  <2>1. update[u] \in UpdateRows /\ row \in UpdateRows
    BY <1>1, RowsOfTheSteps DEF RunsInOrder
  <2>2. /\ row.calling /\ row.phase = update[u].phase
        /\ row.todo = update[u].todo /\ row.stopped = update[u].stopped
    BY <2>1 DEF UpdateRows
  <2>3. update' = [update EXCEPT ![u] = row]
    BY <1>1 DEF RequestsInOrder
  <2> QED  BY <2>1, <2>2, <2>3
<1> HIDE DEF row
<1>3. /\ update' \in [Updates -> UpdateRows] /\ update'[u] = row
      /\ \A v \in Updates \ {u} : update'[v] = update[v]
      /\ op' \in [Instances -> Operations] /\ op'[i] = o
      /\ \A j \in Instances \ {i} : op'[j] = op[j]
  BY <1>1, <1>2 DEF RequestsInOrder
<1>4. \A v \in Updates : HoldsLock(v)' <=> HoldsLock(v)
  BY DEF HoldsLock
<1>5. \A j \in Instances : op[j].by # None => op[j].by \in Updates \ {u}
  BY <1>1, OneCallOfAnUpdate
<1>6. CallersWait'
  BY <1>1, <1>2, <1>3, <1>5 DEF RequestsInOrder, CallersWait
<1>7. \A v \in Updates : update'[v].phase = update[v].phase
  BY <1>2, <1>3
<1>8. RequestsInOrder'
  BY <1>1, <1>3, <1>4, <1>6, <1>7 DEF RequestsInOrder
<1>9. RunsInOrder'
  BY <1>1, <1>3 DEF RunsInOrder, ImagesAreNotMixed, Open, StepsMatchTheRun
<1> QED  BY <1>8, <1>9, ImageUpdateHalves

\* StopNext: the stop is called, or throws at once.
LEMMA StopNextIsSafe ==
    ASSUME ImageUpdateInductive, NEW u \in Updates, StopNext(u)
    PROVE  ImageUpdateInductive'
<1> DEFINE i == Head(update[u].todo)
<1>1. /\ update[u].phase = "stopping" /\ update[u].todo # <<>> /\ ~update[u].calling
      /\ Free(i) /\ UNCHANGED <<installed, run, queue>>
      /\ \/ BeginStop(i, FALSE, u) /\ update' = [update EXCEPT ![u].calling = TRUE]
         \/ update' = [update EXCEPT ![u] = Answered(u, i, FALSE)] /\ UNCHANGED op
  BY DEF StopNext
<1>2. update \in [Updates -> UpdateRows] /\ update[u].todo \in Seq(Instances) /\ HoldsLock(u)
  BY <1>1, ImageUpdateHalves DEF RequestsInOrder, UpdateRows
<1>3. i \in Instances
  BY <1>1, <1>2, QueueLosesItsFirst
<1> HIDE DEF i
<1>4. CASE BeginStop(i, FALSE, u) /\ update' = [update EXCEPT ![u].calling = TRUE]
  <2> DEFINE o == Operation("stop", FALSE, u)
  <2>1. o \in Operations /\ o.by = u /\ o.step = "stop" /\ ~o.restart
    BY DEF Operation, Operations
  <2>2. op' = [op EXCEPT ![i] = o] /\ run[i].state = "RUNNING"
    BY <1>4 DEF BeginStop
  <2>3. Head(update[u].todo) = i
    BY DEF i
  <2> HIDE DEF o
  <2> QED  BY <1>1, <1>3, <1>4, <2>1, <2>2, <2>3, CallIsSafe
<1>5. CASE update' = [update EXCEPT ![u] = Answered(u, i, FALSE)] /\ UNCHANGED op
  <2>1. Answered(u, i, FALSE) \in UpdateRows
    BY <1>1, <1>2, <1>3, AnswersAreRows
  <2>2. \A j \in Instances : op[j].by # u
    BY <1>1, NoCallOfAnUpdate
  <2> QED  BY <1>1, <1>2, <1>5, <2>1, <2>2, OwnStepIsSafe
<1> QED  BY <1>1, <1>4, <1>5

\* RestartNext: the start is called.
LEMMA RestartNextIsSafe ==
    ASSUME ImageUpdateInductive, NEW u \in Updates, RestartNext(u)
    PROVE  ImageUpdateInductive'
<1> DEFINE i == Head(update[u].stopped)
           o == Operation("environment", FALSE, u)
<1>1. /\ update[u].phase = "restarting" /\ update[u].stopped # <<>> /\ ~update[u].calling
      /\ Free(i) /\ UNCHANGED <<installed, run, queue>>
      /\ op' = [op EXCEPT ![i] = o] /\ update' = [update EXCEPT ![u].calling = TRUE]
  BY DEF RestartNext, BeginStart
<1>2. i \in Instances
  BY <1>1, ImageUpdateHalves, QueueLosesItsFirst DEF RequestsInOrder, UpdateRows
<1>3. o \in Operations /\ o.by = u /\ o.step = "environment"
  BY DEF Operation, Operations
<1>4. Head(update[u].stopped) = i
  OBVIOUS
<1> HIDE DEF i, o
<1> QED  BY <1>1, <1>2, <1>3, <1>4, CallIsSafe

\* Finish: the lock goes to the next request, which is where it was.
LEMMA FinishIsSafe ==
    ASSUME ImageUpdateInductive, NEW u \in Updates, Finish(u)
    PROVE  ImageUpdateInductive'
<1>1. RequestsInOrder /\ RunsInOrder
  BY ImageUpdateHalves
<1> DEFINE row == [update[u] EXCEPT !.phase = "done"]
<1>2. row \in UpdateRows /\ row.phase = "done" /\ update' = [update EXCEPT ![u] = row]
  <2>1. update[u] \in UpdateRows /\ row \in UpdateRows
    BY <1>1, RowsOfTheSteps DEF RunsInOrder
  <2>2. row.phase = "done"
    BY <2>1 DEF UpdateRows
  <2>3. update' = [update EXCEPT ![u] = row]
    BY <1>1 DEF Finish, RequestsInOrder
  <2> QED  BY <2>1, <2>2, <2>3
<1> HIDE DEF row
<1>3. /\ update' \in [Updates -> UpdateRows] /\ update'[u].phase = "done"
      /\ \A v \in Updates \ {u} : update'[v] = update[v]
  BY <1>1, <1>2 DEF RequestsInOrder
<1>4. HoldsLock(u) /\ UNCHANGED <<installed, run, op>> /\ queue' = Tail(queue)
  BY <1>1 DEF Finish, Release, RequestsInOrder
<1>5. queue' \in Seq(Updates)
  BY <1>1, <1>4, QueueLosesItsFirst DEF RequestsInOrder, HoldsLock
<1>6. \A v \in Updates \ {u} : update[v].phase \notin {"stopping", "replacing", "restarting"}
  BY <1>1, <1>4 DEF RequestsInOrder, HoldsLock
<1>7. \A v \in Updates : update'[v].phase \notin {"stopping", "replacing", "restarting"}
  BY <1>3, <1>6
<1>8. \A i \in Instances : op[i].by # u
  BY NoCallOfAnUpdate DEF Finish
<1>9. \A i \in Instances : op[i].by = None
  BY <1>1, <1>6, <1>8, OneCallOfAnUpdate
<1>10. RequestsInOrder'
  BY <1>1, <1>3, <1>4, <1>5, <1>7, <1>9 DEF RequestsInOrder, CallersWait
<1>11. RunsInOrder'
  BY <1>1, <1>4 DEF RunsInOrder, ImagesAreNotMixed, Open, StepsMatchTheRun
<1> QED  BY <1>10, <1>11, ImageUpdateHalves

\* Every step keeps the inductive invariant.
LEMMA ImageUpdateStepHolds ==
    ImageUpdateInductive /\ [ImageUpdateNext]_imageVars => ImageUpdateInductive'
<1> SUFFICES ASSUME ImageUpdateInductive, [ImageUpdateNext]_imageVars
             PROVE  ImageUpdateInductive'
  OBVIOUS
<1>1. CASE UNCHANGED imageVars
  BY <1>1 DEF imageVars, ImageUpdateInductive, ImageUpdateInvariant, ImageUpdateTypeOK,
     HoldsLock, ImagesAreNotMixed, Open, CallersWait, StepsMatchTheRun
<1>2. ASSUME NEW i \in Instances, UserCall(i) \/ ResolveFailedRun(i) \/ LifecycleStep(i)
      PROVE  ImageUpdateInductive'
  BY <1>2, UserCallIsSafe, ResolveFailedRunIsSafe, LifecycleStepIsSafe
<1>3. ASSUME NEW u \in Updates, Request(u) \/ UpdateStep(u)
      PROVE  ImageUpdateInductive'
  BY <1>3, RequestIsSafe, PlanningIsSafe, ReplaceImageIsSafe, StopNextIsSafe,
     RestartNextIsSafe, FinishIsSafe DEF UpdateStep
<1> QED  BY <1>1, <1>2, <1>3 DEF ImageUpdateNext

\* An image is never replaced under a Run that is open or undecided, whatever
\* users start between the stops and the change (BwaApplicationUpdateService,
\* updateBwaApplicationImage): for any number of Instances, images and
\* requests.
THEOREM ImageUpdateInvariantHolds == ImageUpdateSpec => []ImageUpdateInvariant
<1>1. ImageUpdateInductive => ImageUpdateInvariant
  BY DEF ImageUpdateInductive
<1> QED  BY <1>1, ImageUpdateInitHolds, ImageUpdateStepHolds, PTL DEF ImageUpdateSpec

-----------------------------------------------------------------------------
(* Image updates: what was stopped is started again.                       *)

\* The Instances that an update leaves after a step.
WhatLeaves == \A u \in Updates : \A i \in ToSet(update[u].stopped) :
    i \notin ToSet(update'[u].stopped) => op[i].by = u /\ op'[i] = NoOperation

\* None leaves when the list of no update loses one.
LEMMA NothingLeaves ==
    ASSUME \A u \in Updates : update'[u].stopped = update[u].stopped
    PROVE  WhatLeaves
BY DEF WhatLeaves

\* When an operation returns, the Instance it was on is the one that leaves.
LEMMA TheReturnedLeaves ==
    ASSUME ImageUpdateInductive, NEW i \in Instances, NEW ok \in BOOLEAN, Return(i, ok)
    PROVE  WhatLeaves
<1> DEFINE u == op[i].by
<1>1. RequestsInOrder
  BY ImageUpdateHalves
<1>2. op'[i] = NoOperation
  BY <1>1 DEF Return, RequestsInOrder
<1>3. CASE u = None
  BY <1>3, NothingLeaves DEF Return
<1>4. CASE u # None
  <2>1. /\ u \in Updates
        /\ \/ update[u].phase = "stopping" /\ update[u].todo # <<>>
           \/ /\ update[u].phase = "restarting" /\ update[u].stopped # <<>>
              /\ Head(update[u].stopped) = i
    BY <1>1, <1>4, OneCallOfAnUpdate DEF RequestsInOrder, CallersWait
  <2>2. \A j \in ToSet(update[u].stopped) \ ToSet(Answered(u, i, ok).stopped) : j = i
    BY <1>1, <2>1, AnswersAreRows DEF RequestsInOrder
  <2>3. /\ update'[u] = Answered(u, i, ok)
        /\ \A v \in Updates \ {u} : update'[v] = update[v]
    BY <1>1, <1>4, <2>1 DEF Return, RequestsInOrder
  <2> QED  BY <1>2, <2>2, <2>3 DEF WhatLeaves
<1> QED  BY <1>3, <1>4

\* In every step, what leaves the list of an update was started for it.
LEMMA WhatLeavesWasStarted ==
    ImageUpdateInductive /\ [ImageUpdateNext]_imageVars => [WhatLeaves]_imageVars
<1> SUFFICES ASSUME ImageUpdateInductive, ImageUpdateNext PROVE WhatLeaves
  OBVIOUS
<1>1. update \in [Updates -> UpdateRows]
  BY ImageUpdateHalves DEF RequestsInOrder
<1>2. ASSUME NEW i \in Instances, UserCall(i) \/ ResolveFailedRun(i) \/ LifecycleStep(i)
      PROVE  WhatLeaves
  <2>1. update' = update \/ \E ok \in BOOLEAN : Return(i, ok)
    BY <1>2 DEF UserCall, ResolveFailedRun, LifecycleStep, CreateRun, Started, Stopped,
       Committed, Destroyed, Discarded, FailedStartup, Await
  <2> QED  BY <2>1, NothingLeaves, TheReturnedLeaves
<1>3. ASSUME NEW u \in Updates, StopNext(u) PROVE WhatLeaves
  <2> DEFINE i == Head(update[u].todo)
  <2>1. /\ update[u].phase = "stopping" /\ update[u].todo # <<>>
        /\ \/ update' = [update EXCEPT ![u].calling = TRUE]
           \/ update' = [update EXCEPT ![u] = Answered(u, i, FALSE)]
    BY <1>3 DEF StopNext
  <2>2. i \in Instances
    BY <1>1, <2>1, QueueLosesItsFirst DEF UpdateRows
  <2>3. CASE update' = [update EXCEPT ![u].calling = TRUE]
    BY <1>1, <2>3, NothingLeaves DEF UpdateRows
  <2>4. CASE update' = [update EXCEPT ![u] = Answered(u, i, FALSE)]
    <3>1. ToSet(update[u].stopped) \subseteq ToSet(Answered(u, i, FALSE).stopped)
      BY <1>1, <2>1, <2>2, AnswersAreRows
    <3> HIDE DEF i
    <3>2. /\ update'[u].stopped = Answered(u, i, FALSE).stopped
          /\ \A v \in Updates \ {u} : update'[v] = update[v]
      BY <1>1, <2>4
    <3> QED  BY <3>1, <3>2 DEF WhatLeaves
  <2> QED  BY <2>1, <2>3, <2>4
<1>4. ASSUME NEW u \in Updates,
             \/ Request(u) \/ ListRunning(u) \/ ReadApplication(u) \/ ReplaceImage(u)
             \/ KeepImage(u) \/ RestartNext(u) \/ Finish(u)
      PROVE  WhatLeaves
  <2>1. CASE ListRunning(u) \/ ReadApplication(u)
    <3>1. update'[u].stopped = update[u].stopped /\ \A v \in Updates \ {u} : update'[v] = update[v]
      BY <1>1, <2>1 DEF ListRunning, ReadApplication, UpdateRows
    <3> QED  BY <3>1, NothingLeaves
  <2>2. CASE \/ Request(u) \/ ReplaceImage(u) \/ KeepImage(u) \/ RestartNext(u) \/ Finish(u)
    <3>1. \/ \E phase \in {"queued", "restarting", "done"} :
                update' = [update EXCEPT ![u].phase = phase]
          \/ update' = [update EXCEPT ![u].calling = TRUE]
      BY <2>2 DEF Request, ReplaceImage, KeepImage, RestartNext, Finish
    <3>2. ASSUME NEW phase, update' = [update EXCEPT ![u].phase = phase] PROVE WhatLeaves
      BY <1>1, <3>2, NothingLeaves DEF UpdateRows
    <3>3. ASSUME update' = [update EXCEPT ![u].calling = TRUE] PROVE WhatLeaves
      BY <1>1, <3>3, NothingLeaves DEF UpdateRows
    <3> QED  BY <3>1, <3>2, <3>3
  <2> QED  BY <1>4, <2>1, <2>2
<1> QED  BY <1>2, <1>3, <1>4 DEF ImageUpdateNext, UpdateStep

\* An Instance that an update stopped leaves its list only when a start that
\* the update called on it has returned (#replace, #restartBestEffort).
THEOREM StoppedIsRestartedHolds == ImageUpdateSpec => StoppedIsRestarted
<1>1. ImageUpdateSpec => [][WhatLeaves]_imageVars
  BY ImageUpdateInitHolds, ImageUpdateStepHolds, WhatLeavesWasStarted, PTL DEF ImageUpdateSpec
<1> QED  BY <1>1 DEF StoppedIsRestarted, WhatLeaves

-----------------------------------------------------------------------------
(* The environment: requests and scopes.                                   *)

\* A request that is not there.
LEMMA NoCallIsARow ==
    /\ NoCall \in CallRows
    /\ NoCall.kind = "none" /\ NoCall.step = "read" /\ NoCall.scope = NoScope
    /\ Nothing \in Given /\ Empty \in Documents /\ Sensitive(Nothing) = {}
    /\ TheApp \in Scopes /\ NoScope \notin Scopes
<1>1. Nothing \in Given /\ Empty \in Documents /\ Sensitive(Nothing) = {}
  BY DEF Nothing, Given, Variable, Empty, Documents, Sensitive
<1>2. TheApp \in Scopes /\ NoScope \notin Scopes
  BY EnvironmentAssumption DEF Scopes
<1> HIDE DEF Nothing
<1> QED  BY <1>1, <1>2 DEF NoCall, CallRows

\* While edits come one after the other: what OneEditAtATime says of them.
OneAtATime ==
    \A c, d \in Calls : call[c] # NoCall /\ call[d] # NoCall => c = d
FileInStep ==
    \A c \in Calls :
        /\ call[c].step = "write" => call[c].document = stored
        /\ call[c].step = "register" => stored[call[c].scope] = Sensitive(call[c].given)
        /\ call[c].kind = "remove" => variables[call[c].scope] = Nothing
ScopesInStep ==
    \A s \in Scopes :
        /\ ~Registering(s) => Sensitive(variables[s]) \subseteq stored[s]
        /\ s \notin exists /\ ~Registering(s) /\ ~Removing(s) => stored[s] = {}

\* The parts of the inductive invariant.
LEMMA EnvironmentParts ==
    /\ EnvironmentInductive <=>
          /\ EnvironmentTypeOK /\ CallsAreInOrder
          /\ ~overlapped /\ ~torn => OneAtATime /\ FileInStep /\ ScopesInStep
    /\ EnvironmentInductive' <=>
          /\ EnvironmentTypeOK' /\ CallsAreInOrder'
          /\ ~overlapped' /\ ~torn' => OneAtATime' /\ FileInStep' /\ ScopesInStep'
BY DEF EnvironmentInductive, OneEditAtATime, OneAtATime, FileInStep, ScopesInStep

\* When no request runs, the database and the file agree.
LEMMA EnvironmentInductiveSuffices == EnvironmentInductive => EnvironmentInvariant
<1> SUFFICES ASSUME EnvironmentInductive PROVE EnvironmentInvariant
  OBVIOUS
<1>1. ASSUME Quiet, ~overlapped, ~torn
      PROVE  \A s \in Scopes : /\ Sensitive(variables[s]) \subseteq stored[s]
                               /\ s \notin exists => stored[s] = {}
  BY <1>1, EnvironmentParts, NoCallIsARow DEF Quiet, Registering, Removing, ScopesInStep
<1>2. QuietEditsKeepSecrets
  <2> SUFFICES ASSUME Quiet, ~overlapped, ~torn, NEW i \in exists \ {TheApp}, NEW n \in Names,
                      variables[ScopeOf(i, n)][n] = "sensitive"
               PROVE  n \in stored[ScopeOf(i, n)]
    BY DEF QuietEditsKeepSecrets, Resolvable
  <2>1. ScopeOf(i, n) \in Scopes
    BY NoCallIsARow, EnvironmentParts DEF ScopeOf, EnvironmentTypeOK
  <2>2. n \in Sensitive(variables[ScopeOf(i, n)])
    BY DEF Sensitive
  <2> QED  BY <1>1, <2>1, <2>2
<1>3. NoSecretOfTheGone
  BY <1>1 DEF NoSecretOfTheGone
<1> QED  BY <1>2, <1>3, EnvironmentParts DEF EnvironmentInvariant

\* Nothing is stored at first, and no request runs.
LEMMA EnvironmentInitHolds == EnvironmentInit => EnvironmentInductive
<1> SUFFICES ASSUME EnvironmentInit PROVE EnvironmentInductive
  OBVIOUS
<1>1. EnvironmentTypeOK
  BY NoCallIsARow DEF EnvironmentInit, EnvironmentTypeOK
<1>2. CallsAreInOrder
  BY NoCallIsARow DEF EnvironmentInit, CallsAreInOrder
<1>3. OneAtATime /\ FileInStep /\ ScopesInStep
  <2>1. \A s \in Scopes : Sensitive(variables[s]) = {} /\ stored[s] = {}
    BY NoCallIsARow DEF EnvironmentInit, Empty
  <2> QED  BY <2>1, NoCallIsARow DEF EnvironmentInit, OneAtATime, FileInStep, ScopesInStep
<1> QED  BY <1>1, <1>2, <1>3, EnvironmentParts

\* One request becomes another row: types, and the order of its steps.
LEMMA RowsInOrder ==
    ASSUME EnvironmentInductive, NEW c \in Calls, NEW row \in CallRows,
           call' = [call EXCEPT ![c] = row],
           row = NoCall \/ (row.kind # "none" /\ row.scope \in Scopes),
           row.step = "register" => row.kind = "replace",
           row.kind = "remove" => row.given = Nothing
    PROVE  /\ call' \in [Calls -> CallRows] /\ call'[c] = row
           /\ \A d \in Calls \ {c} : call'[d] = call[d]
           /\ \A d \in Calls :
                 /\ call'[d].kind = "none" => call'[d] = NoCall
                 /\ call'[d].kind # "none" => call'[d].scope \in Scopes
                 /\ call'[d].step = "register" => call'[d].kind = "replace"
                 /\ call'[d].kind = "remove" => call'[d].given = Nothing
<1>1. call \in [Calls -> CallRows] /\ CallsAreInOrder
  BY EnvironmentParts DEF EnvironmentTypeOK
<1>2. /\ call' \in [Calls -> CallRows] /\ call'[c] = row
      /\ \A d \in Calls \ {c} : call'[d] = call[d]
  BY <1>1
<1> QED  BY <1>1, <1>2, NoCallIsARow DEF CallsAreInOrder

\* A request begins.
LEMMA BeginRow ==
    ASSUME NEW c \in Calls, NEW kind \in {"replace", "remove"}, NEW s \in Scopes,
           NEW given \in Given, kind = "remove" => given = Nothing, Begin(c, kind, s, given)
    PROVE  \E row \in CallRows :
              /\ call' = [call EXCEPT ![c] = row]
              /\ row.kind = kind /\ row.step = "read" /\ row.scope = s /\ row.given = given
              /\ row # NoCall
<1> DEFINE row == [NoCall EXCEPT !.kind = kind, !.scope = s, !.given = given]
<1>1. row \in CallRows
  BY NoCallIsARow DEF CallRows
<1>2. row.kind = kind /\ row.step = "read" /\ row.scope = s /\ row.given = given
  BY NoCallIsARow DEF CallRows
<1>3. call' = [call EXCEPT ![c] = row]
  BY DEF Begin
<1> HIDE DEF row
<1> QED  BY <1>1, <1>2, <1>3, NoCallIsARow

-----------------------------------------------------------------------------
(* The environment: the invariant holds.                                   *)

\* A replace begins: nothing has changed yet.
LEMMA ReplaceIsSafe ==
    ASSUME EnvironmentInductive, NEW c \in Calls, NEW s \in Scopes, Replace(c, s)
    PROVE  EnvironmentInductive'
<1>1. PICK given \in Given : Begin(c, "replace", s, given)
  BY DEF Replace
<1>2. PICK row \in CallRows :
          /\ call' = [call EXCEPT ![c] = row]
          /\ row.kind = "replace" /\ row.step = "read" /\ row.scope = s
  BY <1>1, BeginRow
<1>3. UNCHANGED <<exists, variables, stored, torn>> /\ overlapped' = (overlapped \/ ~Quiet)
  BY <1>1 DEF Replace, Begin
<1>4. /\ call' \in [Calls -> CallRows] /\ call'[c] = row
      /\ \A d \in Calls \ {c} : call'[d] = call[d]
      /\ CallsAreInOrder'
  BY <1>2, <1>3, RowsInOrder, EnvironmentParts DEF CallsAreInOrder
<1>5. EnvironmentTypeOK'
  BY <1>3, <1>4, EnvironmentParts DEF EnvironmentTypeOK
<1>6. ASSUME ~overlapped', ~torn' PROVE OneAtATime' /\ FileInStep' /\ ScopesInStep'
  <2>1. Quiet /\ ScopesInStep
    BY <1>3, <1>6, EnvironmentParts
  <2>2. \A d \in Calls : d # c => call'[d] = NoCall
    BY <1>4, <2>1 DEF Quiet
  <2>3. OneAtATime' /\ FileInStep'
    BY <1>2, <1>4, <2>2, NoCallIsARow DEF OneAtATime, FileInStep
  <2>4. \A t \in Scopes : ~Registering(t) /\ ~Removing(t)
    BY <2>1, NoCallIsARow DEF Quiet, Registering, Removing
  <2>5. ScopesInStep'
    BY <1>3, <2>1, <2>4 DEF ScopesInStep
  <2> QED  BY <2>3, <2>5
<1> QED  BY <1>4, <1>5, <1>6, EnvironmentParts

\* A deletion begins: the variables are gone, and their values are its to remove.
LEMMA DeleteIsSafe ==
    ASSUME EnvironmentInductive, NEW c \in Calls, NEW s \in Scopes, Delete(c, s)
    PROVE  EnvironmentInductive'
<1>1. Begin(c, "remove", s, Nothing)
  BY DEF Delete
<1>2. PICK row \in CallRows :
          /\ call' = [call EXCEPT ![c] = row]
          /\ row.kind = "remove" /\ row.step = "read" /\ row.scope = s /\ row.given = Nothing
  BY <1>1, BeginRow, NoCallIsARow
<1>3. /\ UNCHANGED <<stored, torn>> /\ overlapped' = (overlapped \/ ~Quiet)
      /\ exists' = exists \ {s} /\ variables' = [variables EXCEPT ![s] = Nothing]
  BY <1>1 DEF Delete, Begin
<1>4. /\ call' \in [Calls -> CallRows] /\ call'[c] = row
      /\ \A d \in Calls \ {c} : call'[d] = call[d]
      /\ \A d \in Calls :
            /\ call'[d].kind = "none" => call'[d] = NoCall
            /\ call'[d].kind # "none" => call'[d].scope \in Scopes
            /\ call'[d].step = "register" => call'[d].kind = "replace"
            /\ call'[d].kind = "remove" => call'[d].given = Nothing
  BY <1>2, RowsInOrder
<1>5. EnvironmentTypeOK'
  BY <1>3, <1>4, EnvironmentParts, NoCallIsARow DEF EnvironmentTypeOK
<1>6. variables'[s] = Nothing /\ \A t \in Scopes \ {s} : variables'[t] = variables[t]
  BY <1>3, EnvironmentParts DEF EnvironmentTypeOK
<1>7. CallsAreInOrder'
  BY <1>3, <1>4, <1>6, EnvironmentParts DEF CallsAreInOrder
<1>8. ASSUME ~overlapped', ~torn' PROVE OneAtATime' /\ FileInStep' /\ ScopesInStep'
  <2>1. Quiet /\ ScopesInStep
    BY <1>3, <1>8, EnvironmentParts
  <2>2. \A d \in Calls : d # c => call'[d] = NoCall
    BY <1>4, <2>1 DEF Quiet
  <2>3. OneAtATime' /\ FileInStep'
    BY <1>2, <1>4, <1>6, <2>2, NoCallIsARow DEF OneAtATime, FileInStep
  <2>4. \A t \in Scopes : ~Registering(t) /\ ~Removing(t)
    BY <2>1, NoCallIsARow DEF Quiet, Registering, Removing
  <2>5. Removing(s)'
    BY <1>2, <1>4 DEF Removing
  <2>6. ScopesInStep'
    BY <1>3, <1>6, <2>1, <2>4, <2>5, NoCallIsARow DEF ScopesInStep
  <2> QED  BY <2>3, <2>6
<1> QED  BY <1>5, <1>7, <1>8, EnvironmentParts

\* The Application is installed again: it has no variables.
LEMMA InstallIsSafe ==
    ASSUME EnvironmentInductive, Install
    PROVE  EnvironmentInductive'
<1>1. exists' = exists \cup {TheApp} /\ UNCHANGED <<variables, stored, call, overlapped, torn>>
  BY DEF Install
<1>2. EnvironmentTypeOK' /\ CallsAreInOrder'
  BY <1>1, EnvironmentParts, NoCallIsARow DEF EnvironmentTypeOK, CallsAreInOrder
<1>3. ASSUME ~overlapped', ~torn' PROVE OneAtATime' /\ FileInStep' /\ ScopesInStep'
  <2>1. OneAtATime /\ FileInStep /\ ScopesInStep
    BY <1>1, <1>3, EnvironmentParts
  <2>2. \A s \in Scopes : (Registering(s)' <=> Registering(s)) /\ (Removing(s)' <=> Removing(s))
    BY <1>1 DEF Registering, Removing
  <2>3. ScopesInStep'
    BY <1>1, <2>1, <2>2 DEF ScopesInStep
  <2> QED  BY <1>1, <2>1, <2>3 DEF OneAtATime, FileInStep
<1> QED  BY <1>2, <1>3, EnvironmentParts

\* A request reads the file.
LEMMA ReadDocumentIsSafe ==
    ASSUME EnvironmentInductive, NEW c \in Calls, ReadDocument(c)
    PROVE  EnvironmentInductive'
<1> DEFINE row == [call[c] EXCEPT !.step = "write", !.document = stored]
<1>1. /\ UNCHANGED <<exists, variables, stored, overlapped, torn>>
      /\ call[c].kind # "none" /\ call[c].step = "read"
  BY DEF ReadDocument
<1>2. call[c] \in CallRows /\ stored \in Documents /\ call \in [Calls -> CallRows]
  BY EnvironmentParts DEF EnvironmentTypeOK
<1>3. /\ row \in CallRows /\ row.kind = call[c].kind /\ row.scope = call[c].scope
      /\ row.given = call[c].given /\ row.step = "write" /\ row.document = stored
  BY <1>2 DEF CallRows
<1>4. call' = [call EXCEPT ![c] = row]
  BY <1>2 DEF ReadDocument
<1> HIDE DEF row
<1>5. /\ call' \in [Calls -> CallRows] /\ call'[c] = row
      /\ \A d \in Calls \ {c} : call'[d] = call[d]
      /\ CallsAreInOrder'
  BY <1>1, <1>3, <1>4, RowsInOrder, EnvironmentParts DEF CallsAreInOrder
<1>6. EnvironmentTypeOK'
  BY <1>1, <1>5, EnvironmentParts DEF EnvironmentTypeOK
<1>7. ASSUME ~overlapped', ~torn' PROVE OneAtATime' /\ FileInStep' /\ ScopesInStep'
  <2>1. OneAtATime /\ FileInStep /\ ScopesInStep
    BY <1>1, <1>7, EnvironmentParts
  <2>2. \A d \in Calls : call'[d] # NoCall => call[d] # NoCall
    BY <1>1, <1>5, NoCallIsARow
  <2>3. OneAtATime' /\ FileInStep'
    BY <1>1, <1>3, <1>5, <2>1, <2>2 DEF OneAtATime, FileInStep
  <2>4. \A s \in Scopes : (Registering(s)' <=> Registering(s)) /\ (Removing(s)' <=> Removing(s))
    BY <1>1, <1>3, <1>5 DEF Registering, Removing
  <2>5. ScopesInStep'
    BY <1>1, <2>1, <2>4 DEF ScopesInStep
  <2> QED  BY <2>3, <2>5
<1> QED  BY <1>5, <1>6, <1>7, EnvironmentParts

\* While edits come one after the other, no request but the one at hand runs.
LEMMA TheOthersAreDone ==
    ASSUME EnvironmentInductive, ~overlapped, ~torn, NEW c \in Calls, call[c].kind # "none"
    PROVE  /\ \A d \in Calls \ {c} : call[d] = NoCall
           /\ \A s \in Scopes : /\ Registering(s) <=> call[c].step = "register" /\ call[c].scope = s
                                /\ Removing(s) <=> call[c].kind = "remove" /\ call[c].scope = s
<1>1. \A d \in Calls \ {c} : call[d] = NoCall
  BY EnvironmentParts, NoCallIsARow DEF OneAtATime
<1> QED  BY <1>1, NoCallIsARow DEF Registering, Removing

\* A request ends: the others go on.
LEMMA EndedRow ==
    ASSUME EnvironmentInductive, NEW c \in Calls, call' = [call EXCEPT ![c] = NoCall]
    PROVE  /\ call' \in [Calls -> CallRows] /\ call'[c] = NoCall
           /\ \A d \in Calls \ {c} : call'[d] = call[d]
           /\ \A d \in Calls :
                 /\ call'[d].kind = "none" => call'[d] = NoCall
                 /\ call'[d].kind # "none" => call'[d].scope \in Scopes
                 /\ call'[d].step = "register" => call'[d].kind = "replace"
                 /\ call'[d].kind = "remove" => call'[d].given = Nothing
BY RowsInOrder, NoCallIsARow

\* No request is left: the database and the file must agree.
LEMMA NoneIsLeft ==
    ASSUME \A c \in Calls : call'[c] = NoCall,
           \A s \in Scopes : /\ Sensitive(variables'[s]) \subseteq stored'[s]
                             /\ s \notin exists' => stored'[s] = {}
    PROVE  OneAtATime' /\ FileInStep' /\ ScopesInStep'
BY NoCallIsARow DEF OneAtATime, FileInStep, ScopesInStep, Registering, Removing

\* A request writes what it read, with the values of its scope.
LEMMA WriteDocumentIsSafe ==
    ASSUME EnvironmentInductive, NEW c \in Calls, WriteDocument(c)
    PROVE  EnvironmentInductive'
<1> DEFINE scope == call[c].scope
           row == IF call[c].kind = "remove" THEN NoCall
                  ELSE [call[c] EXCEPT !.step = "register", !.document = Empty]
<1>1. /\ UNCHANGED <<exists, variables, overlapped, torn>>
      /\ call[c].kind # "none" /\ call[c].step = "write"
      /\ stored' = [call[c].document EXCEPT ![scope] = Sensitive(call[c].given)]
      /\ call' = [call EXCEPT ![c] = row]
  BY DEF WriteDocument, Edited
<1>2. /\ call[c] \in CallRows /\ call \in [Calls -> CallRows] /\ scope \in Scopes
      /\ call[c].document \in Documents
      /\ call[c].kind = "remove" => call[c].given = Nothing
  BY <1>1, EnvironmentParts DEF EnvironmentTypeOK, CallsAreInOrder, CallRows
<1>3. /\ row \in CallRows
      /\ call[c].kind = "remove" => row = NoCall
      /\ call[c].kind # "remove" =>
            /\ row.kind = "replace" /\ row.step = "register"
            /\ row.scope = scope /\ row.given = call[c].given
  BY <1>1, <1>2, NoCallIsARow DEF CallRows
<1> HIDE DEF row
<1>4. /\ call' \in [Calls -> CallRows] /\ call'[c] = row
      /\ \A d \in Calls \ {c} : call'[d] = call[d]
      /\ CallsAreInOrder'
  BY <1>1, <1>2, <1>3, RowsInOrder, EnvironmentParts, NoCallIsARow DEF CallsAreInOrder
<1>5. Sensitive(call[c].given) \subseteq Names
  BY DEF Sensitive
<1>6. EnvironmentTypeOK'
  BY <1>1, <1>2, <1>4, <1>5, EnvironmentParts DEF EnvironmentTypeOK, Documents
<1>7. ASSUME ~overlapped', ~torn' PROVE OneAtATime' /\ FileInStep' /\ ScopesInStep'
  <2>1. /\ ~overlapped /\ ~torn /\ FileInStep /\ ScopesInStep
    BY <1>1, <1>7, EnvironmentParts
  <2>2. /\ \A d \in Calls \ {c} : call[d] = NoCall
        /\ \A s \in Scopes : /\ ~Registering(s)
                             /\ Removing(s) <=> call[c].kind = "remove" /\ scope = s
    BY <1>1, <2>1, TheOthersAreDone
  <2>3. /\ stored'[scope] = Sensitive(call[c].given)
        /\ \A s \in Scopes \ {scope} : stored'[s] = stored[s]
    BY <1>1, <1>2, <2>1 DEF FileInStep, Documents
  <2>4. \A s \in Scopes \ {scope} : /\ Sensitive(variables'[s]) \subseteq stored'[s]
                                    /\ s \notin exists' => stored'[s] = {}
    BY <1>1, <2>1, <2>2, <2>3 DEF ScopesInStep
  <2>5. CASE call[c].kind = "remove"
    <3>1. stored'[scope] = {} /\ Sensitive(variables'[scope]) = {}
      BY <1>1, <1>2, <2>1, <2>3, <2>5, NoCallIsARow DEF FileInStep
    <3>2. \A d \in Calls : call'[d] = NoCall
      BY <1>3, <1>4, <2>2, <2>5
    <3> QED  BY <2>4, <3>1, <3>2, NoneIsLeft
  <2>6. CASE call[c].kind # "remove"
    <3>1. \A d \in Calls \ {c} : call'[d] = NoCall
      BY <1>4, <2>2
    <3>2. OneAtATime' /\ FileInStep'
      BY <1>3, <1>4, <2>3, <2>6, <3>1, NoCallIsARow DEF OneAtATime, FileInStep
    <3>3. \A s \in Scopes : s = scope => Registering(s)'
      BY <1>3, <1>4, <2>6 DEF Registering
    <3>4. ScopesInStep'
      BY <2>4, <3>3 DEF ScopesInStep
    <3> QED  BY <3>2, <3>4
  <2> QED  BY <2>5, <2>6
<1> QED  BY <1>4, <1>6, <1>7, EnvironmentParts

\* A request registers the variables whose values it wrote.
LEMMA RegisterIsSafe ==
    ASSUME EnvironmentInductive, NEW c \in Calls, Register(c)
    PROVE  EnvironmentInductive'
<1> DEFINE scope == call[c].scope
<1>1. /\ UNCHANGED <<exists, stored, overlapped>>
      /\ call[c].kind # "none" /\ call[c].step = "register"
      /\ call' = [call EXCEPT ![c] = NoCall]
      /\ \/ /\ scope \in exists /\ variables' = [variables EXCEPT ![scope] = call[c].given]
            /\ torn' = torn
         \/ variables' = variables /\ torn' = TRUE
  BY DEF Register
<1>2. /\ call[c].given \in Given /\ scope \in Scopes /\ call[c].kind = "replace"
      /\ variables \in [Scopes -> Given] /\ torn \in BOOLEAN
  BY <1>1, EnvironmentParts DEF EnvironmentTypeOK, CallsAreInOrder, CallRows
<1>3. /\ call' \in [Calls -> CallRows] /\ call'[c] = NoCall
      /\ \A d \in Calls \ {c} : call'[d] = call[d]
      /\ \A d \in Calls :
            /\ call'[d].kind = "none" => call'[d] = NoCall
            /\ call'[d].kind # "none" => call'[d].scope \in Scopes
            /\ call'[d].step = "register" => call'[d].kind = "replace"
            /\ call'[d].kind = "remove" => call'[d].given = Nothing
  BY <1>1, EndedRow
<1>4. EnvironmentTypeOK'
  BY <1>1, <1>2, <1>3, EnvironmentParts DEF EnvironmentTypeOK
<1>5. CallsAreInOrder'
  BY <1>1, <1>2, <1>3, EnvironmentParts DEF CallsAreInOrder
<1>6. ASSUME ~overlapped', ~torn' PROVE OneAtATime' /\ FileInStep' /\ ScopesInStep'
  <2>1. /\ scope \in exists /\ variables' = [variables EXCEPT ![scope] = call[c].given]
        /\ ~overlapped /\ ~torn /\ FileInStep /\ ScopesInStep
    BY <1>1, <1>6, EnvironmentParts
  <2>2. /\ \A d \in Calls \ {c} : call[d] = NoCall
        /\ \A s \in Scopes \ {scope} : ~Registering(s) /\ ~Removing(s)
    BY <1>1, <1>2, <2>1, TheOthersAreDone
  <2>3. /\ variables'[scope] = call[c].given
        /\ \A s \in Scopes \ {scope} : variables'[s] = variables[s]
    BY <1>2, <2>1
  <2>4. \A s \in Scopes : /\ Sensitive(variables'[s]) \subseteq stored'[s]
                          /\ s \notin exists' => stored'[s] = {}
    BY <1>1, <2>1, <2>2, <2>3 DEF FileInStep, ScopesInStep
  <2>5. \A d \in Calls : call'[d] = NoCall
    BY <1>3, <2>2
  <2> QED  BY <2>4, <2>5, NoneIsLeft
<1> QED  BY <1>4, <1>5, <1>6, EnvironmentParts

\* A request gives up at the file: it stays as it was, or has what was to be
\* written.
LEMMA FileFailsIsSafe ==
    ASSUME EnvironmentInductive, NEW c \in Calls, FileFails(c)
    PROVE  EnvironmentInductive'
<1> DEFINE scope == call[c].scope
           written == [call[c].document EXCEPT ![scope] = Sensitive(call[c].given)]
<1>1. /\ UNCHANGED <<exists, variables, overlapped>>
      /\ call[c].kind # "none" /\ call[c].step # "register"
      /\ call' = [call EXCEPT ![c] = NoCall]
      /\ \/ stored' = stored /\ torn' = (torn \/ call[c].kind = "remove")
         \/ /\ call[c].step = "write" /\ stored' = written
            /\ torn' = (torn \/ call[c].kind = "replace")
  BY DEF FileFails, AtTheFile, Edited
<1>2. /\ call' \in [Calls -> CallRows] /\ call'[c] = NoCall
      /\ \A d \in Calls \ {c} : call'[d] = call[d]
      /\ CallsAreInOrder'
  BY <1>1, EndedRow, EnvironmentParts DEF CallsAreInOrder
<1>3. /\ call[c] \in CallRows /\ scope \in Scopes /\ call[c].document \in Documents
      /\ call[c].kind \in {"replace", "remove"}
      /\ call[c].kind = "remove" => call[c].given = Nothing
  BY <1>1, EnvironmentParts DEF EnvironmentTypeOK, CallsAreInOrder, CallRows
<1>4. written \in Documents
  BY <1>3 DEF Documents, Sensitive
<1>5. EnvironmentTypeOK'
  BY <1>1, <1>2, <1>4, EnvironmentParts DEF EnvironmentTypeOK
<1>6. ASSUME ~overlapped', ~torn' PROVE OneAtATime' /\ FileInStep' /\ ScopesInStep'
  <2>1. ~overlapped /\ ~torn /\ FileInStep /\ ScopesInStep
    BY <1>1, <1>6, EnvironmentParts
  <2>2. /\ \A d \in Calls \ {c} : call[d] = NoCall
        /\ \A s \in Scopes : /\ ~Registering(s)
                             /\ Removing(s) <=> call[c].kind = "remove" /\ scope = s
    BY <1>1, <2>1, TheOthersAreDone
  <2>3. \A d \in Calls : call'[d] = NoCall
    BY <1>2, <2>2
  <2>4. CASE stored' = stored /\ call[c].kind # "remove"
    BY <1>1, <2>1, <2>2, <2>3, <2>4, NoneIsLeft DEF ScopesInStep
  <2>5. CASE call[c].step = "write" /\ stored' = written /\ call[c].kind = "remove"
    <3>1. /\ stored'[scope] = Sensitive(call[c].given)
          /\ \A s \in Scopes \ {scope} : stored'[s] = stored[s]
      BY <1>3, <2>1, <2>5 DEF FileInStep, Documents
    <3>2. stored'[scope] = {} /\ Sensitive(variables'[scope]) = {}
      BY <1>1, <1>3, <2>1, <2>5, <3>1, NoCallIsARow DEF FileInStep
    <3>3. \A s \in Scopes : /\ Sensitive(variables'[s]) \subseteq stored'[s]
                            /\ s \notin exists' => stored'[s] = {}
      BY <1>1, <2>1, <2>2, <3>1, <3>2 DEF ScopesInStep
    <3> QED  BY <2>3, <3>3, NoneIsLeft
  <2> QED  BY <1>1, <1>3, <1>6, <2>4, <2>5
<1> QED  BY <1>2, <1>5, <1>6, EnvironmentParts

\* The manager restarts and prunes the file.
LEMMA RestartIsSafe ==
    ASSUME EnvironmentInductive, Restart
    PROVE  EnvironmentInductive'
<1>1. /\ UNCHANGED <<exists, variables, overlapped>>
      /\ call' = [c \in Calls |-> NoCall] /\ stored' = Pruned
      /\ torn' = (torn \/ \E c \in Calls :
                     \/ call[c].kind # "none" /\ call[c].step = "register"
                     \/ call[c].kind = "remove" /\ call[c].scope = TheApp)
  BY DEF Restart
<1>2. /\ EnvironmentTypeOK /\ CallsAreInOrder
  BY EnvironmentParts
<1>3. \A s \in Scopes : stored'[s] = IF s \in EnvInstances \ exists THEN {} ELSE stored[s]
  BY <1>1 DEF Pruned
<1>4. stored' \in Documents
  BY <1>1, <1>2 DEF Pruned, EnvironmentTypeOK, Documents
<1>5. EnvironmentTypeOK'
  BY <1>1, <1>2, <1>4, NoCallIsARow DEF EnvironmentTypeOK
<1>6. CallsAreInOrder'
  BY <1>1, <1>2, NoCallIsARow DEF CallsAreInOrder
<1>7. ASSUME ~overlapped', ~torn' PROVE OneAtATime' /\ FileInStep' /\ ScopesInStep'
  <2>1. /\ ScopesInStep
        /\ \A c \in Calls : call[c].kind # "none" => call[c].step # "register"
        /\ \A c \in Calls : call[c].kind = "remove" => call[c].scope # TheApp
    BY <1>1, <1>7, EnvironmentParts
  <2>2. (\A s \in Scopes : ~Registering(s)) /\ ~Removing(TheApp)
    BY <1>2, <2>1, NoCallIsARow DEF Registering, Removing, CallsAreInOrder
  <2>3. ASSUME NEW s \in Scopes
        PROVE  /\ Sensitive(variables'[s]) \subseteq stored'[s]
               /\ s \notin exists' => stored'[s] = {}
    <3>1. CASE s \in EnvInstances \ exists
      BY <1>1, <1>2, <1>3, <3>1, NoCallIsARow DEF CallsAreInOrder
    <3>2. CASE s \notin EnvInstances \ exists
      <4>1. stored'[s] = stored[s] /\ Sensitive(variables[s]) \subseteq stored[s]
        BY <1>3, <2>1, <2>2, <3>2 DEF ScopesInStep
      <4>2. s \notin exists => s = TheApp
        BY <3>2 DEF Scopes
      <4> QED  BY <1>1, <2>1, <2>2, <4>1, <4>2 DEF ScopesInStep
    <3> QED  BY <3>1, <3>2
  <2>4. \A c \in Calls : call'[c] = NoCall
    BY <1>1
  <2> QED  BY <2>3, <2>4, NoneIsLeft
<1> QED  BY <1>5, <1>6, <1>7, EnvironmentParts

\* Every step keeps the inductive invariant.
LEMMA EnvironmentStepHolds ==
    EnvironmentInductive /\ [EnvironmentNext]_environmentVars => EnvironmentInductive'
<1> SUFFICES ASSUME EnvironmentInductive, [EnvironmentNext]_environmentVars
             PROVE  EnvironmentInductive'
  OBVIOUS
<1>1. CASE UNCHANGED environmentVars
  BY <1>1 DEF environmentVars, EnvironmentInductive, EnvironmentTypeOK, CallsAreInOrder,
     OneEditAtATime, Registering, Removing
<1>2. ASSUME NEW c \in Calls, NEW s \in Scopes, Replace(c, s) \/ Delete(c, s)
      PROVE  EnvironmentInductive'
  BY <1>2, ReplaceIsSafe, DeleteIsSafe
<1>3. ASSUME NEW c \in Calls,
             ReadDocument(c) \/ WriteDocument(c) \/ Register(c) \/ FileFails(c)
      PROVE  EnvironmentInductive'
  BY <1>3, ReadDocumentIsSafe, WriteDocumentIsSafe, RegisterIsSafe, FileFailsIsSafe
<1> QED  BY <1>1, <1>2, <1>3, InstallIsSafe, RestartIsSafe DEF EnvironmentNext

\* Edits of the environment that come one after the other, and end or do not
\* reach the file, leave no sensitive variable without its value and no value
\* of a scope that is gone, through deletions and restarts of the manager
\* (BwaRegistryService, BwaSecretStore): for any Instances, names and requests.
THEOREM EnvironmentInvariantHolds == EnvironmentSpec => []EnvironmentInvariant
BY EnvironmentInitHolds, EnvironmentStepHolds, EnvironmentInductiveSuffices, PTL DEF EnvironmentSpec
=============================================================================
