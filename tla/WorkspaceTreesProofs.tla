------------------------ MODULE WorkspaceTreesProofs ------------------------
(***************************************************************************)
(* Proofs about the commit of a Run (WorkspaceCommit) and the exchange     *)
(* between main and a Workspace (WorkspaceExchange), for every starting    *)
(* tree, Upper and request.                                                *)
(*                                                                         *)
(* Of the commit: the Upper is written while it is read, and yet the bytes *)
(* are those of the scan (CommitInductive); the projection, path by path,  *)
(* shows what the Upper shows over the base (TargetShows), because parents *)
(* come first and a path hides what is below it and nothing else; the plan *)
(* reproduces the target (PlanReproducesTheTarget); so what is published   *)
(* is what the Run saw, and nothing but a late write can stop it.  That    *)
(* needs to be known of the Upper: it is one overlayfs leaves behind       *)
(* (Overlays), which every write of the Run keeps.                         *)
(*                                                                         *)
(* Of the exchange: refs and Runs change while a request is on its way     *)
(* (ExchangeInductive), and what is copied has new ids, fits under the     *)
(* directory it goes to and is what was selected (ExchangeCopiesInductive, *)
(* from CopyIntoCopies for one entry after the other).                     *)
(***************************************************************************)
EXTENDS MCWorkspaceTrees, FileTreeProofs, SequenceTheorems

-----------------------------------------------------------------------------
(* Commit: the bytes of the Upper.                                         *)

\* A path is not above itself.
LEMMA NotAboveItself ==
    ASSUME NEW path \in Seq(Names)
    PROVE  path \notin Above(path)
<1> SUFFICES ASSUME NEW i \in 1..(Len(path) - 1), SubSeq(path, 1, i) = path PROVE FALSE
  BY DEF Above
<1>1. Len(path) \in Nat
  BY LenProperties
<1>2. Len(SubSeq(path, 1, i)) = i
  BY <1>1, SubSeqProperties
<1> QED  BY <1>1, <1>2

\* What the Run writes has the Run's stamp.
LEMMA ChangeIsTheRuns ==
    ASSUME UpperIsTheRuns, phase = "running", NEW path \in Seq(Names), NEW under, NEW node,
           node = None \/ node.stamp = "run", Change(path, under, node)
    PROVE  \A q \in DOMAIN upper' : upper'[q].stamp = "run"
<1> DEFINE up == Above(path) \ DOMAIN upper
           kept == {q \in DOMAIN upper : ~(under /\ IsPrefix(path, q))} \ {path}
<1>1. upper' = [q \in kept \cup up \cup (IF node = None THEN {} ELSE {path}) |->
                  IF q = path THEN node
                  ELSE IF q \in kept THEN upper[q] ELSE Directory(FALSE)]
  BY DEF Change
<1>2. path \notin kept \cup up
  BY NotAboveItself
<1>3. \A q \in kept : upper[q].stamp = "run"
  BY DEF UpperIsTheRuns
<1>4. Directory(FALSE).stamp = "run"
  BY DEF Directory, Writer
<1> HIDE DEF kept, up
<1> QED  BY <1>1, <1>2, <1>3, <1>4

\* Nothing has been scanned or read at first.
LEMMA CommitInitHolds == CommitInit => CommitInductive
BY DEF CommitInit, CommitInductive, UpperIsTheRuns, ScanIsOfTheRun, MaterializedAsScanned

\* The Run writes.
LEMMA RunWritesIsSafe ==
    ASSUME CommitInductive, RunWrites
    PROVE  CommitInductive'
<1>1. /\ phase = "running" /\ UNCHANGED <<phase, scan, reading, taken, late>>
      /\ UpperIsTheRuns /\ MaterializedAsScanned
  BY DEF RunWrites, CommitInductive
<1>2. PICK path \in RunPaths :
          \/ \E c \in Contents : WriteFile(path, c)
          \/ CopyUp(path) \/ MakeDirectory(path) \/ Delete(path) \/ Spoil(path)
  BY DEF RunWrites
<1>3. path \in Seq(Names)
  BY CommitAssumption
<1>4. ASSUME ~Spoil(path)
      PROVE  \E under \in BOOLEAN : \E node :
                (node = None \/ node.stamp = "run") /\ Change(path, under, node)
  <2>1. \A c, touched, opaque : /\ File(c, touched).stamp = "run"
                                /\ Directory(opaque).stamp = "run" /\ Whiteout.stamp = "run"
    BY <1>1 DEF File, Directory, Whiteout, Writer
  <2>2. CASE \E c \in Contents : WriteFile(path, c)
    BY <2>1, <2>2 DEF WriteFile
  <2>3. CASE CopyUp(path)
    BY <2>1, <2>3 DEF CopyUp
  <2>4. CASE MakeDirectory(path)
    BY <2>1, <2>4 DEF MakeDirectory
  <2>5. CASE Delete(path)
    <3>1. CASE ShowsThrough(path)
      BY <2>1, <2>5, <3>1 DEF Delete
    <3>2. CASE ~ShowsThrough(path)
      BY <2>5, <3>2 DEF Delete
    <3> QED  BY <3>1, <3>2
  <2> QED  BY <1>2, <1>4, <2>2, <2>3, <2>4, <2>5
<1>5. \A q \in DOMAIN upper' : upper'[q].stamp = "run"
  <2>1. CASE Spoil(path)
    <3>1. PICK d : upper' = [upper EXCEPT ![path].defect = d]
      BY <2>1 DEF Spoil
    <3> QED  BY <1>1, <3>1 DEF UpperIsTheRuns
  <2>2. CASE ~Spoil(path)
    BY <1>1, <1>3, <1>4, <2>2, ChangeIsTheRuns
  <2> QED  BY <2>1, <2>2
<1> QED  BY <1>1, <1>5 DEF CommitInductive, UpperIsTheRuns, ScanIsOfTheRun, MaterializedAsScanned

\* Stop and the scan: the Upper that is scanned is the Run's.
LEMMA ScanIsSafe ==
    ASSUME CommitInductive, Stop \/ ScanUpper
    PROVE  CommitInductive'
<1>1. CASE Stop
  BY <1>1 DEF Stop, CommitInductive, UpperIsTheRuns, ScanIsOfTheRun, MaterializedAsScanned
<1>2. CASE ScanUpper
  <2>1. phase = "stopped" /\ phase' \notin {"running", "stopped"}
    BY <1>2 DEF ScanUpper
  <2> QED
    BY <1>2, <2>1 DEF ScanUpper, CommitInductive, UpperIsTheRuns, ScanIsOfTheRun,
       MaterializedAsScanned, ScannedFiles
<1> QED  BY <1>1, <1>2

\* A write after the scan leaves its stamp.
LEMMA LateWriteIsSafe ==
    ASSUME CommitInductive, LateWrite
    PROVE  CommitInductive'
<1>1. /\ phase = "scanned" /\ late' = TRUE /\ UNCHANGED <<phase, scan, reading, taken>>
      /\ ScanIsOfTheRun /\ MaterializedAsScanned
  BY DEF LateWrite, CommitInductive
<1>2. PICK path \in DOMAIN upper, c \in Contents : upper' = [upper EXCEPT ![path] = File(c, TRUE)]
  BY DEF LateWrite
<1>3. File(c, TRUE).stamp = "late"
  BY <1>1 DEF File, Writer
<1>4. /\ DOMAIN upper' = DOMAIN upper /\ upper'[path].stamp = "late"
      /\ \A q \in DOMAIN upper : q # path => upper'[q] = upper[q]
  BY <1>2, <1>3
<1>5. ScanIsOfTheRun'
  BY <1>1, <1>4 DEF ScanIsOfTheRun, ScannedFiles
<1> QED  BY <1>1, <1>5 DEF CommitInductive, UpperIsTheRuns, MaterializedAsScanned

\* A commit that gives up.
LEMMA FailIsSafe ==
    ASSUME CommitInductive, phase = "scanned", Fail
    PROVE  CommitInductive'
BY DEF Fail, CommitInductive, UpperIsTheRuns, ScanIsOfTheRun, MaterializedAsScanned, ScannedFiles

\* The first byte is of the file as it was scanned.
LEMMA BeginReadIsSafe ==
    ASSUME CommitInductive, NEW p, BeginRead(p)
    PROVE  CommitInductive'
<1>1. phase = "scanned" /\ p \in ScannedFiles /\ ScanIsOfTheRun
  BY DEF BeginRead, CommitInductive
<1>2. CASE /\ AsScanned(p)
           /\ reading' = [path |-> p, first |-> upper[p].content]
           /\ UNCHANGED <<base, result, upper, edits, phase, scan, left, taken, late>>
  <2>1. upper[p] = scan[p]
    BY <1>1, <1>2 DEF AsScanned, ScanIsOfTheRun, ScannedFiles
  <2>2. reading'.path = p /\ reading'.first = scan[p].content
    BY <1>2, <2>1
  <2>3. ScanIsOfTheRun'
    BY <1>1, <1>2, <2>2 DEF ScanIsOfTheRun, ScannedFiles
  <2> QED  BY <1>1, <1>2, <2>3 DEF CommitInductive, UpperIsTheRuns, MaterializedAsScanned
<1>3. CASE Fail
  BY <1>1, <1>3, FailIsSafe
<1> QED  BY <1>2, <1>3 DEF BeginRead

\* The file is looked at again after its last byte: what was read in between
\* is what was scanned.
LEMMA EndReadIsSafe ==
    ASSUME CommitInductive, EndRead
    PROVE  CommitInductive'
<1>1. /\ phase = "scanned" /\ reading # None /\ ScanIsOfTheRun /\ MaterializedAsScanned
      /\ reading.path \in ScannedFiles /\ reading.first = scan[reading.path].content
  BY DEF EndRead, CommitInductive, ScanIsOfTheRun
<1>2. CASE AsScanned(reading.path) /\ ~Fail
  <2>1. upper[reading.path] = scan[reading.path]
    BY <1>1, <1>2 DEF AsScanned, ScanIsOfTheRun, ScannedFiles
  <2>2. PICK c \in {reading.first, upper[reading.path].content} :
            taken' = [p \in DOMAIN taken \cup {reading.path} |->
                        IF p = reading.path THEN c ELSE taken[p]]
    BY <1>2 DEF EndRead
  <2>3. c = scan[reading.path].content
    BY <1>1, <2>1
  <2>4. /\ reading' = None
        /\ UNCHANGED <<base, result, upper, edits, phase, scan, left, late>>
    BY <1>2 DEF EndRead
  <2>5. DOMAIN taken' = DOMAIN taken \cup {reading.path}
    BY <2>2
  <2>6. \A p \in DOMAIN taken' : taken'[p] = scan[p].content
    BY <1>1, <2>2, <2>3 DEF MaterializedAsScanned
  <2>7. ScanIsOfTheRun'
    BY <1>1, <2>4, <2>5 DEF ScanIsOfTheRun, ScannedFiles
  <2> QED  BY <1>1, <2>4, <2>6, <2>7 DEF CommitInductive, UpperIsTheRuns, MaterializedAsScanned
<1>3. CASE Fail
  BY <1>1, <1>3, FailIsSafe
<1> QED  BY <1>2, <1>3 DEF EndRead

\* The target is planned and published, or refused.
LEMMA PublishTargetIsSafe ==
    ASSUME CommitInductive, PublishTarget
    PROVE  CommitInductive'
<1>1. phase = "scanned" /\ ScanIsOfTheRun /\ MaterializedAsScanned
  BY DEF PublishTarget, CommitInductive
<1>2. CASE /\ phase' \in {"unchanged", "published"}
           /\ UNCHANGED <<base, upper, edits, scan, left, reading, taken, late>>
  <2>1. phase' \notin {"running", "stopped"}
    BY <1>2
  <2>2. ScanIsOfTheRun' /\ MaterializedAsScanned'
    BY <1>1, <1>2 DEF ScanIsOfTheRun, ScannedFiles, MaterializedAsScanned
  <2> QED  BY <2>1, <2>2 DEF CommitInductive, UpperIsTheRuns
<1>3. CASE Fail
  BY <1>1, <1>3, FailIsSafe
<1> QED  BY <1>2, <1>3 DEF PublishTarget

\* Every step keeps the inductive invariant.
LEMMA CommitStepHolds == CommitInductive /\ [CommitNext]_commitVars => CommitInductive'
<1> SUFFICES ASSUME CommitInductive, [CommitNext]_commitVars PROVE CommitInductive'
  OBVIOUS
<1>1. CASE UNCHANGED commitVars
  BY <1>1 DEF commitVars, CommitInductive, UpperIsTheRuns, ScanIsOfTheRun, MaterializedAsScanned,
     ScannedFiles
<1> QED  BY <1>1, RunWritesIsSafe, ScanIsSafe, LateWriteIsSafe, BeginReadIsSafe, EndReadIsSafe,
            PublishTargetIsSafe DEF CommitNext

\* The bytes that go into a commit are those that its scan announced, for every
\* tree, Upper and order of writes (UpperContentMaterializer, verifyStat).
THEOREM MaterializedAsScannedHolds == CommitSpec => []MaterializedAsScanned
<1>1. CommitInductive => MaterializedAsScanned
  BY DEF CommitInductive
<1> QED  BY <1>1, CommitInitHolds, CommitStepHolds, PTL DEF CommitSpec

-----------------------------------------------------------------------------
(* Exchange: what a request has read.                                      *)

\* A ref stays, or moves to a revision that nobody has read.
MainMoves == (UNCHANGED <<main, mainRev>>) \/ mainRev' = mainRev + 1
WorkspaceMoves == (UNCHANGED <<ws, wsRev>>) \/ wsRev' = wsRev + 1

\* What was read stays of its revision: a ref never returns to one.
LEMMA ReadingStays ==
    ASSUME ExchangeInductive, MainMoves, WorkspaceMoves, DOMAIN exchange' = ExchangeIds,
           \A x \in ExchangeIds : Open(x)' =>
              \/ Open(x) /\ exchange'[x] = exchange[x]
              \/ ReadAtItsRevision(exchange[x])'
    PROVE  ExchangeInductive'
<1>1. mainRev' \in Nat /\ wsRev' \in Nat
  BY DEF ExchangeInductive, MainMoves, WorkspaceMoves
<1>2. ASSUME NEW x \in ExchangeIds, Open(x)'
      PROVE  ReadAtItsRevision(exchange[x])'
  <2>1. CASE Open(x) /\ exchange'[x] = exchange[x]
    <3> DEFINE row == exchange[x]
    <3>1. /\ IsRequest(row)
          /\ row.mainRev \in 0..mainRev /\ (row.mainRev = mainRev => row.main = main)
          /\ row.wsRev \in 0..wsRev /\ (row.wsRev = wsRev => row.ws = ws)
      BY <2>1 DEF ExchangeInductive, ReadAtItsRevision
    <3>2. mainRev \in Nat /\ wsRev \in Nat
      BY DEF ExchangeInductive
    <3> HIDE DEF row
    <3>3. row.mainRev \in 0..mainRev' /\ (row.mainRev = mainRev' => row.main = main')
      BY <3>1, <3>2 DEF MainMoves
    <3>4. row.wsRev \in 0..wsRev' /\ (row.wsRev = wsRev' => row.ws = ws')
      BY <3>1, <3>2 DEF WorkspaceMoves
    <3>5. exchange'[x] = row
      BY <2>1 DEF row
    <3> QED  BY <3>1, <3>3, <3>4, <3>5 DEF ReadAtItsRevision
  <2> QED  BY <1>2, <2>1
<1> QED  BY <1>1, <1>2 DEF ExchangeInductive

\* A published ref has the next revision.
LEMMA AdvancesMoves ==
    /\ \A ops : AdvanceMain(ops) => MainMoves
    /\ \A ops : AdvanceWorkspace(ops) => WorkspaceMoves
BY DEF AdvanceMain, AdvanceWorkspace, Advances, MainMoves, WorkspaceMoves

\* An answer closes one request and leaves the others.
LEMMA AnswerLeavesOthers ==
    ASSUME ExchangeInductive, NEW x \in ExchangeIds, Answer(x)
    PROVE  /\ DOMAIN exchange' = ExchangeIds
           /\ ~Open(x)'
           /\ \A y \in ExchangeIds \ {x} : exchange'[y] = exchange[y]
           /\ \A y \in ExchangeIds : Open(y)' => Open(y) /\ exchange'[y] = exchange[y]
<1>1. exchange' = [exchange EXCEPT ![x] = Answered] /\ DOMAIN exchange = ExchangeIds
  BY DEF Answer, ExchangeInductive
<1>2. /\ DOMAIN exchange' = ExchangeIds /\ exchange'[x] = Answered
      /\ \A y \in ExchangeIds \ {x} : exchange'[y] = exchange[y]
  BY <1>1
<1> QED  BY <1>2 DEF Open

\* No request is open at first.
LEMMA ExchangeInitHolds == ExchangeInit => ExchangeInductive
BY DEF ExchangeInit, ExchangeInductive, Open

\* What the requests meet: other transactions and Runs leave the requests.
LEMMA OthersAreSafe ==
    ASSUME ExchangeInductive, EditMain \/ StartRun \/ CommitRun \/ FailOrDiscardRun
    PROVE  ExchangeInductive'
<1>1. exchange' = exchange
  BY DEF EditMain, StartRun, CommitRun, FailOrDiscardRun
<1>2. MainMoves /\ WorkspaceMoves
  <2>1. CASE EditMain
    <3>1. PICK op : AdvanceMain(<<op>>)
      BY <2>1 DEF EditMain
    <3> QED  BY <2>1, <3>1, AdvancesMoves DEF EditMain, workspaceRef, WorkspaceMoves
  <2>2. CASE StartRun
    BY <2>2 DEF StartRun, mainRef, workspaceRef, MainMoves, WorkspaceMoves
  <2>3. CASE CommitRun
    <3>1. PICK op : AdvanceWorkspace(<<op>>)
      BY <2>3 DEF CommitRun
    <3> QED  BY <2>3, <3>1, AdvancesMoves DEF CommitRun, mainRef, MainMoves
  <2>4. CASE FailOrDiscardRun
    BY <2>4 DEF FailOrDiscardRun, mainRef, workspaceRef, MainMoves, WorkspaceMoves
  <2> QED  BY <2>1, <2>2, <2>3, <2>4
<1>3. DOMAIN exchange' = ExchangeIds
  BY <1>1 DEF ExchangeInductive
<1>4. \A x \in ExchangeIds : Open(x)' => Open(x) /\ exchange'[x] = exchange[x]
  BY <1>1 DEF Open
<1> QED  BY <1>2, <1>3, <1>4, ReadingStays

\* A request starts from the present revisions of both refs.
LEMMA AskIsSafe ==
    ASSUME ExchangeInductive, NEW x \in ExchangeIds, NEW kind, NEW select, NEW into, NEW policy,
           Ask(x, kind, select, into, policy)
    PROVE  ExchangeInductive'
<1> DEFINE row == [kind |-> kind, main |-> main, mainRev |-> mainRev, ws |-> ws, wsRev |-> wsRev,
                   select |-> select, into |-> into, policy |-> policy, ops |-> None]
<1>1. /\ exchange' = [exchange EXCEPT ![x] = row]
      /\ UNCHANGED <<main, mainRev, ws, wsRev>>
      /\ mainRev \in Nat /\ wsRev \in Nat /\ DOMAIN exchange = ExchangeIds
  BY DEF Ask, mainRef, workspaceRef, ExchangeInductive
<1>2. /\ IsRequest(row)
      /\ row.main = main /\ row.mainRev = mainRev /\ row.ws = ws /\ row.wsRev = wsRev
  BY DEF IsRequest
<1> HIDE DEF row
<1>3. /\ DOMAIN exchange' = ExchangeIds /\ exchange'[x] = row
      /\ \A y \in ExchangeIds \ {x} : exchange'[y] = exchange[y]
  BY <1>1
<1>4. ReadAtItsRevision(exchange[x])'
  BY <1>1, <1>2, <1>3 DEF ReadAtItsRevision
<1>5. \A y \in ExchangeIds : Open(y)' =>
         \/ Open(y) /\ exchange'[y] = exchange[y]
         \/ ReadAtItsRevision(exchange[y])'
  <2> SUFFICES ASSUME NEW y \in ExchangeIds, Open(y)'
               PROVE  \/ Open(y) /\ exchange'[y] = exchange[y]
                      \/ ReadAtItsRevision(exchange[y])'
    OBVIOUS
  <2>1. CASE y = x
    BY <1>4, <2>1
  <2>2. CASE y # x
    BY <1>3, <2>2 DEF Open
  <2> QED  BY <2>1, <2>2
<1>6. MainMoves /\ WorkspaceMoves
  BY <1>1 DEF MainMoves, WorkspaceMoves
<1> QED  BY <1>3, <1>5, <1>6, ReadingStays

\* A plan adds its operations to what the request has read.
LEMMA ProceedIsSafe ==
    ASSUME ExchangeInductive, NEW x \in ExchangeIds, Open(x), NEW ops, Proceed(x, ops)
    PROVE  ExchangeInductive'
<1>1. /\ UNCHANGED <<main, mainRev, ws, wsRev>> /\ DOMAIN exchange = ExchangeIds
      /\ ReadAtItsRevision(exchange[x])
  BY DEF Proceed, mainRef, workspaceRef, ExchangeInductive
<1>2. MainMoves /\ WorkspaceMoves
  BY <1>1 DEF MainMoves, WorkspaceMoves
<1>3. CASE ops = Refused
  <2>1. Answer(x)
    BY <1>3 DEF Proceed
  <2> QED  BY <1>2, <2>1, AnswerLeavesOthers, ReadingStays
<1>4. CASE ops # Refused
  <2> DEFINE row == exchange[x]
             planned == [row EXCEPT !.ops = ops]
  <2>1. exchange' = [exchange EXCEPT ![x] = planned]
    BY <1>4 DEF Proceed
  <2>2. IsRequest(planned)
    BY <1>1 DEF ReadAtItsRevision, IsRequest
  <2>3. /\ planned.main = row.main /\ planned.mainRev = row.mainRev
        /\ planned.ws = row.ws /\ planned.wsRev = row.wsRev
    BY <1>1 DEF ReadAtItsRevision, IsRequest
  <2>4. /\ row.mainRev \in 0..mainRev /\ (row.mainRev = mainRev => row.main = main)
        /\ row.wsRev \in 0..wsRev /\ (row.wsRev = wsRev => row.ws = ws)
    BY <1>1 DEF ReadAtItsRevision
  <2> HIDE DEF planned
  <2>5. /\ DOMAIN exchange' = ExchangeIds /\ exchange'[x] = planned
        /\ \A y \in ExchangeIds \ {x} : exchange'[y] = exchange[y]
    BY <1>1, <2>1
  <2> HIDE DEF row
  <2>6. ReadAtItsRevision(exchange[x])'
    BY <1>1, <2>2, <2>3, <2>4, <2>5 DEF ReadAtItsRevision
  <2>7. \A y \in ExchangeIds : Open(y)' =>
           \/ Open(y) /\ exchange'[y] = exchange[y]
           \/ ReadAtItsRevision(exchange[y])'
    <3> SUFFICES ASSUME NEW y \in ExchangeIds, Open(y)'
                 PROVE  \/ Open(y) /\ exchange'[y] = exchange[y]
                        \/ ReadAtItsRevision(exchange[y])'
      OBVIOUS
    <3>1. CASE y = x
      BY <2>6, <3>1
    <3>2. CASE y # x
      BY <2>5, <3>2 DEF Open
    <3> QED  BY <3>1, <3>2
  <2> QED  BY <1>2, <2>5, <2>7, ReadingStays
<1> QED  BY <1>3, <1>4

\* The last step of a request closes it, whatever it has published.
LEMMA AnswerIsSafe ==
    ASSUME ExchangeInductive, NEW x \in ExchangeIds, Answer(x), MainMoves, WorkspaceMoves
    PROVE  ExchangeInductive'
BY AnswerLeavesOthers, ReadingStays

\* The steps of a request.
LEMMA RequestIsSafe ==
    ASSUME ExchangeInductive, NEW x \in ExchangeIds,
           \/ AskImport(x) \/ AskAdd(x) \/ AskDerive(x) \/ AskDiff(x)
           \/ PlanImport(x) \/ PublishImport(x) \/ PlanAdd(x) \/ PublishAdd(x)
           \/ PublishDerived(x) \/ FinishDiff(x) \/ GiveUp(x)
    PROVE  ExchangeInductive'
<1>1. CASE AskImport(x)
  BY <1>1, AskIsSafe DEF AskImport
<1>2. CASE AskAdd(x)
  BY <1>2, AskIsSafe DEF AskAdd
<1>3. CASE AskDerive(x)
  BY <1>3, AskIsSafe DEF AskDerive
<1>4. CASE AskDiff(x)
  BY <1>4, AskIsSafe DEF AskDiff
<1>5. CASE PlanImport(x)
  BY <1>5, ProceedIsSafe DEF PlanImport, Asked
<1>6. CASE PlanAdd(x)
  BY <1>6, ProceedIsSafe DEF PlanAdd, Asked
<1>7. CASE PublishImport(x)
  <2>1. Answer(x) /\ WorkspaceMoves
    BY <1>7 DEF PublishImport, workspaceRef, WorkspaceMoves
  <2>2. CASE exchange[x].mainRev = mainRev
    BY <1>7, <2>1, <2>2, AnswerIsSafe, AdvancesMoves DEF PublishImport
  <2>3. CASE exchange[x].mainRev # mainRev
    BY <1>7, <2>1, <2>3, AnswerIsSafe DEF PublishImport, mainRef, MainMoves
  <2> QED  BY <2>2, <2>3
<1>8. CASE PublishAdd(x)
  <2>1. Answer(x) /\ MainMoves
    BY <1>8 DEF PublishAdd, mainRef, MainMoves
  <2>2. CASE Guarded(x)
    BY <1>8, <2>1, <2>2, AnswerIsSafe, AdvancesMoves DEF PublishAdd
  <2>3. CASE ~Guarded(x)
    BY <1>8, <2>1, <2>3, AnswerIsSafe DEF PublishAdd, workspaceRef, WorkspaceMoves
  <2> QED  BY <2>2, <2>3
<1>9. CASE PublishDerived(x)
  <2>1. Answer(x) /\ MainMoves /\ WorkspaceMoves
    BY <1>9 DEF PublishDerived, mainRef, workspaceRef, MainMoves, WorkspaceMoves
  <2> QED  BY <2>1, AnswerIsSafe
<1>10. CASE FinishDiff(x)
  <2>1. Answer(x) /\ MainMoves /\ WorkspaceMoves
    BY <1>10 DEF FinishDiff, mainRef, workspaceRef, MainMoves, WorkspaceMoves
  <2> QED  BY <2>1, AnswerIsSafe
<1>11. CASE GiveUp(x)
  <2>1. Answer(x) /\ MainMoves /\ WorkspaceMoves
    BY <1>11 DEF GiveUp, mainRef, workspaceRef, MainMoves, WorkspaceMoves
  <2> QED  BY <2>1, AnswerIsSafe
<1> QED  BY <1>1, <1>2, <1>3, <1>4, <1>5, <1>6, <1>7, <1>8, <1>9, <1>10, <1>11

\* Every step keeps the inductive invariant.
LEMMA ExchangeStepHolds == ExchangeInductive /\ [ExchangeNext]_exchangeVars => ExchangeInductive'
<1> SUFFICES ASSUME ExchangeInductive, [ExchangeNext]_exchangeVars PROVE ExchangeInductive'
  OBVIOUS
<1>1. CASE UNCHANGED exchangeVars
  BY <1>1 DEF exchangeVars, ExchangeInductive, Open, ReadAtItsRevision
<1>2. CASE EditMain \/ StartRun \/ CommitRun \/ FailOrDiscardRun
  BY <1>2, OthersAreSafe
<1>3. CASE \E x \in ExchangeIds :
              \/ AskImport(x) \/ AskAdd(x) \/ AskDerive(x) \/ AskDiff(x)
              \/ PlanImport(x) \/ PublishImport(x) \/ PlanAdd(x) \/ PublishAdd(x)
              \/ PublishDerived(x) \/ FinishDiff(x) \/ GiveUp(x)
  BY <1>3, RequestIsSafe
<1> QED  BY <1>1, <1>2, <1>3 DEF ExchangeNext

-----------------------------------------------------------------------------
(* Exchange: the steps that publish and that answer.                       *)

\* A step that is not a publication or an answer leaves what it would change.
LEMMA OnlyAPublicationMovesTheWorkspace ==
    ASSUME [ExchangeNext]_exchangeVars, wsRev' # wsRev
    PROVE  \/ CommitRun
           \/ \E x \in ExchangeIds : PublishAdd(x) /\ Guarded(x)
<1>1. wsRev' # wsRev => ~UNCHANGED workspaceRef
  BY DEF workspaceRef
<1>2. ~UNCHANGED exchangeVars
  BY DEF exchangeVars
<1>3. ~EditMain /\ ~StartRun /\ ~FailOrDiscardRun
  BY <1>1 DEF EditMain, StartRun, FailOrDiscardRun
<1>4. ASSUME NEW x \in ExchangeIds,
             AskImport(x) \/ AskAdd(x) \/ AskDerive(x) \/ AskDiff(x)
      PROVE  FALSE
  BY <1>1, <1>4 DEF AskImport, AskAdd, AskDerive, AskDiff, Ask
<1>5. ASSUME NEW x \in ExchangeIds,
             \/ PlanImport(x) \/ PlanAdd(x) \/ PublishImport(x) \/ PublishDerived(x)
             \/ FinishDiff(x) \/ GiveUp(x)
      PROVE  FALSE
  BY <1>1, <1>5 DEF PlanImport, PlanAdd, Proceed, PublishImport, PublishDerived, FinishDiff, GiveUp
<1>6. ASSUME NEW x \in ExchangeIds, PublishAdd(x) PROVE Guarded(x)
  BY <1>1, <1>6 DEF PublishAdd
<1> QED  BY <1>2, <1>3, <1>4, <1>5, <1>6 DEF ExchangeNext

\* One step of AddedOnlyToAQuietWorkspace.
LEMMA AdditionIsGuarded ==
    ASSUME ExchangeInductive, [ExchangeNext]_exchangeVars, NEW x \in ExchangeIds,
           Planned(x, "add"), wsRev' # wsRev, ~Open(x)'
    PROVE  ~running /\ ~unresolved /\ exchange[x].main = main
<1>1. CASE CommitRun
  BY <1>1 DEF CommitRun, Planned, Open
<1>2. ASSUME NEW y \in ExchangeIds, PublishAdd(y), Guarded(y)
      PROVE  ~running /\ ~unresolved /\ exchange[x].main = main
  <2>1. Open(x) /\ Answer(y)
    BY <1>2 DEF Planned, PublishAdd
  <2>2. y = x
    BY <2>1, AnswerLeavesOthers DEF Open
  <2>3. ReadAtItsRevision(exchange[x])
    BY <2>1 DEF ExchangeInductive
  <2> QED  BY <1>2, <2>2, <2>3 DEF Guarded, Writable, ReadAtItsRevision
<1> QED  BY <1>1, <1>2, OnlyAPublicationMovesTheWorkspace

\* Entries of main are added to a Workspace only while no Run holds it and none
\* has failed in it, and only while main is the tree they were chosen in, for
\* every number of requests, Runs and revisions (assertWorkspaceWritable,
\* compareAndSwapGuarded).
THEOREM AddedOnlyToAQuietWorkspaceHolds == ExchangeSpec => AddedOnlyToAQuietWorkspace
<1>1. ExchangeInductive /\ [ExchangeNext]_exchangeVars =>
         [\A x \in ExchangeIds : (Planned(x, "add") /\ wsRev' # wsRev /\ ~Open(x)') =>
              /\ ~running /\ ~unresolved
              /\ exchange[x].main = main]_exchangeVars
  BY AdditionIsGuarded
<1> QED  BY <1>1, ExchangeInitHolds, ExchangeStepHolds, PTL
         DEF ExchangeSpec, AddedOnlyToAQuietWorkspace

\* What a diff does not name is the same in both trees.
LEMMA UnnamedIsTheSame ==
    ASSUME NEW t, NEW u, NEW p \in PathsOf(t) \cup PathsOf(u),
           p \notin {c.path : c \in CompareIndexes(t, u)}
    PROVE  /\ EntryAt(t, p) = EntryAt(u, p)
           /\ t[EntryAt(t, p)].content = u[EntryAt(u, p)].content
<1> SUFFICES ASSUME \/ EntryAt(t, p) # EntryAt(u, p)
                    \/ t[EntryAt(t, p)].content # u[EntryAt(u, p)].content
             PROVE  FALSE
  OBVIOUS
<1> DEFINE change == [path |-> p, before |-> EntryAt(t, p), after |-> EntryAt(u, p)]
<1>1. change \in CompareIndexes(t, u)
  BY DEF CompareIndexes
<1>2. change.path = p
  OBVIOUS
<1> QED  BY <1>1, <1>2

\* One step of DiffDescribesTheWorkspace.
LEMMA AnsweredDiffIsOfThisRevision ==
    ASSUME ExchangeInductive, [ExchangeNext]_exchangeVars, diff' # diff
    PROVE  diff' = CompareIndexes(baseline, ws)
<1>1. ~UNCHANGED exchangeVars
  BY DEF exchangeVars
<1>2. ~UNCHANGED answers
  BY DEF answers
<1>3. ~EditMain /\ ~StartRun /\ ~CommitRun /\ ~FailOrDiscardRun
  BY <1>2 DEF EditMain, StartRun, CommitRun, FailOrDiscardRun
<1>4. ASSUME NEW x \in ExchangeIds,
             AskImport(x) \/ AskAdd(x) \/ AskDerive(x) \/ AskDiff(x)
      PROVE  FALSE
  BY <1>2, <1>4 DEF AskImport, AskAdd, AskDerive, AskDiff, Ask
<1>5. ASSUME NEW x \in ExchangeIds,
             \/ PlanImport(x) \/ PlanAdd(x) \/ PublishImport(x) \/ PublishAdd(x)
             \/ PublishDerived(x) \/ GiveUp(x)
      PROVE  FALSE
  BY <1>2, <1>5 DEF PlanImport, PlanAdd, Proceed, PublishImport, PublishAdd, PublishDerived, GiveUp
<1>6. PICK x \in ExchangeIds : FinishDiff(x)
  BY <1>1, <1>3, <1>4, <1>5 DEF ExchangeNext
<1>7. exchange[x].wsRev = wsRev /\ diff' = CompareIndexes(baseline, exchange[x].ws)
  BY <1>6 DEF FinishDiff
<1>8. ReadAtItsRevision(exchange[x])
  BY <1>6 DEF FinishDiff, Asked, ExchangeInductive
<1> QED  BY <1>7, <1>8 DEF ReadAtItsRevision

\* A diff that is answered is the difference of the baseline and the Workspace
\* at the moment of the answer: what it does not name is the same in both
\* (WorkspaceDiffService, its second read of the ref).
THEOREM DiffDescribesTheWorkspaceHolds == ExchangeSpec => DiffDescribesTheWorkspace
<1>1. ASSUME ExchangeInductive, [ExchangeNext]_exchangeVars, diff' # diff
      PROVE  LET named == {c.path : c \in diff'}
             IN  \A p \in PathsOf(baseline) \cup PathsOf(ws) :
                    p \notin named =>
                       /\ EntryAt(baseline, p) = EntryAt(ws, p)
                       /\ baseline[EntryAt(baseline, p)].content = ws[EntryAt(ws, p)].content
  BY <1>1, AnsweredDiffIsOfThisRevision, UnnamedIsTheSame
<1>2. ExchangeInductive /\ [ExchangeNext]_exchangeVars =>
         [diff' # diff =>
             LET named == {c.path : c \in diff'}
             IN  \A p \in PathsOf(baseline) \cup PathsOf(ws) :
                    p \notin named =>
                       /\ EntryAt(baseline, p) = EntryAt(ws, p)
                       /\ baseline[EntryAt(baseline, p)].content = ws[EntryAt(ws, p)].content]_exchangeVars
  BY <1>1
<1> QED  BY <1>2, ExchangeInitHolds, ExchangeStepHolds, PTL
         DEF ExchangeSpec, DiffDescribesTheWorkspace

-----------------------------------------------------------------------------
(* Exchange: the copies that are planned.                                  *)

\* Each new entry in the directory p has a name that no other entry there has
\* in another case.
NewNamesApart(p, u, made) ==
    \A y \in made : u[y].parent = p =>
       \A other \in DOMAIN u : other # y /\ u[other].parent = p => Fold(u[other].name) # Fold(u[y].name)

\* The operations put a whole copy of each outermost entry into p, under a name
\* it may have, and apart from the others unless the names are kept.
CopiesWell(from, E, to, p, policy, ops) ==
    /\ IsSegment(ops)
    /\ SelectionArrived(from, TopLevel(from, E), to, p, ApplySegment(to, ops), CreatedIds(ops),
                        NamesFor(from, E, policy))
    /\ policy # "keep" => NewNamesApart(p, ApplySegment(to, ops), CreatedIds(ops))

\* Names are kept only of the entries of one directory, and in an empty one.
NamesDiffer(from, E, to, p, policy) ==
    policy = "keep" => /\ NamesIn(to, p) = {}
                       /\ \A d, e \in E : from[d].parent = from[e].parent

\* One round of CopyInto.
CopiedIntoNext(from, acc, e, p, policy) ==
    LET n == AvailableName(acc.names, from[e].name, policy)
        ops == CopyOperations(from, acc.ids, e, p, n)
    IN  IF \/ acc.ops = Refused \/ n = None
           \/ ~RoomFor(acc.ids, Cardinality(DownFrom(from, {e})))
        THEN [acc EXCEPT !.ops = Refused]
        ELSE [ops |-> acc.ops \o ops, ids |-> acc.ids \cup CreatedIds(ops),
              names |-> acc.names \cup {n}]

\* The recursion of CopyInto has a solution.
LEMMA CopyIntoUnfolds ==
    ASSUME NEW from, NEW E, NEW to, NEW ids, NEW p, NEW policy,
           NEW top, top = TopLevel(from, E), Cardinality(top) \in Nat
    PROVE  \E added :
              /\ added[0] = [ops |-> << >>, ids |-> ids, names |-> NamesIn(to, p)]
              /\ \A k \in 1..Cardinality(top) :
                    added[k] = CopiedIntoNext(from, added[k - 1], InOrder(top, ById(top))[k], p, policy)
              /\ CopyInto(from, E, to, ids, p, policy) = added[Cardinality(top)].ops
<1> DEFINE start == [ops |-> << >>, ids |-> ids, names |-> NamesIn(to, p)]
           order == InOrder(top, ById(top))
           S == {n \in Nat : \E f : f = [k \in 0..n |->
                    IF k = 0 THEN start ELSE CopiedIntoNext(from, f[k - 1], order[k], p, policy)]}
<1> HIDE DEF start, order
<1>1. 0 \in S
  <2> DEFINE f == [k \in 0..0 |-> start]
  <2>1. f = [k \in 0..0 |->
               IF k = 0 THEN start ELSE CopiedIntoNext(from, f[k - 1], order[k], p, policy)]
    OBVIOUS
  <2> HIDE DEF f
  <2> QED
    BY <2>1
<1>2. ASSUME NEW n \in Nat, n \in S PROVE n + 1 \in S
  <2>1. PICK f : f = [k \in 0..n |->
               IF k = 0 THEN start ELSE CopiedIntoNext(from, f[k - 1], order[k], p, policy)]
    BY <1>2
  <2> DEFINE g == [k \in 0..(n + 1) |->
                     IF k = n + 1 THEN CopiedIntoNext(from, f[n], order[n + 1], p, policy) ELSE f[k]]
  <2>2. g = [k \in 0..(n + 1) |->
               IF k = 0 THEN start ELSE CopiedIntoNext(from, g[k - 1], order[k], p, policy)]
    BY <2>1
  <2> HIDE DEF g
  <2> QED
    BY <2>2
<1> HIDE DEF S
<1>3. Cardinality(top) \in S
  BY <1>1, <1>2, SetInduction
<1> DEFINE solves(f) == f = [k \in 0..Cardinality(top) |->
               IF k = 0 THEN start ELSE CopiedIntoNext(from, f[k - 1], order[k], p, policy)]
           added == CHOOSE f : solves(f)
<1>4. \E f : solves(f)
  BY <1>3 DEF S
<1>5. CopyInto(from, E, to, ids, p, policy) = added[Cardinality(top)].ops
  BY DEF CopyInto, CopiedIntoNext, start, order
<1>6. solves(added)
  <2> HIDE DEF solves
  <2> QED
    BY <1>4
<1>7. added = [k \in 0..Cardinality(top) |->
               IF k = 0 THEN start ELSE CopiedIntoNext(from, added[k - 1], order[k], p, policy)]
  <2> HIDE DEF added
  <2> QED
    BY <1>6
<1> HIDE DEF added
<1>8. added[0] = start /\ \A k \in 1..Cardinality(top) :
                    added[k] = CopiedIntoNext(from, added[k - 1], order[k], p, policy)
  BY <1>7
<1> QED
  BY <1>5, <1>8 DEF start, order

\* The name that is taken is the entry's or the spare one, and free whatever
\* its case unless names are kept.
LEMMA AvailableNameIsFree ==
    ASSUME NEW names, NEW own \in Names \cup {None}, NEW policy,
           NEW n, n = AvailableName(names, own, policy), n # None
    PROVE  /\ n \in Names
           /\ n = own \/ (policy = "rename" /\ n = Spare)
           /\ policy = "keep" => n = own
           /\ policy # "keep" => \A k \in names : Fold(n) # Fold(k)
BY ExchangeAssumption DEF AvailableName

\* One more entry is copied, under a name it may have.
CopiesOneMore(from, acc, e, p, policy, next) ==
    /\ acc.ops # Refused /\ RoomFor(acc.ids, Cardinality(DownFrom(from, {e})))
    /\ \E n \in Names :
          /\ n = from[e].name \/ (policy = "rename" /\ n = Spare)
          /\ policy = "keep" => n = from[e].name
          /\ policy # "keep" => \A k \in acc.names : Fold(n) # Fold(k)
          /\ next.ops = acc.ops \o CopyOperations(from, acc.ids, e, p, n)
          /\ next.ids = acc.ids \cup CreatedIds(CopyOperations(from, acc.ids, e, p, n))
          /\ next.names = acc.names \cup {n}

\* A round that is not refused does that.
LEMMA CopyIntoGoesOn ==
    ASSUME NEW from, NEW acc, acc = [ops |-> acc.ops, ids |-> acc.ids, names |-> acc.names],
           NEW e, from[e].name \in Names \cup {None}, NEW p, NEW policy,
           NEW next, next = CopiedIntoNext(from, acc, e, p, policy)
    PROVE  /\ next = [ops |-> next.ops, ids |-> next.ids, names |-> next.names]
           /\ next.ops # Refused => CopiesOneMore(from, acc, e, p, policy, next)
<1> DEFINE own == from[e].name
           n == AvailableName(acc.names, from[e].name, policy)
           ops == CopyOperations(from, acc.ids, e, p, n)
           stops == \/ acc.ops = Refused \/ n = None
                    \/ ~RoomFor(acc.ids, Cardinality(DownFrom(from, {e})))
           olds == acc.ops
           ids == acc.ids
           names == acc.names
<1>1. next = IF stops THEN [acc EXCEPT !.ops = Refused]
             ELSE [ops |-> olds \o ops, ids |-> ids \cup CreatedIds(ops), names |-> names \cup {n}]
  BY DEF CopiedIntoNext
<1>2. acc = [ops |-> olds, ids |-> ids, names |-> names]
  OBVIOUS
<1>3. ~stops => /\ olds # Refused /\ n # None
                /\ RoomFor(ids, Cardinality(DownFrom(from, {e})))
  OBVIOUS
<1>4. n # None => /\ n \in Names
                  /\ n = own \/ (policy = "rename" /\ n = Spare)
                  /\ policy = "keep" => n = own
                  /\ policy # "keep" => \A k \in names : Fold(n) # Fold(k)
  <2>1. n = AvailableName(names, own, policy) /\ own \in Names \cup {None}
    OBVIOUS
  <2> HIDE DEF n, names, own
  <2> QED
    BY <2>1, AvailableNameIsFree
<1>5. ops = CopyOperations(from, ids, e, p, n)
  OBVIOUS
<1>6. own = from[e].name
  OBVIOUS
<1> HIDE DEF olds, ids, names, n, ops, stops, own
<1>7. CASE stops
  <2>1. next = [acc EXCEPT !.ops = Refused]
    BY <1>1, <1>7
  <2>2. next = [ops |-> Refused, ids |-> ids, names |-> names]
    BY <1>2, <2>1
  <2> QED
    BY <2>2
<1>8. CASE ~stops
  <2>1. next = [ops |-> olds \o ops, ids |-> ids \cup CreatedIds(ops), names |-> names \cup {n}]
    BY <1>1, <1>8
  <2>2. /\ next.ops = olds \o ops /\ next.ids = ids \cup CreatedIds(ops)
        /\ next.names = names \cup {n}
        /\ next = [ops |-> next.ops, ids |-> next.ids, names |-> next.names]
    BY <2>1
  <2>3. /\ n \in Names
        /\ n = own \/ (policy = "rename" /\ n = Spare)
        /\ policy = "keep" => n = own
        /\ policy # "keep" => \A k \in names : Fold(n) # Fold(k)
    BY <1>3, <1>4, <1>8
  <2>4. \E m \in Names :
           /\ m = own \/ (policy = "rename" /\ m = Spare)
           /\ policy = "keep" => m = own
           /\ policy # "keep" => \A k \in names : Fold(m) # Fold(k)
           /\ next.ops = olds \o CopyOperations(from, ids, e, p, m)
           /\ next.ids = ids \cup CreatedIds(CopyOperations(from, ids, e, p, m))
           /\ next.names = names \cup {m}
    BY <1>5, <2>2, <2>3
  <2>5. CopiesOneMore(from, acc, e, p, policy, next)
    BY <1>3, <1>6, <1>8, <2>4 DEF olds, ids, names, CopiesOneMore
  <2> QED
    BY <2>2, <2>5
<1> QED
  BY <1>7, <1>8

\* One more copy keeps the names apart.
LEMMA OneMoreNameApart ==
    ASSUME NEW to, IsTree(to), NEW p \in DOMAIN to, NEW v, NEW made,
           DOMAIN v = DOMAIN to \cup made, NewNamesApart(p, v, made),
           NEW names, \A y \in Children(v, p) : v[y].name \in names,
           NEW n, \A k \in names : Fold(n) # Fold(k),
           NEW from, NEW e, NEW u, NEW new, HasArrived(from, e, v, p, n, u, new)
    PROVE  NewNamesApart(p, u, made \cup new)
<1>1. /\ new \cap DOMAIN v = {} /\ DOMAIN u = DOMAIN v \cup new
      /\ \A y \in DOMAIN v : u[y] = v[y]
  BY DEF HasArrived
<1>2. PICK top \in new : /\ u[top].parent = p /\ u[top].name = n
                         /\ \A y \in new \ {top} : u[y].parent \in new
  BY DEF HasArrived
<1>3. \A y \in new : u[y].parent = p => y = top
  BY <1>1, <1>2
<1>4. \A y \in DOMAIN v : u[y].parent = p => Fold(n) # Fold(u[y].name)
  BY <1>1 DEF Children
<1>5. \A y \in made : y \in DOMAIN v
  OBVIOUS
<1> SUFFICES ASSUME NEW y \in made \cup new, u[y].parent = p,
                    NEW other \in DOMAIN u, other # y, u[other].parent = p
             PROVE  Fold(u[other].name) # Fold(u[y].name)
  BY DEF NewNamesApart
<1>6. CASE y \in new
  BY <1>1, <1>2, <1>3, <1>4, <1>6
<1>7. CASE y \in made /\ other \in new
  BY <1>2, <1>3, <1>4, <1>5, <1>7
<1>8. CASE y \in made /\ other \in DOMAIN v
  <2>1. v[y].parent = p /\ v[other].parent = p
    BY <1>1, <1>5, <1>8
  <2>2. Fold(v[other].name) # Fold(v[y].name)
    BY <1>8, <2>1 DEF NewNamesApart
  <2> QED
    BY <1>1, <1>5, <1>8, <2>2
<1> QED
  BY <1>1, <1>6, <1>7, <1>8

\* The selection is copied, one entry after the other, each whole and under a
\* name of its own (planWorkspaceImport, planWorkspaceContentImport).
LEMMA CopyIntoCopies ==
    ASSUME NEW from, IsTree(from), NEW E \in SUBSET DOMAIN from, NEW to, IsTree(to),
           NEW ids, DOMAIN to \subseteq ids, NEW p \in DOMAIN to, to[p].content = None,
           NEW policy, NamesDiffer(from, E, to, p, policy),
           NEW ops, ops = CopyInto(from, E, to, ids, p, policy), ops # Refused
    PROVE  CopiesWell(from, E, to, p, policy, ops)
<1> DEFINE top == TopLevel(from, E)
           named == NamesFor(from, E, policy)
           size == Cardinality(top)
           order == InOrder(top, ById(top))
           done(k) == {order[i] : i \in 1..k}
<1>1. /\ top \subseteq DOMAIN from /\ top \subseteq E
      /\ size \in Nat
      /\ \A i \in 1..size : order[i] \in top
      /\ \A x \in top : \E i \in 1..size : order[i] = x
      /\ \A i, j \in 1..size : order[i] = order[j] => i = j
  <2>1. top \subseteq DOMAIN from /\ top \subseteq E /\ top \in SUBSET EntryIds
    BY TopLevelFacts, TreeFacts
  <2>2. IsFiniteSet(top) /\ IsOrder(top, ById(top))
    BY <2>1, ListedById
  <2> HIDE DEF top
  <2> QED
    BY <2>1, <2>2, InOrderLists
<1>2. PICK added :
         /\ added[0] = [ops |-> << >>, ids |-> ids, names |-> NamesIn(to, p)]
         /\ \A k \in 1..size : added[k] = CopiedIntoNext(from, added[k - 1], order[k], p, policy)
         /\ CopyInto(from, E, to, ids, p, policy) = added[size].ops
  <2>1. top = TopLevel(from, E) /\ Cardinality(top) \in Nat
    BY <1>1
  <2> HIDE DEF top, done
  <2> QED
    BY <2>1, CopyIntoUnfolds
<1>3. /\ \A e \in top : <<e, from[e].name>> \in named
      /\ policy = "rename" => \A e \in top : <<e, Spare>> \in named
      /\ \A d, e \in top : policy = "keep" /\ from[d].name = from[e].name => d = e
  <2>1. \A d, e \in DOMAIN from :
           (from[d].parent = from[e].parent /\ from[d].name = from[e].name) => d = e
    BY DEF IsTree, ValidTree
  <2> HIDE DEF top
  <2> QED
    BY <1>1, <2>1 DEF NamesFor, NamesDiffer
<1>4. policy = "keep" => NamesIn(to, p) = {}
  BY DEF NamesDiffer
<1> HIDE DEF named
<1> DEFINE IsRow(k) == added[k] = [ops |-> added[k].ops, ids |-> added[k].ids, names |-> added[k].names]
           Reached(k) ==
             /\ CopiedSoFar(from, done(k), to, p, ids, added[k].names, added[k].ops, added[k].ids,
                            named)
             /\ IF policy = "keep" THEN added[k].names = {from[d].name : d \in done(k)}
                ELSE NewNamesApart(p, ApplySegment(to, added[k].ops), CreatedIds(added[k].ops))
           S == {k \in Nat : k <= size => IsRow(k) /\ (added[k].ops # Refused => Reached(k))}
<1> HIDE DEF top, size, order
<1>5. 0 \in S
  <2>1. done(0) = {}
    OBVIOUS
  <2>2. /\ IsRow(0) /\ added[0].ops = << >> /\ added[0].ids = ids /\ added[0].names = NamesIn(to, p)
    BY <1>2
  <2>3. NamesIn(to, p) = {to[y].name : y \in Children(to, p)}
    BY DEF NamesIn
  <2> HIDE DEF done
  <2>4. CopiedSoFar(from, {}, to, p, ids, {to[y].name : y \in Children(to, p)}, << >>, ids,
                    named)
    BY NothingIsCopied
  <2>5. CreatedIds(<< >>) = {}
    BY OneOperation
  <2>6. NewNamesApart(p, ApplySegment(to, << >>), CreatedIds(<< >>))
    BY <2>5 DEF NewNamesApart
  <2>7. policy = "keep" => added[0].names = {from[d].name : d \in done(0)}
    BY <1>4, <2>1, <2>2
  <2>8. Reached(0)
    BY <2>1, <2>2, <2>3, <2>4, <2>6, <2>7
  <2> QED
    BY <2>2, <2>8
<1>6. ASSUME NEW k \in Nat, k \in S PROVE k + 1 \in S
  <2> SUFFICES ASSUME k + 1 <= size
               PROVE  IsRow(k + 1) /\ (added[k + 1].ops # Refused => Reached(k + 1))
    OBVIOUS
  <2> DEFINE e == order[k + 1]
             acc == added[k]
             next == added[k + 1]
  <2>1. k <= size /\ k + 1 \in 1..size /\ (k + 1) - 1 = k
    BY <1>1
  <2>2. IsRow(k) /\ (acc.ops # Refused => Reached(k))
    BY <1>6, <2>1
  <2>3. e \in DOMAIN from /\ e \in top /\ from[e].name \in Names \cup {None}
    BY <1>1, <2>1, TreeFacts
  <2>4. e \notin done(k) /\ done(k) \subseteq top
    BY <1>1, <2>1
  <2>5. done(k + 1) = done(k) \cup {e}
    <3>1. \A i \in 1..(k + 1) : i \in 1..k \/ i = k + 1
      OBVIOUS
    <3>2. \A i \in 1..k : i \in 1..(k + 1)
      OBVIOUS
    <3>3. k + 1 \in 1..(k + 1)
      OBVIOUS
    <3> QED
      BY <3>1, <3>2, <3>3
  <2>6. {from[d].name : d \in done(k + 1)} = {from[d].name : d \in done(k)} \cup {from[e].name}
    BY <2>5
  <2> HIDE DEF done, e
  <2>7. next = CopiedIntoNext(from, acc, e, p, policy)
    BY <1>2, <2>1 DEF e
  <2>8. acc = [ops |-> acc.ops, ids |-> acc.ids, names |-> acc.names]
    BY <2>2
  <2> HIDE DEF acc, next
  <2>9. /\ next = [ops |-> next.ops, ids |-> next.ids, names |-> next.names]
        /\ next.ops # Refused => CopiesOneMore(from, acc, e, p, policy, next)
    BY <2>3, <2>7, <2>8, CopyIntoGoesOn
  <2>10. ASSUME next.ops # Refused PROVE Reached(k + 1)
    <3> DEFINE olds == acc.ops
               spent == acc.ids
               names == acc.names
    <3>1. PICK n \in Names :
             /\ n = from[e].name \/ (policy = "rename" /\ n = Spare)
             /\ policy = "keep" => n = from[e].name
             /\ policy # "keep" => \A m \in names : Fold(n) # Fold(m)
             /\ next.ops = olds \o CopyOperations(from, spent, e, p, n)
             /\ next.ids = spent \cup CreatedIds(CopyOperations(from, spent, e, p, n))
             /\ next.names = names \cup {n}
      BY <2>9, <2>10 DEF CopiesOneMore
    <3> DEFINE more == CopyOperations(from, spent, e, p, n)
               v == ApplySegment(to, olds)
               u == ApplySegment(to, olds \o more)
               made == CreatedIds(olds)
               new == CreatedIds(more)
    <3>2. CopiedSoFar(from, done(k), to, p, ids, names, olds, spent, named)
      BY <2>2, <2>9, <2>10 DEF acc, CopiesOneMore
    <3>3. /\ policy # "keep" => NewNamesApart(p, v, made)
          /\ policy = "keep" => names = {from[d].name : d \in done(k)}
      BY <2>2, <2>9, <2>10 DEF acc, CopiesOneMore
    <3>4. n \notin names
      <4>1. CASE policy = "keep"
        <5>1. n = from[e].name /\ names = {from[d].name : d \in done(k)}
          BY <3>1, <3>3, <4>1
        <5>2. ASSUME NEW d \in done(k), from[d].name = from[e].name PROVE FALSE
          BY <1>3, <2>3, <2>4, <4>1, <5>2
        <5> HIDE DEF names
        <5> QED
          BY <5>1, <5>2
      <4>2. CASE policy # "keep"
        <5>1. \A m \in names : Fold(n) # Fold(m)
          BY <3>1, <4>2
        <5> HIDE DEF names
        <5> QED
          BY <5>1
      <4> QED
        BY <4>1, <4>2
    <3>5. <<e, n>> \in named
      BY <1>3, <2>3, <3>1
    <3>6. /\ RoomFor(spent, Cardinality(DownFrom(from, {e}))) /\ n \notin names
          /\ n \in Names \cup {None} /\ acc.ops # Refused /\ <<e, n>> \in named
      BY <2>9, <2>10, <3>1, <3>4, <3>5 DEF CopiesOneMore
    <3>7. more = CopyOperations(from, spent, e, p, n)
      OBVIOUS
    <3> HIDE DEF olds, spent, names, more
    <3> HIDE DEF v, u, made, new
    <3>8. /\ CopiedSoFar(from, done(k) \cup {e}, to, p, ids, names \cup {n}, olds \o more,
                         spent \cup CreatedIds(more), named)
          /\ CreatedIds(olds \o more) = CreatedIds(olds) \cup CreatedIds(more)
          /\ HasArrived(from, e, ApplySegment(to, olds), p, n, ApplySegment(to, olds \o more),
                        CreatedIds(more))
      <4> DEFINE d == done(k)
      <4>1. CopiedSoFar(from, d, to, p, ids, names, olds, spent, named) /\ e \notin d
        BY <2>4, <3>2
      <4> HIDE DEF d
      <4>2. CopiedSoFar(from, d \cup {e}, to, p, ids, names \cup {n}, olds \o more,
                        spent \cup CreatedIds(more), named)
        BY <2>3, <3>6, <3>7, <4>1, OneMoreCopy
      <4>3. CreatedIds(olds \o more) = CreatedIds(olds) \cup CreatedIds(more)
        <5>1. PICK places, new_id : IsCopyPlan(from, e, p, n, more, places, new_id)
          BY <2>3, <3>6, <3>7, CopyIsPlanned
        <5>2. p \in EntryIds
          BY TreeFacts
        <5>3. IsSegment(more)
          BY <2>3, <3>6, <5>1, <5>2, CopyPlanIsSegment
        <5>4. IsSegment(olds)
          BY <4>1 DEF CopiedSoFar
        <5> QED
          BY <5>3, <5>4, SegmentsJoin
      <4>4. HasArrived(from, e, ApplySegment(to, olds), p, n, ApplySegment(to, olds \o more),
                       CreatedIds(more))
        BY <2>3, <3>6, <3>7, <4>1, OneMoreCopy
      <4> QED
        BY <4>2, <4>3, <4>4 DEF d
    <3>9. /\ DOMAIN v = DOMAIN to \cup made
          /\ \A y \in Children(v, p) : v[y].name \in names
      BY <3>2 DEF CopiedSoFar, SelectionArrived, v, made
    <3>10. HasArrived(from, e, v, p, n, u, new)
      BY <3>8 DEF v, u, new
    <3>11. policy # "keep" => \A m \in names : Fold(n) # Fold(m)
      BY <3>1
    <3>12. policy # "keep" => NewNamesApart(p, u, made \cup new)
      BY <3>3, <3>9, <3>10, <3>11, OneMoreNameApart
    <3>13. policy = "keep" => names \cup {n} = {from[d].name : d \in done(k + 1)}
      BY <2>6, <3>1, <3>3
    <3>14. next.ops = olds \o more /\ next.ids = spent \cup CreatedIds(more)
           /\ next.names = names \cup {n}
      BY <3>1, <3>7
    <3> QED
      BY <2>5, <3>8, <3>12, <3>14, <3>13 DEF next, u, made, new
  <2> QED
    BY <2>9, <2>10 DEF next
<1>7. size \in S
  <2> HIDE DEF S
  <2> QED
    BY <1>1, <1>5, <1>6, SetInduction
<1>8. done(size) = top
  BY <1>1
<1>9. ops = added[size].ops
  BY <1>2
<1>10. Reached(size)
  <2> HIDE DEF Reached
  <2> QED
    BY <1>1, <1>7, <1>9
<1> HIDE DEF done
<1>11. /\ CopiedSoFar(from, top, to, p, ids, added[size].names, ops, added[size].ids, named)
       /\ policy # "keep" => NewNamesApart(p, ApplySegment(to, ops), CreatedIds(ops))
  BY <1>8, <1>9, <1>10
<1> QED
  BY <1>11 DEF CopiedSoFar, CopiesWell, top, named

\* No new entry of a directory that was there differs from another in case only.
NewTopsApart(t, t1) == ~ \E y \in SameButCase(t1) \ SameButCase(t) : y[1] \in NewTops(t, t1)

\* Copies that have arrived under such names are whole, and add no two names
\* that differ in case only unless names are kept.
LEMMA CopiesWellArrive ==
    ASSUME NEW from, NEW E, NEW to, IsTree(to), NEW p \in DOMAIN to, NEW policy, NEW ops,
           CopiesWell(from, E, to, p, policy, ops), NEW u, u = ApplySegment(to, ops)
    PROVE  /\ IsTree(u) /\ DOMAIN u \subseteq DOMAIN to \cup CreatedIds(ops)
           /\ Arrives(from, E, to, u, p, policy)
           /\ policy # "keep" => NewTopsApart(to, u)
<1> DEFINE top == TopLevel(from, E)
           named == NamesFor(from, E, policy)
           made == CreatedIds(ops)
<1>1. /\ SelectionArrived(from, top, to, p, u, made, named)
      /\ policy # "keep" => NewNamesApart(p, u, made)
  BY DEF CopiesWell
<1>2. top = Outermost(from, E)
  BY OutermostEntries
<1> HIDE DEF made, top, named
<1>3. IsTree(u) /\ made \cap DOMAIN to = {} /\ DOMAIN u = DOMAIN to \cup made
  BY <1>1 DEF SelectionArrived
<1>4. Arrives(from, E, to, u, p, policy)
  <2>1. ArrivedWhole(from, top, to, u, p, named)
    BY <1>1, <1>3, ArrivedIsWhole
  <2> QED
    BY <1>2, <1>3, <2>1 DEF Arrives, named
<1>5. \A y \in NewTops(to, u) : y \in made /\ u[y].parent = p
  <2>1. PICK copy : OneCopyOfEach(from, top, p, u, made, named, copy)
    BY <1>1 DEF SelectionArrived
  <2>2. ASSUME NEW y \in NewTops(to, u) PROVE y \in made /\ u[y].parent = p
    <3>1. y \in made /\ u[y].parent \notin made
      BY <1>3 DEF NewTops
    <3>2. PICK e \in top : y = copy[e]
      BY <2>1, <3>1 DEF OneCopyOfEach
    <3>3. u[copy[e]].parent = p
      BY <2>1 DEF OneCopyOfEach
    <3> QED
      BY <3>1, <3>2, <3>3
  <2> QED
    BY <2>2
<1>6. ASSUME policy # "keep", NEW y \in SameButCase(u), y[1] \in NewTops(to, u) PROVE FALSE
  <2>1. /\ y[1] \in DOMAIN u /\ y[2] \in DOMAIN u /\ y[1] # y[2]
        /\ u[y[1]].parent = u[y[2]].parent /\ Fold(u[y[1]].name) = Fold(u[y[2]].name)
    BY <1>6 DEF SameButCase
  <2> DEFINE d == y[1]
             e == y[2]
  <2>2. d \in made /\ u[d].parent = p
    BY <1>5, <1>6
  <2>3. e \in DOMAIN u /\ e # d /\ u[e].parent = p /\ Fold(u[e].name) = Fold(u[d].name)
    BY <2>1, <2>2
  <2> HIDE DEF d, e
  <2> QED
    BY <1>1, <1>6, <2>2, <2>3 DEF NewNamesApart
<1> QED
  BY <1>3, <1>4, <1>6 DEF made, NewTopsApart

-----------------------------------------------------------------------------
(* Exchange: trees, and the requests on their way.                         *)

\* What a request has read are trees, and what it has planned are whole copies
\* of what was selected, into a directory of the other tree.
RowCopies(row) ==
    /\ IsTree(row.main) /\ IsTree(row.ws)
    /\ row.kind = "import" =>
         /\ row.select \in SUBSET DOMAIN row.ws /\ row.policy # "keep"
         /\ row.into \in DOMAIN row.main /\ row.main[row.into].content = None
         /\ row.ops # None =>
              CopiesWell(row.ws, row.select, row.main, row.into, row.policy, row.ops)
    /\ row.kind = "add" =>
         /\ row.select \in SUBSET DOMAIN row.main /\ row.policy = "rename"
         /\ row.into \in DOMAIN row.ws /\ row.ws[row.into].content = None
         /\ row.ops # None =>
              CopiesWell(row.main, row.select, row.ws, row.into, row.policy, row.ops)
    /\ row.kind = "derive" =>
         /\ row.select \in SUBSET DOMAIN row.main /\ row.policy = "keep"
         /\ \A d, e \in row.select : row.main[d].parent = row.main[e].parent

\* The inductive invariant of the trees and the requests.
ExchangeCopiesInductive ==
    /\ ExchangeTypeOK /\ ExchangeInductive
    /\ \A x \in ExchangeIds : Open(x) => RowCopies(exchange[x])

\* The tree of a new Workspace is a tree.
LEMMA GenesisIsATree ==
    /\ IsTree(GenesisTree) /\ DOMAIN GenesisTree = {Root}
    /\ Root \in DOMAIN GenesisTree /\ GenesisTree[Root].content = None
<1> DEFINE t == GenesisTree
<1>1. /\ DOMAIN t = {Root} /\ t[Root] = [parent |-> None, name |-> None, content |-> None]
      /\ t = [e \in {Root} |-> t[e]]
  BY DEF GenesisTree
<1>2. Root \in EntryIds /\ Root # None /\ IsFiniteSet(DOMAIN t)
  BY <1>1, EntryIdsAreFinite, FS_Singleton
<1>3. t[Root] \in Entry
  BY <1>1 DEF Entry
<1> HIDE DEF t
<1>4. t[Root].parent = None /\ t[Root].content = None
  BY <1>1
<1>5. DownFrom(t, {Root}) = DOMAIN t
  BY <1>1, <1>2, ReachedFromTheRoot
<1>6. ValidTree(t)
  BY <1>1, <1>4, <1>5 DEF ValidTree, IsDirectory
<1>7. t \in [DOMAIN t -> Entry]
  BY <1>1, <1>3
<1> QED
  BY <1>1, <1>2, <1>4, <1>6, <1>7 DEF IsTree, t

\* Somebody else's transaction leaves a tree.
LEMMA EditLeavesATree ==
    ASSUME NEW t, IsTree(t), NEW spent, DOMAIN t \subseteq spent, RoomFor(spent, 1),
           NEW op \in Edits(t, spent)
    PROVE  /\ IsTree(ApplySegment(t, <<op>>))
           /\ DOMAIN ApplySegment(t, <<op>>) \subseteq DOMAIN t \cup CreatedIds(<<op>>)
<1>1. /\ DOMAIN t \subseteq EntryIds /\ Root \in DOMAIN t /\ t[Root].content = None
      /\ \A d \in DOMAIN t : d # None
  BY TreeFacts, EntryIdsAreFinite
<1>2. IsOperation(op) /\ Allowed(t, op) /\ IsTree(Effect(t, op))
  <2>1. ASSUME NEW e \in DOMAIN t, IsFile(t, e), NEW c \in Contents,
               op = SetContent(e, t[e].content, c)
        PROVE  IsOperation(op) /\ Allowed(t, op) /\ IsTree(Effect(t, op))
    <3>1. /\ op.kind = "set-file-content" /\ op.id = e /\ op.expected = t[e].content
          /\ IsSetContent(op)
      BY <1>1, <2>1 DEF SetContent, IsSetContent
    <3>2. Allowed(t, op)
      BY <2>1, <3>1 DEF Allowed
    <3>3. IsTree(Effect(t, op))
      BY <3>1, <3>2, SetContentKeepsTree
    <3> QED
      BY <3>1, <3>2, <3>3 DEF IsOperation
  <2>2. ASSUME NEW e \in DOMAIN t \ {Root}, op = RemoveEntry(e, TRUE)
        PROVE  IsOperation(op) /\ Allowed(t, op) /\ IsTree(Effect(t, op))
    <3>1. op.kind = "remove" /\ op.id = e /\ op.recursive = TRUE /\ IsRemove(op)
      BY <1>1, <2>2 DEF RemoveEntry, IsRemove
    <3>2. Allowed(t, op)
      BY <2>2, <3>1 DEF Allowed
    <3>3. IsTree(Effect(t, op))
      BY <3>1, <3>2, RemoveKeepsTree
    <3> QED
      BY <3>1, <3>2, <3>3 DEF IsOperation
  <2>3. ASSUME NEW n \in Names, ~NameTaken(t, Root, n, None), NEW c \in Contents,
               op = CreateEntry(FreshId(spent, 1), Root, n, c)
        PROVE  IsOperation(op) /\ Allowed(t, op) /\ IsTree(Effect(t, op))
    <3>1. 1 \in Nat /\ 1 \in 1..1
      OBVIOUS
    <3>2. FreshId(spent, 1) \in EntryIds \ spent
      BY <3>1, FreshIdsAreFree
    <3>3. /\ op.kind = "create" /\ op.id = FreshId(spent, 1) /\ op.parent = Root
          /\ op.name = n /\ op.content = c
      BY <2>3 DEF CreateEntry
    <3>4. IsCreate(op)
      BY <1>1, <2>3, <3>2 DEF IsCreate, CreateEntry
    <3>5. Allowed(t, op)
      BY <1>1, <2>3, <3>2, <3>3 DEF Allowed, IsDirectory
    <3>6. IsTree(Effect(t, op))
      BY <3>4, <3>5, CreateKeepsTree
    <3> QED
      BY <3>4, <3>5, <3>6 DEF IsOperation
  <2>4. \/ \E e \in DOMAIN t, c \in Contents : IsFile(t, e) /\ op = SetContent(e, t[e].content, c)
        \/ \E e \in DOMAIN t \ {Root} : op = RemoveEntry(e, TRUE)
        \/ \E n \in Names, c \in Contents :
              ~NameTaken(t, Root, n, None) /\ op = CreateEntry(FreshId(spent, 1), Root, n, c)
    <3> DEFINE contents == {SetContent(e, t[e].content, c) :
                              e \in {d \in DOMAIN t : IsFile(t, d)}, c \in Contents}
               removals == {RemoveEntry(e, TRUE) : e \in DOMAIN t \ {Root}}
               creations == {CreateEntry(FreshId(spent, 1), Root, n, c) :
                               n \in {m \in Names : ~NameTaken(t, Root, m, None)}, c \in Contents}
    <3>1. op \in contents \/ op \in removals \/ op \in creations
      <4>1. Edits(t, spent) = (contents \cup removals) \cup creations
        BY DEF Edits
      <4> HIDE DEF contents, removals, creations
      <4> QED
        BY <4>1
    <3>2. op \in contents => \E e \in DOMAIN t, c \in Contents :
                                IsFile(t, e) /\ op = SetContent(e, t[e].content, c)
      OBVIOUS
    <3>3. op \in removals => \E e \in DOMAIN t \ {Root} : op = RemoveEntry(e, TRUE)
      OBVIOUS
    <3>4. op \in creations => \E n \in Names, c \in Contents :
              ~NameTaken(t, Root, n, None) /\ op = CreateEntry(FreshId(spent, 1), Root, n, c)
      OBVIOUS
    <3> HIDE DEF contents, removals, creations
    <3> QED
      BY <3>1, <3>2, <3>3, <3>4
  <2> QED
    BY <2>1, <2>2, <2>3, <2>4
<1>3. ApplySegment(t, <<op>>) = Effect(t, op)
  <2>1. ApplyOperation(t, op) = Effect(t, op)
    BY <1>2, OperationApplies
  <2>2. ApplySegment(t, <<op>>) = ApplyOperation(t, op)
    BY ShortSegments
  <2> QED
    BY <2>1, <2>2
<1>4. Effect(t, op) # Refused
  BY <1>2, TreeFacts
<1>5. IsSegment(<<op>>)
  BY <1>2, OneOperation
<1> DEFINE one == <<op>>
<1>6. IsSegment(one) /\ ApplySegment(t, one) # Refused
  BY <1>3, <1>4, <1>5
<1> HIDE DEF one
<1>7. /\ IsTree(ApplySegment(t, one))
      /\ DOMAIN ApplySegment(t, one) \subseteq DOMAIN t \cup CreatedIds(one)
  BY <1>6, SegmentKeepsTree
<1> QED
  BY <1>7 DEF one

\* A tree that advances to another tree.
LEMMA AdvanceLeavesATree ==
    ASSUME NEW t, NEW spent, DOMAIN t \subseteq spent, NEW rev, NEW max \in Nat, rev \in 0..max,
           NEW ops, NEW t1, NEW spent1, NEW rev1, Advances(t, spent, rev, max, ops, t1, spent1, rev1),
           IsTree(ApplySegment(t, ops)),
           DOMAIN ApplySegment(t, ops) \subseteq DOMAIN t \cup CreatedIds(ops)
    PROVE  IsTree(t1) /\ DOMAIN t1 \subseteq spent1 /\ rev1 \in 0..max
<1>1. rev < max /\ t1 = ApplySegment(t, ops) /\ spent1 = spent \cup CreatedIds(ops) /\ rev1 = rev + 1
  BY DEF Advances
<1>2. rev1 \in 0..max
  BY <1>1
<1>3. IsTree(t1)
  BY <1>1
<1>4. DOMAIN t1 \subseteq spent1
  BY <1>1
<1> QED
  BY <1>2, <1>3, <1>4

\* The requests that stay, and the ones that are good.
LEMMA CopiesStay ==
    ASSUME \A x \in ExchangeIds : Open(x) => RowCopies(exchange[x]),
           \A x \in ExchangeIds : Open(x)' =>
              (Open(x) /\ exchange'[x] = exchange[x]) \/ RowCopies(exchange'[x])
    PROVE  (\A x \in ExchangeIds : Open(x) => RowCopies(exchange[x]))'
OBVIOUS

\* At the start nothing is asked, and the heads are trees.
LEMMA ExchangeCopiesInitHolds == ExchangeInit => ExchangeCopiesInductive
<1> SUFFICES ASSUME ExchangeInit PROVE ExchangeCopiesInductive
  OBVIOUS
<1>1. IsTree(main) /\ IsTree(ws) /\ IsTree(baseline)
  BY ExchangeAssumption DEF ExchangeInit
<1>2. mainRev \in 0..MaxMainRevision /\ wsRev \in 0..MaxWorkspaceRevision
  BY ExchangeAssumption DEF ExchangeInit
<1>3. ExchangeTypeOK
  BY <1>1, <1>2 DEF ExchangeInit, ExchangeTypeOK
<1>4. \A x \in ExchangeIds : ~Open(x)
  BY DEF ExchangeInit, Open
<1> QED
  BY <1>3, <1>4, ExchangeInitHolds DEF ExchangeCopiesInductive

\* What the requests meet leaves trees.
LEMMA OthersLeaveTrees ==
    ASSUME ExchangeTypeOK, EditMain \/ StartRun \/ CommitRun \/ FailOrDiscardRun
    PROVE  ExchangeTypeOK' /\ exchange' = exchange
<1>1. /\ IsTree(main) /\ IsTree(ws) /\ IsTree(baseline)
      /\ DOMAIN main \subseteq mainIds /\ DOMAIN ws \subseteq wsIds
      /\ mainRev \in 0..MaxMainRevision /\ wsRev \in 0..MaxWorkspaceRevision
      /\ MaxMainRevision \in Nat /\ MaxWorkspaceRevision \in Nat
      /\ ~(running /\ unresolved)
  BY ExchangeAssumption DEF ExchangeTypeOK
<1>2. CASE EditMain
  <2>1. PICK op \in Edits(main, mainIds) : AdvanceMain(<<op>>)
    BY <1>2 DEF EditMain
  <2> DEFINE ops == <<op>>
             t1 == main'
             spent1 == mainIds'
             rev1 == mainRev'
  <2>2. RoomFor(mainIds, 1) /\ UNCHANGED <<workspaceRef, workspaceRow, exchange, answers>>
    BY <1>2 DEF EditMain
  <2>3. /\ IsTree(ApplySegment(main, <<op>>))
        /\ DOMAIN ApplySegment(main, <<op>>) \subseteq DOMAIN main \cup CreatedIds(<<op>>)
    BY <1>1, <2>2, EditLeavesATree
  <2>4. Advances(main, mainIds, mainRev, MaxMainRevision, ops, t1, spent1, rev1)
    BY <2>1 DEF AdvanceMain
  <2>5. /\ IsTree(ApplySegment(main, ops))
        /\ DOMAIN ApplySegment(main, ops) \subseteq DOMAIN main \cup CreatedIds(ops)
    BY <2>3
  <2> HIDE DEF ops, t1, spent1, rev1
  <2>6. IsTree(t1) /\ DOMAIN t1 \subseteq spent1 /\ rev1 \in 0..MaxMainRevision
    BY <1>1, <2>4, <2>5, AdvanceLeavesATree
  <2>7. IsTree(main)' /\ DOMAIN main' \subseteq mainIds' /\ mainRev' \in 0..MaxMainRevision
    BY <2>6 DEF t1, spent1, rev1, IsTree, ValidTree
  <2> QED
    BY <1>1, <2>2, <2>7 DEF ExchangeTypeOK, workspaceRef, workspaceRow
<1>3. CASE CommitRun
  <2>1. PICK op \in Edits(ws, wsIds) : AdvanceWorkspace(<<op>>)
    BY <1>3 DEF CommitRun
  <2> DEFINE ops == <<op>>
             t1 == ws'
             spent1 == wsIds'
             rev1 == wsRev'
  <2>2. /\ RoomFor(wsIds, 1) /\ running' = FALSE
        /\ UNCHANGED <<mainRef, baseline, unresolved, exchange, answers>>
    BY <1>3 DEF CommitRun
  <2>3. /\ IsTree(ApplySegment(ws, <<op>>))
        /\ DOMAIN ApplySegment(ws, <<op>>) \subseteq DOMAIN ws \cup CreatedIds(<<op>>)
    BY <1>1, <2>2, EditLeavesATree
  <2>4. Advances(ws, wsIds, wsRev, MaxWorkspaceRevision, ops, t1, spent1, rev1)
    BY <2>1 DEF AdvanceWorkspace
  <2>5. /\ IsTree(ApplySegment(ws, ops))
        /\ DOMAIN ApplySegment(ws, ops) \subseteq DOMAIN ws \cup CreatedIds(ops)
    BY <2>3
  <2> HIDE DEF ops, t1, spent1, rev1
  <2>6. IsTree(t1) /\ DOMAIN t1 \subseteq spent1 /\ rev1 \in 0..MaxWorkspaceRevision
    BY <1>1, <2>4, <2>5, AdvanceLeavesATree
  <2>7. IsTree(ws)' /\ DOMAIN ws' \subseteq wsIds' /\ wsRev' \in 0..MaxWorkspaceRevision
    BY <2>6 DEF t1, spent1, rev1, IsTree, ValidTree
  <2> QED
    BY <1>1, <2>2, <2>7 DEF ExchangeTypeOK, mainRef
<1>4. CASE StartRun \/ FailOrDiscardRun
  <2>1. /\ UNCHANGED <<mainRef, workspaceRef, baseline, exchange, answers>>
        /\ ~(running' /\ unresolved')
    BY <1>1, <1>4 DEF StartRun, FailOrDiscardRun
  <2> QED
    BY <1>1, <2>1 DEF ExchangeTypeOK, mainRef, workspaceRef, IsTree, ValidTree
<1> QED
  BY <1>2, <1>3, <1>4

\* A request that has just been made.
LEMMA AskCopies ==
    ASSUME ExchangeCopiesInductive, NEW x \in ExchangeIds,
           AskImport(x) \/ AskAdd(x) \/ AskDerive(x) \/ AskDiff(x)
    PROVE  ExchangeTypeOK' /\ (\A y \in ExchangeIds : Open(y) => RowCopies(exchange[y]))'
<1>1. /\ IsTree(main) /\ IsTree(ws) /\ DOMAIN exchange = ExchangeIds /\ ExchangeTypeOK
      /\ \A y \in ExchangeIds : Open(y) => RowCopies(exchange[y])
  BY DEF ExchangeCopiesInductive, ExchangeTypeOK, ExchangeInductive
<1>2. \E kind, select, into, policy :
         /\ Ask(x, kind, select, into, policy)
         /\ kind = "import" => /\ select \in SUBSET DOMAIN ws /\ policy # "keep"
                               /\ into \in DOMAIN main /\ main[into].content = None
         /\ kind = "add" => /\ select \in SUBSET DOMAIN main /\ policy = "rename"
                            /\ into \in DOMAIN ws /\ ws[into].content = None
         /\ kind = "derive" => /\ select \in SUBSET DOMAIN main /\ policy = "keep"
                               /\ \A d, e \in select : main[d].parent = main[e].parent
  <2>1. CASE AskImport(x)
    <3>1. PICK S \in Selections(ws), p \in Directories(main), policy \in {"cancel", "rename"} :
             Ask(x, "import", S, p, policy)
      BY <2>1 DEF AskImport
    <3>2. /\ S \in SUBSET DOMAIN ws /\ p \in DOMAIN main /\ main[p].content = None
          /\ policy # "keep"
      BY DEF Selections, Directories, IsDirectory
    <3> QED
      BY <3>1, <3>2
  <2>2. CASE AskAdd(x)
    <3>1. PICK S \in Selections(main), p \in Directories(ws) : Ask(x, "add", S, p, "rename")
      BY <2>2 DEF AskAdd
    <3>2. S \in SUBSET DOMAIN main /\ p \in DOMAIN ws /\ ws[p].content = None
      BY DEF Selections, Directories, IsDirectory
    <3> QED
      BY <3>1, <3>2
  <2>3. CASE AskDerive(x)
    <3>1. PICK S \in Selections(main) : /\ Ask(x, "derive", S, Root, "keep")
                                        /\ \A d, e \in S : main[d].parent = main[e].parent
      BY <2>3 DEF AskDerive
    <3>2. S \in SUBSET DOMAIN main
      BY DEF Selections
    <3> QED
      BY <3>1, <3>2
  <2>4. CASE AskDiff(x)
    <3>1. Ask(x, "diff", {}, Root, "keep")
      BY <2>4 DEF AskDiff
    <3> DEFINE kind == "diff"
               none == {}
    <3>2. kind # "import" /\ kind # "add" /\ kind # "derive" /\ Ask(x, kind, none, Root, "keep")
      BY <3>1
    <3> HIDE DEF kind, none
    <3> QED
      BY <3>2
  <2> QED
    BY <2>1, <2>2, <2>3, <2>4
<1>3. PICK kind, select, into, policy :
         /\ Ask(x, kind, select, into, policy)
         /\ kind = "import" => /\ select \in SUBSET DOMAIN ws /\ policy # "keep"
                               /\ into \in DOMAIN main /\ main[into].content = None
         /\ kind = "add" => /\ select \in SUBSET DOMAIN main /\ policy = "rename"
                            /\ into \in DOMAIN ws /\ ws[into].content = None
         /\ kind = "derive" => /\ select \in SUBSET DOMAIN main /\ policy = "keep"
                               /\ \A d, e \in select : main[d].parent = main[e].parent
  BY <1>2
<1> DEFINE row == [kind |-> kind, main |-> main, mainRev |-> mainRev, ws |-> ws, wsRev |-> wsRev,
                   select |-> select, into |-> into, policy |-> policy, ops |-> None]
<1>4. /\ exchange' = [exchange EXCEPT ![x] = row]
      /\ UNCHANGED <<mainRef, workspaceRef, workspaceRow, answers>>
  BY <1>3 DEF Ask
<1>5. /\ row.kind = kind /\ row.main = main /\ row.ws = ws /\ row.select = select /\ row.into = into
      /\ row.policy = policy /\ row.ops = None
  OBVIOUS
<1> HIDE DEF row
<1>6. RowCopies(row)
  BY <1>1, <1>3, <1>5 DEF RowCopies
<1>7. \A y \in ExchangeIds : Open(y)' =>
         (Open(y) /\ exchange'[y] = exchange[y]) \/ RowCopies(exchange'[y])
  BY <1>1, <1>4, <1>6 DEF Open
<1>8. ExchangeTypeOK'
  BY <1>1, <1>4 DEF ExchangeTypeOK, mainRef, workspaceRef, workspaceRow
<1> QED
  BY <1>1, <1>7, <1>8, CopiesStay

\* A request that goes on with the operations it has planned, or ends.
LEMMA ProceedCopies ==
    ASSUME ExchangeCopiesInductive, NEW x \in ExchangeIds, Open(x), NEW ops, Proceed(x, ops),
           \/ ops = Refused
           \/ exchange[x].kind = "import" /\
              CopiesWell(exchange[x].ws, exchange[x].select, exchange[x].main, exchange[x].into,
                         exchange[x].policy, ops)
           \/ exchange[x].kind = "add" /\
              CopiesWell(exchange[x].main, exchange[x].select, exchange[x].ws, exchange[x].into,
                         exchange[x].policy, ops)
    PROVE  ExchangeTypeOK' /\ (\A y \in ExchangeIds : Open(y) => RowCopies(exchange[y]))'
<1>1. /\ DOMAIN exchange = ExchangeIds /\ ExchangeTypeOK /\ IsRequest(exchange[x])
      /\ \A y \in ExchangeIds : Open(y) => RowCopies(exchange[y])
  BY DEF ExchangeCopiesInductive, ExchangeInductive, ReadAtItsRevision
<1>2. ExchangeTypeOK'
  BY <1>1 DEF Proceed, ExchangeTypeOK, mainRef, workspaceRef, workspaceRow
<1>3. CASE ops = Refused
  <2>1. Answer(x)
    BY <1>3 DEF Proceed
  <2>2. \A y \in ExchangeIds : Open(y)' => Open(y) /\ exchange'[y] = exchange[y]
    BY <2>1, AnswerLeavesOthers DEF ExchangeCopiesInductive
  <2> QED
    BY <1>1, <1>2, <2>2, CopiesStay
<1>4. CASE ops # Refused
  <2> DEFINE old == exchange[x]
             row == [old EXCEPT !.ops = ops]
  <2>1. exchange' = [exchange EXCEPT ![x] = row]
    BY <1>4 DEF Proceed
  <2>2. IsRequest(old) /\ RowCopies(old)
    BY <1>1
  <2>3. /\ row.kind = old.kind /\ row.main = old.main /\ row.ws = old.ws
        /\ row.select = old.select /\ row.into = old.into /\ row.policy = old.policy
        /\ row.ops = ops
    <3> HIDE DEF old
    <3> QED
      BY <2>2 DEF IsRequest
  <2>4. \/ /\ old.kind = "import"
           /\ CopiesWell(old.ws, old.select, old.main, old.into, old.policy, ops)
        \/ /\ old.kind = "add"
           /\ CopiesWell(old.main, old.select, old.ws, old.into, old.policy, ops)
    BY <1>4
  <2> HIDE DEF row, old
  <2>5. RowCopies(row)
    BY <2>2, <2>3, <2>4 DEF RowCopies
  <2>6. \A y \in ExchangeIds : Open(y)' =>
           (Open(y) /\ exchange'[y] = exchange[y]) \/ RowCopies(exchange'[y])
    BY <1>1, <2>1, <2>5 DEF Open
  <2> QED
    BY <1>1, <1>2, <2>6, CopiesStay
<1> QED
  BY <1>3, <1>4

\* Planning an import or an addition plans whole copies.
LEMMA PlansCopy ==
    ASSUME ExchangeCopiesInductive, NEW x \in ExchangeIds, PlanImport(x) \/ PlanAdd(x)
    PROVE  ExchangeTypeOK' /\ (\A y \in ExchangeIds : Open(y) => RowCopies(exchange[y]))'
<1> DEFINE row == exchange[x]
<1>1. /\ DOMAIN main \subseteq mainIds /\ DOMAIN ws \subseteq wsIds
      /\ \A y \in ExchangeIds : Open(y) => RowCopies(exchange[y]) /\ ReadAtItsRevision(exchange[y])
  BY DEF ExchangeCopiesInductive, ExchangeInductive, ExchangeTypeOK
<1>2. CASE PlanImport(x)
  <2> DEFINE copies == CopyInto(row.ws, row.select, row.main, mainIds, row.into, row.policy)
             ops == IF row.wsRev # wsRev \/ row.mainRev # mainRev THEN Refused ELSE copies
  <2>1. Open(x) /\ row.kind = "import" /\ Proceed(x, ops)
    BY <1>2 DEF PlanImport, Asked
  <2>2. /\ IsTree(row.ws) /\ IsTree(row.main) /\ row.select \in SUBSET DOMAIN row.ws
        /\ row.into \in DOMAIN row.main /\ row.main[row.into].content = None /\ row.policy # "keep"
        /\ row.mainRev = mainRev => row.main = main
    BY <1>1, <2>1 DEF RowCopies, ReadAtItsRevision
  <2>3. ASSUME ops # Refused
        PROVE  CopiesWell(row.ws, row.select, row.main, row.into, row.policy, ops)
    <3>1. ops = copies /\ row.main = main
      BY <2>2, <2>3
    <3>2. DOMAIN row.main \subseteq mainIds
      BY <1>1, <3>1
    <3> DEFINE from == row.ws
               to == row.main
               p == row.into
               E == row.select
               policy == row.policy
    <3>3. /\ IsTree(from) /\ IsTree(to) /\ E \in SUBSET DOMAIN from
          /\ p \in DOMAIN to /\ to[p].content = None /\ DOMAIN to \subseteq mainIds
          /\ ops = CopyInto(from, E, to, mainIds, p, policy) /\ ops # Refused /\ policy # "keep"
      BY <2>2, <2>3, <3>1, <3>2
    <3> HIDE DEF from, to, p, E, policy, ops
    <3>4. NamesDiffer(from, E, to, p, policy)
      BY <3>3 DEF NamesDiffer
    <3>5. CopiesWell(from, E, to, p, policy, ops)
      BY <3>3, <3>4, CopyIntoCopies
    <3> QED
      BY <3>5 DEF from, to, p, E, policy
  <2> HIDE DEF ops
  <2> QED
    BY <2>1, <2>3, ProceedCopies
<1>3. CASE PlanAdd(x)
  <2> DEFINE copies == CopyInto(row.main, row.select, row.ws, wsIds, row.into, "rename")
             ops == IF ~Writable \/ row.wsRev # wsRev THEN Refused ELSE copies
  <2>1. Open(x) /\ row.kind = "add" /\ Proceed(x, ops)
    BY <1>3 DEF PlanAdd, Asked
  <2>2. /\ IsTree(row.ws) /\ IsTree(row.main) /\ row.select \in SUBSET DOMAIN row.main
        /\ row.into \in DOMAIN row.ws /\ row.ws[row.into].content = None /\ row.policy = "rename"
        /\ row.wsRev = wsRev => row.ws = ws
    BY <1>1, <2>1 DEF RowCopies, ReadAtItsRevision
  <2>3. ASSUME ops # Refused
        PROVE  CopiesWell(row.main, row.select, row.ws, row.into, row.policy, ops)
    <3>1. ops = copies /\ row.ws = ws
      BY <2>2, <2>3
    <3>2. DOMAIN row.ws \subseteq wsIds
      BY <1>1, <3>1
    <3> DEFINE from == row.main
               to == row.ws
               p == row.into
               E == row.select
               policy == row.policy
    <3>3. /\ IsTree(from) /\ IsTree(to) /\ E \in SUBSET DOMAIN from
          /\ p \in DOMAIN to /\ to[p].content = None /\ DOMAIN to \subseteq wsIds
          /\ ops = CopyInto(from, E, to, wsIds, p, policy) /\ ops # Refused /\ policy # "keep"
      BY <2>2, <2>3, <3>1, <3>2
    <3> HIDE DEF from, to, p, E, policy, ops
    <3>4. NamesDiffer(from, E, to, p, policy)
      BY <3>3 DEF NamesDiffer
    <3>5. CopiesWell(from, E, to, p, policy, ops)
      BY <3>3, <3>4, CopyIntoCopies
    <3> QED
      BY <3>5 DEF from, to, p, E, policy
  <2> HIDE DEF ops
  <2> QED
    BY <2>1, <2>3, ProceedCopies
<1> QED
  BY <1>2, <1>3

\* What a publication that is not refused does: main or the Workspace becomes
\* what the request has planned on the tree it is now.
LEMMA WhatIsExchanged ==
    ASSUME ExchangeCopiesInductive, NEW x \in ExchangeIds
    PROVE  /\ PublishImport(x) /\ exchange[x].mainRev = mainRev =>
                /\ CopiesWell(exchange[x].ws, exchange[x].select, main, exchange[x].into,
                              exchange[x].policy, exchange[x].ops)
                /\ exchange[x].into \in DOMAIN main /\ exchange[x].policy # "keep"
                /\ exchange[x].main = main
                /\ AdvanceMain(exchange[x].ops)
           /\ PublishAdd(x) /\ Guarded(x) =>
                /\ CopiesWell(exchange[x].main, exchange[x].select, ws, exchange[x].into,
                              exchange[x].policy, exchange[x].ops)
                /\ exchange[x].into \in DOMAIN ws /\ exchange[x].policy # "keep"
                /\ exchange[x].ws = ws
                /\ AdvanceWorkspace(exchange[x].ops)
<1>1. \A y \in ExchangeIds : Open(y) => RowCopies(exchange[y]) /\ ReadAtItsRevision(exchange[y])
  BY DEF ExchangeCopiesInductive, ExchangeInductive
<1> DEFINE row == exchange[x]
<1>2. ASSUME PublishImport(x), row.mainRev = mainRev
      PROVE  /\ CopiesWell(row.ws, row.select, main, row.into, row.policy, row.ops)
             /\ row.into \in DOMAIN main /\ row.policy # "keep" /\ row.main = main
             /\ AdvanceMain(row.ops)
  <2>1. /\ Open(x) /\ row.kind = "import" /\ row.ops # None
        /\ row.mainRev = mainRev /\ AdvanceMain(row.ops)
    BY <1>2 DEF PublishImport, Planned, mainRef
  <2>2. RowCopies(row) /\ ReadAtItsRevision(row)
    BY <1>1, <2>1
  <2> HIDE DEF row
  <2> QED
    BY <2>1, <2>2 DEF RowCopies, ReadAtItsRevision
<1>3. ASSUME PublishAdd(x), Guarded(x)
      PROVE  /\ CopiesWell(row.main, row.select, ws, row.into, row.policy, row.ops)
             /\ row.into \in DOMAIN ws /\ row.policy # "keep" /\ row.ws = ws
             /\ AdvanceWorkspace(row.ops)
  <2>1. /\ Open(x) /\ row.kind = "add" /\ row.ops # None
        /\ row.wsRev = wsRev /\ AdvanceWorkspace(row.ops)
    BY <1>3 DEF PublishAdd, Planned, Guarded, workspaceRef
  <2>2. RowCopies(row) /\ ReadAtItsRevision(row)
    BY <1>1, <2>1
  <2> HIDE DEF row
  <2> QED
    BY <2>1, <2>2 DEF RowCopies, ReadAtItsRevision
<1> QED
  BY <1>2, <1>3

\* What a derivation answers: the copies of what was selected in an empty tree.
LEMMA WhatIsDerived ==
    ASSUME ExchangeCopiesInductive, NEW x \in ExchangeIds, PublishDerived(x), derived' # derived,
           NEW ops,
           ops = CopyInto(exchange[x].main, exchange[x].select, GenesisTree, {Root}, Root, "keep")
    PROVE  /\ derived'.tree = ApplySegment(GenesisTree, ops)
           /\ derived'.source = exchange[x].main /\ derived'.select = exchange[x].select
           /\ exchange[x].policy = "keep"
           /\ CopiesWell(exchange[x].main, exchange[x].select, GenesisTree, Root, "keep", ops)
<1> DEFINE row == exchange[x]
<1>1. Open(x) /\ row.kind = "derive"
  BY DEF PublishDerived, Asked
<1>2. RowCopies(row)
  BY <1>1 DEF ExchangeCopiesInductive
<1>3. /\ ops # Refused
      /\ derived' = [tree |-> ApplySegment(GenesisTree, ops), source |-> row.main,
                     select |-> row.select]
  BY DEF PublishDerived
<1> DEFINE from == row.main
           E == row.select
           policy == "keep"
           to == GenesisTree
           ids == {Root}
           p == Root
<1>4. /\ IsTree(from) /\ E \in SUBSET DOMAIN from /\ row.policy = policy
      /\ \A d, e \in E : from[d].parent = from[e].parent
  BY <1>1, <1>2 DEF RowCopies
<1>5. /\ ops = CopyInto(from, E, to, ids, p, policy)
      /\ IsTree(to) /\ DOMAIN to \subseteq ids /\ p \in DOMAIN to /\ to[p].content = None
  BY GenesisIsATree
<1> HIDE DEF from, E, policy, to, ids, p
<1>6. NamesDiffer(from, E, to, p, policy)
  <2>1. \A c \in DOMAIN to : to[c].parent # p
    BY TreeFacts, EntryIdsAreFinite, GenesisIsATree DEF to, p
  <2> QED
    BY <1>4, <2>1 DEF NamesDiffer, NamesIn, Children
<1>7. CopiesWell(from, E, to, p, policy, ops)
  BY <1>3, <1>4, <1>5, <1>6, CopyIntoCopies
<1> QED
  BY <1>3, <1>4, <1>7 DEF from, E, to, p, policy

\* The answers leave trees.
LEMMA PublicationsLeaveTrees ==
    ASSUME ExchangeCopiesInductive, NEW x \in ExchangeIds,
           PublishImport(x) \/ PublishAdd(x) \/ PublishDerived(x) \/ FinishDiff(x) \/ GiveUp(x)
    PROVE  ExchangeTypeOK' /\ (\A y \in ExchangeIds : Open(y) => RowCopies(exchange[y]))'
<1>1. /\ IsTree(main) /\ IsTree(ws) /\ IsTree(baseline)
      /\ DOMAIN main \subseteq mainIds /\ DOMAIN ws \subseteq wsIds
      /\ mainRev \in 0..MaxMainRevision /\ wsRev \in 0..MaxWorkspaceRevision
      /\ MaxMainRevision \in Nat /\ MaxWorkspaceRevision \in Nat
      /\ ~(running /\ unresolved)
      /\ \A y \in ExchangeIds : Open(y) => RowCopies(exchange[y])
  BY ExchangeAssumption DEF ExchangeCopiesInductive, ExchangeTypeOK
<1>2. Answer(x) /\ UNCHANGED workspaceRow
  BY DEF PublishImport, PublishAdd, PublishDerived, FinishDiff, GiveUp
<1>3. (\A y \in ExchangeIds : Open(y) => RowCopies(exchange[y]))'
  <2>1. \A y \in ExchangeIds : Open(y)' => Open(y) /\ exchange'[y] = exchange[y]
    BY <1>2, AnswerLeavesOthers DEF ExchangeCopiesInductive
  <2> QED
    BY <1>1, <2>1, CopiesStay
<1> DEFINE row == exchange[x]
           ops == row.ops
<1>4. CASE PublishImport(x) /\ exchange[x].mainRev = mainRev
  <2> DEFINE t1 == main'
             spent1 == mainIds'
             rev1 == mainRev'
             from == row.ws
             E == row.select
             p == row.into
             policy == row.policy
  <2>1. /\ CopiesWell(row.ws, row.select, main, row.into, row.policy, row.ops)
        /\ row.into \in DOMAIN main /\ AdvanceMain(row.ops)
    BY <1>4, WhatIsExchanged
  <2>2. Advances(main, mainIds, mainRev, MaxMainRevision, ops, t1, spent1, rev1)
    BY <2>1 DEF AdvanceMain
  <2>3. CopiesWell(from, E, main, p, policy, ops) /\ p \in DOMAIN main
    BY <2>1
  <2>4. UNCHANGED workspaceRef
    BY <1>4 DEF PublishImport
  <2> HIDE DEF ops, t1, spent1, rev1, from, E, p, policy, row
  <2> DEFINE u == ApplySegment(main, ops)
  <2>5. u = ApplySegment(main, ops)
    OBVIOUS
  <2> HIDE DEF u
  <2>6. IsTree(u) /\ DOMAIN u \subseteq DOMAIN main \cup CreatedIds(ops)
    BY <1>1, <2>3, <2>5, CopiesWellArrive
  <2>7. IsTree(ApplySegment(main, ops))
        /\ DOMAIN ApplySegment(main, ops) \subseteq DOMAIN main \cup CreatedIds(ops)
    BY <2>5, <2>6
  <2>8. IsTree(t1) /\ DOMAIN t1 \subseteq spent1 /\ rev1 \in 0..MaxMainRevision
    BY <1>1, <2>2, <2>7, AdvanceLeavesATree
  <2>9. IsTree(main)' /\ DOMAIN main' \subseteq mainIds' /\ mainRev' \in 0..MaxMainRevision
    BY <2>8 DEF t1, spent1, rev1, IsTree, ValidTree
  <2> QED
    BY <1>1, <1>2, <1>3, <2>4, <2>9 DEF ExchangeTypeOK, workspaceRef, workspaceRow
<1>5. CASE PublishAdd(x) /\ Guarded(x)
  <2> DEFINE t1 == ws'
             spent1 == wsIds'
             rev1 == wsRev'
             from == row.main
             E == row.select
             p == row.into
             policy == row.policy
  <2>1. /\ CopiesWell(row.main, row.select, ws, row.into, row.policy, row.ops)
        /\ row.into \in DOMAIN ws /\ AdvanceWorkspace(row.ops)
    BY <1>5, WhatIsExchanged
  <2>2. Advances(ws, wsIds, wsRev, MaxWorkspaceRevision, ops, t1, spent1, rev1)
    BY <2>1 DEF AdvanceWorkspace
  <2>3. CopiesWell(from, E, ws, p, policy, ops) /\ p \in DOMAIN ws
    BY <2>1
  <2>4. UNCHANGED mainRef
    BY <1>5 DEF PublishAdd
  <2> HIDE DEF ops, t1, spent1, rev1, from, E, p, policy, row
  <2> DEFINE u == ApplySegment(ws, ops)
  <2>5. u = ApplySegment(ws, ops)
    OBVIOUS
  <2> HIDE DEF u
  <2>6. IsTree(u) /\ DOMAIN u \subseteq DOMAIN ws \cup CreatedIds(ops)
    BY <1>1, <2>3, <2>5, CopiesWellArrive
  <2>7. IsTree(ApplySegment(ws, ops))
        /\ DOMAIN ApplySegment(ws, ops) \subseteq DOMAIN ws \cup CreatedIds(ops)
    BY <2>5, <2>6
  <2>8. IsTree(t1) /\ DOMAIN t1 \subseteq spent1 /\ rev1 \in 0..MaxWorkspaceRevision
    BY <1>1, <2>2, <2>7, AdvanceLeavesATree
  <2>9. IsTree(ws)' /\ DOMAIN ws' \subseteq wsIds' /\ wsRev' \in 0..MaxWorkspaceRevision
    BY <2>8 DEF t1, spent1, rev1, IsTree, ValidTree
  <2> QED
    BY <1>1, <1>2, <1>3, <2>4, <2>9 DEF ExchangeTypeOK, mainRef, workspaceRow
<1>6. CASE UNCHANGED <<mainRef, workspaceRef>>
  BY <1>1, <1>2, <1>3, <1>6 DEF ExchangeTypeOK, mainRef, workspaceRef, workspaceRow, IsTree, ValidTree
<1>7. PublishDerived(x) \/ FinishDiff(x) \/ GiveUp(x) => UNCHANGED <<mainRef, workspaceRef>>
  BY DEF PublishDerived, FinishDiff, GiveUp
<1>8. PublishImport(x) /\ exchange[x].mainRev # mainRev => UNCHANGED <<mainRef, workspaceRef>>
  BY DEF PublishImport
<1>9. PublishAdd(x) /\ ~Guarded(x) => UNCHANGED <<mainRef, workspaceRef>>
  BY DEF PublishAdd
<1> QED
  BY <1>4, <1>5, <1>6, <1>7, <1>8, <1>9

\* Every step leaves trees, and requests that have planned whole copies.
LEMMA ExchangeCopiesStepHolds ==
    ExchangeCopiesInductive /\ [ExchangeNext]_exchangeVars => ExchangeCopiesInductive'
<1> SUFFICES ASSUME ExchangeCopiesInductive, [ExchangeNext]_exchangeVars
             PROVE  ExchangeCopiesInductive'
  OBVIOUS
<1>1. ExchangeInductive'
  BY ExchangeStepHolds DEF ExchangeCopiesInductive
<1>2. CASE UNCHANGED exchangeVars
  <2>1. ExchangeTypeOK'
    BY <1>2 DEF exchangeVars, ExchangeCopiesInductive, ExchangeTypeOK, IsTree, ValidTree
  <2>2. (\A y \in ExchangeIds : Open(y) => RowCopies(exchange[y]))'
    BY <1>2, CopiesStay DEF exchangeVars, ExchangeCopiesInductive, Open
  <2> QED
    BY <1>1, <2>1, <2>2 DEF ExchangeCopiesInductive
<1>3. CASE EditMain \/ StartRun \/ CommitRun \/ FailOrDiscardRun
  <2>1. ExchangeTypeOK' /\ exchange' = exchange
    BY <1>3, OthersLeaveTrees DEF ExchangeCopiesInductive
  <2>2. (\A y \in ExchangeIds : Open(y) => RowCopies(exchange[y]))'
    BY <2>1, CopiesStay DEF ExchangeCopiesInductive, Open
  <2> QED
    BY <1>1, <2>1, <2>2 DEF ExchangeCopiesInductive
<1>4. CASE \E x \in ExchangeIds : AskImport(x) \/ AskAdd(x) \/ AskDerive(x) \/ AskDiff(x)
  BY <1>1, <1>4, AskCopies DEF ExchangeCopiesInductive
<1>5. CASE \E x \in ExchangeIds : PlanImport(x) \/ PlanAdd(x)
  BY <1>1, <1>5, PlansCopy DEF ExchangeCopiesInductive
<1>6. CASE \E x \in ExchangeIds :
              \/ PublishImport(x) \/ PublishAdd(x) \/ PublishDerived(x) \/ FinishDiff(x)
              \/ GiveUp(x)
  BY <1>1, <1>6, PublicationsLeaveTrees DEF ExchangeCopiesInductive
<1> QED
  BY <1>2, <1>3, <1>4, <1>5, <1>6 DEF ExchangeNext

\* Both heads, what every request has read and what it is about to publish are
\* trees throughout, whoever edits, commits, fails or answers in between, for
\* any trees, requests and revisions; what has been planned is a whole copy of
\* what was selected (WorkspaceTreeService, planWorkspaceImport,
\* planWorkspaceContentImport).
THEOREM ExchangeCopiesInductiveHolds == ExchangeSpec => []ExchangeCopiesInductive
<1> QED  BY ExchangeCopiesInitHolds, ExchangeCopiesStepHolds, PTL DEF ExchangeSpec

\* The heads are trees of the ids that were used in them, and a failed Run keeps
\* the Workspace from having another.
THEOREM ExchangeTypeOKHolds == ExchangeSpec => []ExchangeTypeOK
<1>1. ExchangeCopiesInductive => ExchangeTypeOK
  BY DEF ExchangeCopiesInductive
<1> QED  BY <1>1, ExchangeCopiesInductiveHolds, PTL

\* A request is closed by a step of its own.
LEMMA ARequestClosesItself ==
    ASSUME ExchangeCopiesInductive, [ExchangeNext]_exchangeVars, NEW x \in ExchangeIds,
           Open(x), ~Open(x)'
    PROVE  \/ PlanImport(x) \/ PlanAdd(x) \/ PublishImport(x) \/ PublishAdd(x)
           \/ PublishDerived(x) \/ FinishDiff(x) \/ GiveUp(x)
<1>1. DOMAIN exchange = ExchangeIds
  BY DEF ExchangeCopiesInductive, ExchangeInductive
<1>2. exchange'[x] # exchange[x]
  BY DEF Open
<1>3. ~UNCHANGED exchangeVars
  BY <1>2 DEF exchangeVars
<1>4. ~EditMain /\ ~StartRun /\ ~CommitRun /\ ~FailOrDiscardRun
  BY <1>2 DEF EditMain, StartRun, CommitRun, FailOrDiscardRun
<1>5. ASSUME NEW y \in ExchangeIds, exchange[y] = None,
             AskImport(y) \/ AskAdd(y) \/ AskDerive(y) \/ AskDiff(y)
      PROVE  FALSE
  <2>1. y # x
    BY <1>5 DEF Open
  <2>2. \E kind, select, into, policy : Ask(y, kind, select, into, policy)
    BY <1>5 DEF AskImport, AskAdd, AskDerive, AskDiff
  <2>3. \E other : exchange' = [exchange EXCEPT ![y] = other]
    BY <2>2 DEF Ask
  <2> QED
    BY <1>1, <1>2, <2>1, <2>3
<1>6. ASSUME NEW y \in ExchangeIds,
             \/ PlanImport(y) \/ PlanAdd(y) \/ PublishImport(y) \/ PublishAdd(y)
             \/ PublishDerived(y) \/ FinishDiff(y) \/ GiveUp(y)
      PROVE  y = x
  <2> SUFFICES ASSUME y # x PROVE FALSE
    OBVIOUS
  <2>1. ASSUME NEW other, exchange' = [exchange EXCEPT ![y] = other] PROVE FALSE
    BY <1>1, <1>2, <2>1
  <2>2. ASSUME NEW other, exchange' = [exchange EXCEPT ![y].ops = other] PROVE FALSE
    BY <1>1, <1>2, <2>2
  <2> QED
    BY <1>6, <2>1, <2>2 DEF PlanImport, PlanAdd, Proceed, PublishImport, PublishAdd,
                            PublishDerived, FinishDiff, GiveUp, Answer
<1> QED
  BY <1>3, <1>4, <1>5, <1>6 DEF ExchangeNext


\* What an import, an addition or a derivation has brought when it closes.
LEMMA WhatArrives ==
    ASSUME ExchangeCopiesInductive, [ExchangeNext]_exchangeVars, NEW x \in ExchangeIds,
           Open(x), ~Open(x)'
    PROVE  ArrivesAsShown(x) /\ AddsNoCaseConflict(x)
<1>1. IsTree(main) /\ IsTree(ws)
  BY DEF ExchangeCopiesInductive, ExchangeTypeOK
<1> DEFINE row == exchange[x]
<1>2. ASSUME main' = main, ws' = ws, derived' = derived
      PROVE  ArrivesAsShown(x) /\ AddsNoCaseConflict(x)
  BY <1>2 DEF ArrivesAsShown, AddsNoCaseConflict
<1>3. CASE PlanImport(x) \/ PlanAdd(x) \/ FinishDiff(x) \/ GiveUp(x)
  BY <1>2, <1>3 DEF PlanImport, PlanAdd, Proceed, FinishDiff, GiveUp, mainRef, workspaceRef, answers
<1>4. CASE PublishImport(x)
  <2>1. row.kind = "import" /\ ws' = ws /\ derived' = derived
    BY <1>4 DEF PublishImport, Planned, workspaceRef, answers
  <2>2. CASE row.mainRev # mainRev
    BY <1>2, <1>4, <2>1, <2>2 DEF PublishImport, mainRef
  <2>3. CASE row.mainRev = mainRev
    <3> DEFINE from == row.ws
               E == row.select
               p == row.into
               policy == row.policy
               ops == row.ops
    <3>1. /\ CopiesWell(from, E, main, p, policy, ops) /\ p \in DOMAIN main /\ policy # "keep"
          /\ AdvanceMain(ops) /\ row.main = main
      BY <1>4, <2>3, WhatIsExchanged
    <3>2. main' = ApplySegment(main, ops)
      BY <3>1 DEF AdvanceMain, Advances
    <3> HIDE DEF from, E, p, policy, ops
    <3> DEFINE t1 == main'
    <3>3. CopiesWell(from, E, main, p, policy, ops) /\ t1 = ApplySegment(main, ops)
      BY <3>1, <3>2
    <3> HIDE DEF t1
    <3>4. IsTree(main) /\ p \in DOMAIN main
      BY <1>1, <3>1
    <3>5. /\ Arrives(from, E, main, t1, p, policy)
          /\ policy # "keep" => NewTopsApart(main, t1)
      BY <3>3, <3>4, CopiesWellArrive
    <3>6. Arrives(from, E, main, main', p, policy) /\ NewTopsApart(main, main')
      BY <3>1, <3>5 DEF t1
    <3>7. Arrives(row.ws, row.select, main, main', row.into, row.policy)
      BY <3>6 DEF from, E, p, policy
    <3>8. ArrivesAsShown(x)
      BY <2>1, <3>1, <3>7 DEF ArrivesAsShown
    <3>9. AddsNoCaseConflict(x)
      BY <2>1, <3>6 DEF AddsNoCaseConflict, NewTopsApart, NewTops, SameButCase
    <3> QED
      BY <3>8, <3>9
  <2> QED
    BY <2>2, <2>3
<1>5. CASE PublishAdd(x)
  <2>1. row.kind = "add" /\ main' = main /\ derived' = derived
    BY <1>5 DEF PublishAdd, Planned, mainRef, answers
  <2>2. CASE ~Guarded(x)
    BY <1>2, <1>5, <2>1, <2>2 DEF PublishAdd, workspaceRef
  <2>3. CASE Guarded(x)
    <3> DEFINE from == row.main
               E == row.select
               p == row.into
               policy == row.policy
               ops == row.ops
    <3>1. /\ CopiesWell(from, E, ws, p, policy, ops) /\ p \in DOMAIN ws /\ policy # "keep"
          /\ AdvanceWorkspace(ops) /\ row.ws = ws
      BY <1>5, <2>3, WhatIsExchanged
    <3>2. ws' = ApplySegment(ws, ops)
      BY <3>1 DEF AdvanceWorkspace, Advances
    <3> HIDE DEF from, E, p, policy, ops
    <3> DEFINE t1 == ws'
    <3>3. CopiesWell(from, E, ws, p, policy, ops) /\ t1 = ApplySegment(ws, ops)
      BY <3>1, <3>2
    <3> HIDE DEF t1
    <3>4. IsTree(ws) /\ p \in DOMAIN ws
      BY <1>1, <3>1
    <3>5. /\ Arrives(from, E, ws, t1, p, policy)
          /\ policy # "keep" => NewTopsApart(ws, t1)
      BY <3>3, <3>4, CopiesWellArrive
    <3>6. Arrives(from, E, ws, ws', p, policy) /\ NewTopsApart(ws, ws')
      BY <3>1, <3>5 DEF t1
    <3>7. Arrives(row.main, row.select, ws, ws', row.into, row.policy)
      BY <3>6 DEF from, E, p, policy
    <3>8. ArrivesAsShown(x)
      BY <2>1, <3>1, <3>7 DEF ArrivesAsShown
    <3>9. AddsNoCaseConflict(x)
      BY <2>1, <3>6 DEF AddsNoCaseConflict, NewTopsApart, NewTops, SameButCase
    <3> QED
      BY <3>8, <3>9
  <2> QED
    BY <2>2, <2>3
<1>6. CASE PublishDerived(x)
  <2>1. row.kind = "derive" /\ main' = main /\ ws' = ws
    BY <1>6 DEF PublishDerived, Asked, mainRef, workspaceRef
  <2>2. AddsNoCaseConflict(x)
    BY <2>1 DEF AddsNoCaseConflict
  <2>3. ASSUME derived' # derived
        PROVE  Arrives(row.main, row.select, GenesisTree, derived'.tree, Root, row.policy)
    <3> DEFINE from == row.main
               E == row.select
               ops == CopyInto(from, E, GenesisTree, {Root}, Root, "keep")
    <3>1. /\ derived'.tree = ApplySegment(GenesisTree, ops) /\ row.policy = "keep"
          /\ CopiesWell(from, E, GenesisTree, Root, row.policy, ops)
      BY <1>6, <2>3, WhatIsDerived
    <3> DEFINE t1 == derived'.tree
               to == GenesisTree
               p == Root
               policy == row.policy
    <3>2. /\ t1 = ApplySegment(to, ops) /\ CopiesWell(from, E, to, p, policy, ops)
          /\ IsTree(to) /\ p \in DOMAIN to
      BY <3>1, GenesisIsATree
    <3> HIDE DEF t1, from, E, ops, to, p, policy
    <3>3. Arrives(from, E, to, t1, p, policy)
      BY <3>2, CopiesWellArrive
    <3> QED
      BY <3>3 DEF from, E, to, t1, p, policy
  <2> QED
    BY <2>1, <2>2, <2>3 DEF ArrivesAsShown
<1> QED
  BY <1>3, <1>4, <1>5, <1>6, ARequestClosesItself

\* What an import, an addition or a derivation publishes is what its page
\* showed, complete and under names of its own, though both trees have changed
\* since it read them: for any trees, selections, requests and revisions.
THEOREM ExchangeCopiesWhatWasShownHolds == ExchangeSpec => ExchangeCopiesWhatWasShown
<1>1. ExchangeCopiesInductive /\ [ExchangeNext]_exchangeVars =>
         [\A x \in ExchangeIds : Open(x) /\ ~Open(x)' =>
              ArrivesAsShown(x) /\ AddsNoCaseConflict(x)]_exchangeVars
  BY WhatArrives
<1> QED  BY <1>1, ExchangeCopiesInitHolds, ExchangeCopiesStepHolds, PTL
         DEF ExchangeSpec, ExchangeCopiesWhatWasShown

-----------------------------------------------------------------------------
(* Commit: paths.                                                          *)

\* The paths the Upper may have are those of entries, not the root's, and so
\* are the paths above them.
LEMMA UpperPathsArePaths ==
    \A p \in UpperPaths : /\ p \in Seq(Names) /\ p # << >> /\ Len(p) \in Nat \ {0}
                          /\ Above(p) \subseteq UpperPaths
<1>1. \A p \in RunPaths : p \in Seq(Names) /\ p # << >> /\ Len(p) \in Nat \ {0}
  BY CommitAssumption, EmptySeq
<1>2. ASSUME NEW p \in RunPaths, NEW i \in 1..(Len(p) - 1)
      PROVE  /\ SubSeq(p, 1, i) \in Seq(Names) /\ Len(SubSeq(p, 1, i)) = i
             /\ Above(SubSeq(p, 1, i)) \subseteq Above(p)
  <2> DEFINE q == SubSeq(p, 1, i)
  <2>1. p \in Seq(Names) /\ Len(p) \in Nat \ {0} /\ i \in Nat /\ 1 <= i /\ i < Len(p)
    BY <1>1
  <2>2. \A k \in 1..i : p[k] \in Names
    BY <2>1, ElementOfSeq
  <2>3. q \in Seq(Names) /\ Len(q) = i
    BY <2>1, <2>2, SubSeqProperties
  <2>4. \A k \in 1..(i - 1) : SubSeq(q, 1, k) = SubSeq(p, 1, k)
    <3> SUFFICES ASSUME NEW k \in 1..(i - 1) PROVE SubSeq(q, 1, k) = SubSeq(p, 1, k)
      OBVIOUS
    <3>1. /\ 1 \in 1..Len(p) /\ i \in 1..Len(p) /\ 1 \in 1..(i - 1 + 1) /\ k \in 1..(i - 1 + 1)
          /\ 1 + 1 - 1 = 1 /\ 1 + k - 1 = k
      BY <2>1
    <3>2. SubSeq(SubSeq(p, 1, i), 1, k) = SubSeq(p, 1 + 1 - 1, 1 + k - 1)
      BY <2>1, <3>1, SubSeqOfSubSeq
    <3> QED
      BY <3>1, <3>2
  <2>5. \A k \in 1..(i - 1) : k \in 1..(Len(p) - 1)
    BY <2>1
  <2> HIDE DEF q
  <2>6. Above(q) \subseteq Above(p)
    BY <2>3, <2>4, <2>5 DEF Above
  <2> QED
    BY <2>3, <2>6 DEF q
<1> SUFFICES ASSUME NEW p \in UpperPaths
             PROVE  /\ p \in Seq(Names) /\ p # << >> /\ Len(p) \in Nat \ {0}
                    /\ Above(p) \subseteq UpperPaths
  OBVIOUS
<1>3. CASE p \in RunPaths
  BY <1>1, <1>3 DEF UpperPaths
<1>4. CASE \E q \in RunPaths : p \in Above(q)
  <2>1. PICK q \in RunPaths : p \in Above(q)
    BY <1>4
  <2>2. PICK i \in 1..(Len(q) - 1) : p = SubSeq(q, 1, i)
    BY <2>1 DEF Above
  <2>3. p \in Seq(Names) /\ Len(p) = i /\ Above(p) \subseteq Above(q)
    BY <1>2, <2>2
  <2>4. Len(q) \in Nat
    BY <1>1
  <2>5. i \in Nat \ {0}
    BY <2>4
  <2>6. p # << >>
    BY <2>3, <2>5, EmptySeq
  <2> QED
    BY <2>3, <2>5, <2>6 DEF UpperPaths
<1> QED
  BY <1>3, <1>4 DEF UpperPaths

\* The front of what is longer by one, and what is above it.
LEMMA AboveOfAppend ==
    ASSUME NEW S, NEW q \in Seq(S), NEW n \in S
    PROVE  /\ Front(Append(q, n)) = q /\ Last(Append(q, n)) = n
           /\ Above(q) \subseteq Above(Append(q, n))
           /\ q # << >> => q \in Above(Append(q, n))
<1> DEFINE p == Append(q, n)
<1>1. /\ p \in Seq(S) /\ Len(p) = Len(q) + 1 /\ Len(q) \in Nat
      /\ \A i \in 1..Len(q) : p[i] = q[i]
      /\ p[Len(q) + 1] = n
  BY AppendProperties, LenProperties
<1> HIDE DEF p
<1>2. \A i \in 0..Len(q) : SubSeq(p, 1, i) = SubSeq(q, 1, i)
  <2> SUFFICES ASSUME NEW i \in 0..Len(q) PROVE SubSeq(p, 1, i) = SubSeq(q, 1, i)
    OBVIOUS
  <2>1. \A k \in 1..i : k \in 1..Len(q) /\ k \in 1..Len(p)
    BY <1>1
  <2>2. \A k \in 1..i : p[k] \in S /\ q[k] \in S
    BY <1>1, <2>1, ElementOfSeq
  <2>3. 1 \in Int /\ i \in Int
    BY <1>1
  <2>4. /\ SubSeq(p, 1, i) \in Seq(S) /\ Len(SubSeq(p, 1, i)) = (IF 1 <= i THEN i - 1 + 1 ELSE 0)
        /\ \A k \in 1..(i - 1 + 1) : SubSeq(p, 1, i)[k] = p[1 + k - 1]
    BY <2>2, <2>3, SubSeqProperties
  <2>5. /\ SubSeq(q, 1, i) \in Seq(S) /\ Len(SubSeq(q, 1, i)) = (IF 1 <= i THEN i - 1 + 1 ELSE 0)
        /\ \A k \in 1..(i - 1 + 1) : SubSeq(q, 1, i)[k] = q[1 + k - 1]
    BY <2>2, <2>3, SubSeqProperties
  <2>6. Len(SubSeq(p, 1, i)) = i /\ Len(SubSeq(q, 1, i)) = i
    BY <1>1, <2>4, <2>5
  <2>7. \A k \in 1..i : k \in 1..(i - 1 + 1) /\ 1 + k - 1 = k /\ p[k] = q[k]
    BY <1>1
  <2>8. \A k \in 1..i : SubSeq(p, 1, i)[k] = SubSeq(q, 1, i)[k]
    BY <2>4, <2>5, <2>7
  <2> QED
    BY <2>4, <2>5, <2>6, <2>8, SeqEqual
<1>3. SubSeq(q, 1, Len(q)) = q
  BY SubSeqFull
<1>4. Front(p) = q
  <2>1. Len(p) - 1 = Len(q) /\ Len(q) \in 0..Len(q)
    BY <1>1
  <2> QED
    BY <1>2, <1>3, <2>1 DEF Front
<1>5. Last(p) = n
  BY <1>1 DEF Last
<1>6. Above(q) \subseteq Above(p)
  <2> SUFFICES ASSUME NEW i \in 1..(Len(q) - 1)
               PROVE  SubSeq(q, 1, i) = SubSeq(p, 1, i) /\ i \in 1..(Len(p) - 1)
    BY DEF Above
  <2> QED
    BY <1>1, <1>2
<1>7. ASSUME q # << >> PROVE q \in Above(p)
  <2>1. Len(q) \in 1..(Len(p) - 1)
    BY <1>1, <1>7, EmptySeq
  <2>2. q = SubSeq(p, 1, Len(q))
    BY <1>1, <1>2, <1>3
  <2> QED
    BY <2>1, <2>2 DEF Above
<1> QED
  BY <1>4, <1>5, <1>6, <1>7 DEF p

-----------------------------------------------------------------------------
(* Commit: the entries that keep their identity.                           *)

\* Entries of two trees have the same path if they, and the entries above
\* them, have the same parents and names in both.
LEMMA PathsStay ==
    ASSUME NEW t, IsTree(t), NEW u, IsTree(u), NEW E \in SUBSET DOMAIN t,
           \A e \in E \ {Root} : t[e].parent \in E,
           \A e \in E : e \in DOMAIN u /\ u[e].parent = t[e].parent /\ u[e].name = t[e].name
    PROVE  \A e \in E : PathOf(u, e) = PathOf(t, e)
<1> DEFINE X == {e \in DOMAIN t : e \in E => PathOf(u, e) = PathOf(t, e)}
<1>1. /\ PathOf(t, Root) = << >> /\ PathOf(u, Root) = << >> /\ Root \in DOMAIN t
      /\ \A e \in DOMAIN t \ {Root} : PathOf(t, e) = Append(PathOf(t, t[e].parent), t[e].name)
      /\ \A e \in DOMAIN u \ {Root} : PathOf(u, e) = Append(PathOf(u, u[e].parent), u[e].name)
  BY PathOfUnfolds, TreeFacts
<1>2. Root \in X
  BY <1>1
<1>3. \A e \in DOMAIN t \ {Root} : t[e].parent \in X => e \in X
  BY <1>1
<1> HIDE DEF X
<1>4. DOMAIN t \subseteq X
  BY <1>2, <1>3, TreeInduction
<1> QED
  BY <1>4 DEF X

\* The entries of the Run's input the Run has not replaced.
KindIn(t, e) == IF IsDirectory(t, e) THEN "directory" ELSE "file"
KeptEntries ==
    {e \in DOMAIN base : e = Root \/ Untouched(PathOf(base, e), KindIn(base, e))}

\* An entry is not replaced without what is below it.
LEMMA KeptHangTogether ==
    ASSUME IsTree(base)
    PROVE  /\ KeptEntries \subseteq DOMAIN base /\ Root \in KeptEntries
           /\ \A e \in KeptEntries \ {Root} : base[e].parent \in KeptEntries
<1>1. KeptEntries \subseteq DOMAIN base /\ Root \in KeptEntries
  BY TreeFacts DEF KeptEntries
<1>2. ASSUME NEW e \in KeptEntries \ {Root} PROVE base[e].parent \in KeptEntries
  <2> DEFINE d == base[e].parent
             q == PathOf(base, d)
             p == PathOf(base, e)
  <2>1. /\ e \in DOMAIN base \ {Root} /\ d \in DOMAIN base /\ base[d].content = None
        /\ base[e].name \in Names \cup {None}
    BY <1>1, <1>2, TreeFacts
  <2>2. Untouched(p, KindIn(base, e))
    BY <1>2 DEF KeptEntries
  <2>3. q \in Seq(Names \cup {None}) /\ p = Append(q, base[e].name)
    BY <2>1, PathsAreSequences, PathOfUnfolds
  <2> HIDE DEF q, p
  <2>4. Above(q) \subseteq Above(p) /\ (q # << >> => q \in Above(p))
    BY <2>1, <2>3, AboveOfAppend
  <2>5. \A r \in Above(p) \cap DOMAIN scan : scan[r].kind = "directory" /\ ~scan[r].opaque
    BY <2>2 DEF Untouched
  <2>6. ASSUME d # Root PROVE Untouched(q, KindIn(base, d))
    <3>1. q # << >>
      <4>1. PathOf(base, Root) = << >> /\ Root \in DOMAIN base
        BY PathOfUnfolds, TreeFacts
      <4> QED
        BY <2>1, <2>6, <4>1, PathsAreDifferent DEF q
    <3>2. KindIn(base, d) = "directory"
      BY <2>1 DEF KindIn, IsDirectory
    <3> QED
      BY <2>4, <2>5, <3>1, <3>2 DEF Untouched
  <2> QED
    BY <2>1, <2>6 DEF KeptEntries, q
<1> QED
  BY <1>1, <1>2

\* A tree in which they are where they were.
KeepsThem(t) ==
    \A e \in KeptEntries : /\ e \in DOMAIN t
                           /\ t[e].parent = base[e].parent /\ t[e].name = base[e].name

\* They have the paths they had.
LEMMA KeptPaths ==
    ASSUME IsTree(base), NEW t, IsTree(t), KeepsThem(t)
    PROVE  \A e \in KeptEntries : PathOf(t, e) = PathOf(base, e)
<1> DEFINE E == KeptEntries
<1>1. /\ E \in SUBSET DOMAIN base /\ \A e \in E \ {Root} : base[e].parent \in E
      /\ \A e \in E : e \in DOMAIN t /\ t[e].parent = base[e].parent /\ t[e].name = base[e].name
  BY KeptHangTogether DEF KeepsThem
<1> HIDE DEF E
<1>2. \A e \in E : PathOf(t, e) = PathOf(base, e)
  BY <1>1, PathsStay
<1> QED
  BY <1>2 DEF E

\* None of them is below another entry.
LEMMA KeptAreNotBelow ==
    ASSUME IsTree(base), NEW t, IsTree(t), KeepsThem(t), NEW x \in DOMAIN t, x \notin KeptEntries
    PROVE  DownFrom(t, {x}) \cap KeptEntries = {}
<1> DEFINE X == DOMAIN t \ KeptEntries
<1>1. x \in X
  OBVIOUS
<1>2. Closed(t, X)
  <2> SUFFICES ASSUME NEW e \in DOMAIN t, t[e].parent \in X PROVE e \in X
    BY DEF Closed
  <2> SUFFICES ASSUME e \in KeptEntries PROVE FALSE
    OBVIOUS
  <2>1. t[e].parent = base[e].parent
    BY DEF KeepsThem
  <2>2. e # Root
    BY TreeFacts, EntryIdsAreFinite
  <2> QED
    BY <2>1, <2>2, KeptHangTogether
<1> HIDE DEF X
<1>3. DownFrom(t, {x}) \subseteq X
  BY <1>1, <1>2, SubtreeFacts
<1> QED
  BY <1>3 DEF X

-----------------------------------------------------------------------------
(* Commit: one step of the projection.                                     *)

\* There is one entry at a path, or none.
LEMMA EntryAtPath ==
    ASSUME NEW t, IsTree(t), NEW p
    PROVE  /\ HasPath(t, p) => EntryAt(t, p) \in DOMAIN t /\ PathOf(t, EntryAt(t, p)) = p
           /\ EntryAt(t, p) \in DOMAIN t => HasPath(t, p)
           /\ \A e \in DOMAIN t : PathOf(t, e) = p => EntryAt(t, p) = e /\ HasPath(t, p)
<1> DEFINE there == {e \in DOMAIN t : PathOf(t, e) = p}
<1>1. None \notin DOMAIN t
  BY TreeFacts, EntryIdsAreFinite
<1>2. EntryAt(t, p) = IF there = {} THEN None ELSE CHOOSE e \in there : TRUE
  BY DEF EntryAt
<1>3. ASSUME there = {}
      PROVE  EntryAt(t, p) = None /\ \A e \in DOMAIN t : PathOf(t, e) # p
  BY <1>2, <1>3
<1>4. ASSUME there # {}
      PROVE  EntryAt(t, p) \in there
  BY <1>2, <1>4
<1>5. \A e \in DOMAIN t : PathOf(t, e) = p => EntryAt(t, p) = e
  BY EntryAtItsPath
<1>6. \A e \in DOMAIN t : PathOf(t, e) = p => there # {}
  OBVIOUS
<1> QED
  BY <1>1, <1>3, <1>4, <1>5, <1>6 DEF HasPath

\* A path of an entry other than the root.
IsEntryPath(p) == p \in Seq(Names) /\ p # << >>

\* What goes with the entry at a path.
GoneWith(t, p) == IF HasPath(t, p) THEN DownFrom(t, {EntryAt(t, p)}) ELSE {}

\* A tree without a path has everything else, where it was.
LEMMA WithoutAPath ==
    ASSUME NEW t, IsTree(t), NEW p, IsEntryPath(p), NEW u, u = Without(t, p)
    PROVE  /\ IsTree(u) /\ DOMAIN u = DOMAIN t \ GoneWith(t, p)
           /\ \A e \in DOMAIN u : u[e] = t[e] /\ PathOf(u, e) = PathOf(t, e) /\ PathOf(t, e) # p
           /\ Root \in DOMAIN u
<1>1. IsTree(u) /\ DOMAIN u = DOMAIN t \ GoneWith(t, p) /\ \A e \in DOMAIN u : u[e] = t[e]
  <2>1. CASE ~HasPath(t, p)
    BY <2>1 DEF Without, GoneWith
  <2>2. CASE HasPath(t, p)
    <3> DEFINE x == EntryAt(t, p)
               op == RemoveEntry(x, TRUE)
    <3>1. x \in DOMAIN t /\ PathOf(t, x) = p /\ x # Root
      BY <2>2, EntryAtPath, PathOfUnfolds DEF IsEntryPath
    <3>2. IsRemove(op) /\ op.id = x
      BY <3>1, TreeFacts DEF IsRemove, RemoveEntry
    <3>3. Allowed(t, op)
      BY <3>1 DEF Allowed, RemoveEntry
    <3>4. u = Effect(t, op)
      BY <2>2 DEF Without
    <3> HIDE DEF op
    <3>5. /\ IsTree(Effect(t, op)) /\ DOMAIN Effect(t, op) = DOMAIN t \ DownFrom(t, {op.id})
          /\ \A e \in DOMAIN Effect(t, op) : Effect(t, op)[e] = t[e]
      BY <3>2, <3>3, RemoveKeepsTree
    <3> QED
      BY <2>2, <3>2, <3>4, <3>5 DEF GoneWith
  <2> QED
    BY <2>1, <2>2
<1>2. \A e \in DOMAIN u : PathOf(t, e) = PathOf(u, e)
  <2>1. \A e \in DOMAIN u \ {Root} : u[e].parent \in DOMAIN u
    BY <1>1, TreeFacts
  <2> DEFINE E == DOMAIN u
  <2>2. E \in SUBSET DOMAIN u /\ \A e \in E \ {Root} : u[e].parent \in E
    BY <2>1
  <2>3. \A e \in E : e \in DOMAIN t /\ t[e].parent = u[e].parent /\ t[e].name = u[e].name
    BY <1>1
  <2>4. E = DOMAIN u
    OBVIOUS
  <2> HIDE DEF E
  <2>5. \A e \in E : PathOf(t, e) = PathOf(u, e)
    BY <1>1, <2>2, <2>3, PathsStay
  <2> QED
    BY <2>4, <2>5
<1>3. \A e \in DOMAIN u : PathOf(t, e) # p
  <2> SUFFICES ASSUME NEW e \in DOMAIN u, PathOf(t, e) = p PROVE FALSE
    OBVIOUS
  <2>1. e \in DOMAIN t /\ e \notin GoneWith(t, p)
    BY <1>1
  <2>2. HasPath(t, p) /\ EntryAt(t, p) = e
    BY <2>1, EntryAtPath
  <2>3. e \in DownFrom(t, {e})
    BY <2>1, SubtreeFacts
  <2> QED
    BY <2>1, <2>2, <2>3 DEF GoneWith
<1> QED
  BY <1>1, <1>2, <1>3, TreeFacts

\* The directory a path is in is not below it.
LEMMA FrontStays ==
    ASSUME NEW t, IsTree(t), NEW p, IsEntryPath(p), HasPath(t, Front(p))
    PROVE  EntryAt(t, Front(p)) \in DOMAIN t \ GoneWith(t, p)
<1> DEFINE d == EntryAt(t, Front(p))
<1>1. d \in DOMAIN t /\ PathOf(t, d) = Front(p)
  BY EntryAtPath
<1>2. ASSUME HasPath(t, p) PROVE d \notin DownFrom(t, {EntryAt(t, p)})
  <2> DEFINE x == EntryAt(t, p)
             q == PathOf(t, t[x].parent)
  <2>1. x \in DOMAIN t /\ PathOf(t, x) = p /\ x # Root
    BY <1>2, EntryAtPath, PathOfUnfolds DEF IsEntryPath
  <2>2. /\ q \in Seq(Names \cup {None}) /\ p = Append(q, t[x].name)
        /\ t[x].name \in Names \cup {None} /\ t[x].parent \in DOMAIN t
    BY <2>1, TreeFacts, PathsAreSequences, PathOfUnfolds
  <2>3. Front(p) = q
    <3> DEFINE S == Names \cup {None}
               n == t[x].name
    <3>1. q \in Seq(S) /\ n \in S /\ p = Append(q, n)
      BY <2>2
    <3> HIDE DEF q, S, n
    <3>2. Front(Append(q, n)) = q
      BY <3>1, AboveOfAppend
    <3> QED
      BY <3>1, <3>2
  <2>4. d = t[x].parent
    BY <1>1, <2>2, <2>3, PathsAreDifferent
  <2> QED
    BY <2>1, <2>4, ParentIsNotBelow
<1> QED
  BY <1>1, <1>2 DEF GoneWith

\* A new entry at a path, in the place of what was there.
Replaced(t, p, e, c, u) ==
    /\ IsTree(u) /\ e \notin DOMAIN t
    /\ DOMAIN u = (DOMAIN t \ GoneWith(t, p)) \cup {e}
    /\ \A d \in DOMAIN t \ GoneWith(t, p) : u[d] = t[d] /\ PathOf(u, d) = PathOf(t, d)
    /\ PathOf(u, e) = p /\ u[e].content = c
    /\ u[e].parent = EntryAt(t, Front(p)) /\ u[e].name = Last(p)

\* A path is its front with its last name.
LEMMA FrontAndLast ==
    ASSUME NEW S, NEW p \in Seq(S), p # << >>
    PROVE  p = Append(Front(p), Last(p)) /\ Front(p) \in Seq(S) /\ Last(p) \in S
<1>1. Len(p) \in Nat \ {0}
  BY EmptySeq
<1>2. Last(p) \in S
  BY <1>1, ElementOfSeq DEF Last
<1>3. 1 \in 1..Len(p) /\ Len(p) \in 1..Len(p)
  BY <1>1
<1>4. SubSeq(p, 1, Len(p)) = SubSeq(p, 1, Len(p) - 1) \o <<p[Len(p)]>>
  BY <1>3, SubSeqRecursiveSecond
<1>5. SubSeq(p, 1, Len(p)) = p
  BY SubSeqFull
<1>6. Front(p) \in Seq(S)
  <2>1. \A i \in 1..(Len(p) - 1) : p[i] \in S
    BY <1>1, ElementOfSeq
  <2> QED
    BY <1>1, <2>1, SubSeqProperties DEF Front
<1>7. Append(Front(p), Last(p)) = Front(p) \o <<Last(p)>>
  BY <1>2, <1>6, AppendIsConcat
<1> QED
  BY <1>2, <1>4, <1>5, <1>6, <1>7 DEF Front, Last

\* What a created entry is.
HasCreated(t, op, u) ==
    /\ IsTree(u) /\ DOMAIN u = DOMAIN t \cup {op.id} /\ op.id \notin DOMAIN t
    /\ \A x \in DOMAIN t : u[x] = t[x]
    /\ u[op.id].parent = op.parent /\ u[op.id].name = op.name /\ u[op.id].content = op.content

\* An operation that creates has created.
LEMMA CreateHasCreated ==
    ASSUME NEW t, IsTree(t), NEW op, IsCreate(op), Allowed(t, op), NEW u, u = Effect(t, op)
    PROVE  HasCreated(t, op, u)
<1>1. /\ IsTree(Effect(t, op)) /\ DOMAIN Effect(t, op) = DOMAIN t \cup {op.id}
      /\ op.id \notin DOMAIN t
      /\ \A x \in DOMAIN t : Effect(t, op)[x] = t[x]
      /\ Effect(t, op)[op.id] = [parent |-> op.parent, name |-> op.name, content |-> op.content]
  BY CreateKeepsTree
<1> QED
  BY <1>1 DEF HasCreated

\* Putting one there.
LEMMA PutAtAPath ==
    ASSUME NEW t, IsTree(t), NEW p, IsEntryPath(p),
           NEW e \in EntryIds, e \notin DOMAIN t, NEW c \in Contents \cup {None},
           NEW d, d = EntryAt(t, Front(p)), IsDirectory(t, d), NEW v, v = Without(t, p)
    PROVE  /\ EntryAt(v, Front(p)) = d
           /\ Replaced(t, p, e, c, Effect(v, CreateEntry(e, d, Last(p), c)))
<1> DEFINE n == Last(p)
           op == CreateEntry(e, d, n, c)
           u == Effect(v, op)
<1>1. d \in DOMAIN t /\ t[d].content = None /\ HasPath(t, Front(p)) /\ PathOf(t, d) = Front(p)
  <2>1. d \in DOMAIN t /\ t[d].content = None
    BY DEF IsDirectory
  <2> QED
    BY <2>1, EntryAtPath
<1>2. /\ IsTree(v) /\ DOMAIN v = DOMAIN t \ GoneWith(t, p)
      /\ \A x \in DOMAIN v : v[x] = t[x] /\ PathOf(v, x) = PathOf(t, x) /\ PathOf(t, x) # p
  BY WithoutAPath
<1>3. d \in DOMAIN v
  BY <1>1, <1>2, FrontStays
<1>4. EntryAt(v, Front(p)) = d
  BY <1>1, <1>2, <1>3, EntryAtPath
<1>5. p = Append(Front(p), n) /\ n \in Names
  BY FrontAndLast DEF IsEntryPath
<1>6. IsCreate(op) /\ op.id = e /\ op.parent = d /\ op.name = n /\ op.content = c
  <2>1. d \in EntryIds
    BY <1>1, TreeFacts
  <2> QED
    BY <1>5, <2>1 DEF IsCreate, CreateEntry
<1>7. Allowed(v, op)
  <2>1. e \notin DOMAIN v
    BY <1>2
  <2>2. IsDirectory(v, d)
    BY <1>1, <1>2, <1>3 DEF IsDirectory
  <2>3. ~NameTaken(v, d, n, None)
    <3> SUFFICES ASSUME NEW x \in DOMAIN v, v[x].parent = d, v[x].name = n PROVE FALSE
      BY DEF NameTaken, Children
    <3>1. x # Root
      BY <1>1, <1>2, TreeFacts, EntryIdsAreFinite
    <3>2. PathOf(v, x) = Append(PathOf(v, d), n)
      BY <1>2, <3>1, PathOfUnfolds
    <3> QED
      BY <1>1, <1>2, <1>3, <1>5, <3>2
  <2> QED
    BY <1>6, <2>1, <2>2, <2>3 DEF Allowed, CreateEntry
<1>8. u = Effect(v, op)
  OBVIOUS
<1> HIDE DEF op, u
<1>9. IsTree(v) /\ IsCreate(op) /\ Allowed(v, op)
  BY <1>2, <1>6, <1>7
<1>10. /\ IsTree(u) /\ DOMAIN u = DOMAIN v \cup {e} /\ e \notin DOMAIN v
       /\ \A x \in DOMAIN v : u[x] = v[x]
       /\ u[e].parent = d /\ u[e].name = n /\ u[e].content = c
  <2>1. HasCreated(v, op, u)
    BY <1>8, <1>9, CreateHasCreated
  <2> QED
    BY <1>6, <2>1 DEF HasCreated
<1>11. \A x \in DOMAIN v : PathOf(u, x) = PathOf(v, x)
  <2> DEFINE E == DOMAIN v
  <2>1. /\ E \in SUBSET DOMAIN v /\ \A x \in E \ {Root} : v[x].parent \in E
        /\ \A x \in E : x \in DOMAIN u /\ u[x].parent = v[x].parent /\ u[x].name = v[x].name
    BY <1>2, <1>10, TreeFacts
  <2>2. E = DOMAIN v
    OBVIOUS
  <2> HIDE DEF E
  <2>3. \A x \in E : PathOf(u, x) = PathOf(v, x)
    BY <1>2, <1>10, <2>1, PathsStay
  <2> QED
    BY <2>2, <2>3
<1>12. PathOf(u, e) = p
  <2>1. e # Root
    BY <1>2, <1>10, TreeFacts
  <2>2. PathOf(u, e) = Append(PathOf(u, d), n)
    BY <1>10, <2>1, PathOfUnfolds
  <2>3. PathOf(u, d) = Front(p)
    BY <1>1, <1>2, <1>3, <1>11
  <2> QED
    BY <1>5, <2>2, <2>3
<1>13. Replaced(t, p, e, c, u)
  <2>1. /\ DOMAIN u = (DOMAIN t \ GoneWith(t, p)) \cup {e}
        /\ \A x \in DOMAIN t \ GoneWith(t, p) : u[x] = t[x] /\ PathOf(u, x) = PathOf(t, x)
    BY <1>2, <1>10, <1>11
  <2> QED
    BY <1>10, <1>12, <2>1 DEF Replaced
<1> QED
  BY <1>4, <1>13 DEF u, op

\* What the projection has come to.
IsProjection(acc) == acc = [tree |-> acc.tree, used |-> acc.used, touched |-> acc.touched]

\* Its tree and its ids may change.
LEMMA ProjectionWith ==
    ASSUME NEW acc, IsProjection(acc), NEW u, NEW ids
    PROVE  [acc EXCEPT !.tree = u, !.used = ids] = [tree |-> u, used |-> ids, touched |-> acc.touched]
<1> DEFINE t == acc.tree
           ids0 == acc.used
           kept == acc.touched
<1>1. acc = [tree |-> t, used |-> ids0, touched |-> kept]
  BY DEF IsProjection
<1> HIDE DEF t, ids0, kept
<1> DEFINE with == [acc EXCEPT !.tree = u]
<1>2. with = [tree |-> u, used |-> ids0, touched |-> kept]
  BY <1>1
<1>3. [acc EXCEPT !.tree = u, !.used = ids] = [with EXCEPT !.used = ids]
  OBVIOUS
<1> HIDE DEF with
<1>4. [with EXCEPT !.used = ids] = [tree |-> u, used |-> ids, touched |-> kept]
  BY <1>2
<1> QED
  BY <1>3, <1>4 DEF kept

\* NewEntry does, under an id that is not in use.
LEMMA NewEntryReplaces ==
    ASSUME NEW acc, IsProjection(acc), IsTree(acc.tree),
           DOMAIN acc.tree \subseteq acc.used, RoomFor(acc.used, 1),
           NEW p, IsEntryPath(p), NEW c \in Contents \cup {None},
           IsDirectory(acc.tree, EntryAt(acc.tree, Front(p)))
    PROVE  \E e \in EntryIds \ acc.used : \E u :
              /\ NewEntry(acc, Without(acc.tree, p), p, c)
                   = [tree |-> u, used |-> acc.used \cup {e}, touched |-> acc.touched]
              /\ Replaced(acc.tree, p, e, c, u)
<1> DEFINE t == acc.tree
           v == Without(t, p)
           d == EntryAt(t, Front(p))
           e == FreshId(acc.used, 1)
           u == Effect(v, CreateEntry(e, d, Last(p), c))
<1>1. e \in EntryIds \ acc.used
  BY FreshIdsAreFree
<1>2. IsTree(t) /\ e \in EntryIds /\ e \notin DOMAIN t /\ d = EntryAt(t, Front(p))
      /\ IsDirectory(t, d) /\ v = Without(t, p)
  BY <1>1
<1>3. EntryAt(v, Front(p)) = d /\ Replaced(t, p, e, c, u)
  <2>1. u = Effect(v, CreateEntry(e, d, Last(p), c))
    OBVIOUS
  <2> HIDE DEF t, v, d, e, u
  <2>2. EntryAt(v, Front(p)) = d /\ Replaced(t, p, e, c, Effect(v, CreateEntry(e, d, Last(p), c)))
    BY <1>2, PutAtAPath
  <2> QED
    BY <2>1, <2>2
<1>4. NewEntry(acc, v, p, c) = [acc EXCEPT !.tree = u, !.used = acc.used \cup {e}]
  BY <1>3 DEF NewEntry
<1> DEFINE ids == acc.used \cup {e}
<1> HIDE DEF e, u, ids
<1>5. [acc EXCEPT !.tree = u, !.used = ids] = [tree |-> u, used |-> ids, touched |-> acc.touched]
  BY ProjectionWith
<1> QED
  BY <1>1, <1>3, <1>4, <1>5 DEF ids

\* One id less leaves room for one less.
LEMMA RoomForOneLess ==
    ASSUME NEW ids, NEW n \in Nat, RoomFor(ids, n + 1)
    PROVE  /\ RoomFor(ids, n) /\ RoomFor(ids, 1)
           /\ \A e \in EntryIds \ ids : RoomFor(ids \cup {e}, n)
<1> DEFINE free == EntryIds \ ids
<1>1. IsFiniteSet(free) /\ Cardinality(free) \in Nat /\ Cardinality(free) >= n + 1
  BY EntryIdsAreFinite DEF RoomFor
<1>2. RoomFor(ids, n) /\ RoomFor(ids, 1)
  BY <1>1 DEF RoomFor
<1>3. ASSUME NEW e \in EntryIds \ ids PROVE RoomFor(ids \cup {e}, n)
  <2>1. EntryIds \ (ids \cup {e}) = free \ {e} /\ e \in free
    OBVIOUS
  <2> HIDE DEF free
  <2>2. Cardinality(free \ {e}) = Cardinality(free) - 1
    BY <1>1, <2>1, FS_RemoveElement
  <2>3. Cardinality(EntryIds \ (ids \cup {e})) = Cardinality(free) - 1
    BY <2>1, <2>2
  <2>4. Cardinality(EntryIds \ (ids \cup {e})) >= n
    <3> DEFINE size == Cardinality(free)
    <3>1. size \in Nat /\ size >= n + 1 /\ Cardinality(EntryIds \ (ids \cup {e})) = size - 1
      BY <1>1, <2>3
    <3> HIDE DEF size
    <3> QED
      BY <3>1
  <2> QED
    BY <2>4 DEF RoomFor
<1> QED
  BY <1>2, <1>3

\* The projection so far: a tree with the entries the Run has not replaced, and
\* every entry of the Run's input that is in it at its place and of its kind
\* (which planCommitOperations would refuse otherwise), with room for n more.
SameAsBase(t) ==
    \A e \in DOMAIN t \cap DOMAIN base :
       /\ t[e].parent = base[e].parent /\ t[e].name = base[e].name
       /\ t[e].content = None <=> base[e].content = None
ProjectedWell(t, ids, marked) ==
    /\ IsTree(t) /\ SameAsBase(t) /\ KeptEntries \subseteq DOMAIN t
    /\ DOMAIN t \cup DOMAIN base \subseteq ids
    /\ \A e \in marked \cap DOMAIN base : base[e].content # None
ProjectedSoFar(acc, n) ==
    /\ IsProjection(acc)
    /\ acc.tree # Refused => ProjectedWell(acc.tree, acc.used, acc.touched) /\ RoomFor(acc.used, n)

\* It has the entries that are kept.
LEMMA ProjectionKeepsThem ==
    ASSUME IsTree(base), NEW t, SameAsBase(t), KeptEntries \subseteq DOMAIN t
    PROVE  KeepsThem(t)
BY KeptHangTogether DEF KeepsThem, SameAsBase

\* What is kept at a path that was scanned is what was scanned there.
LEMMA KeptAtAScannedPath ==
    ASSUME IsTree(base), NEW t, IsTree(t), SameAsBase(t), KeptEntries \subseteq DOMAIN t,
           NEW p \in DOMAIN scan, IsEntryPath(p), HasPath(t, p), EntryAt(t, p) \in KeptEntries
    PROVE  scan[p].kind = KindIn(t, EntryAt(t, p)) /\ ~scan[p].opaque
<1> DEFINE x == EntryAt(t, p)
<1>1. x \in DOMAIN t /\ PathOf(t, x) = p
  BY EntryAtPath
<1>2. x # Root
  BY <1>1, PathOfUnfolds DEF IsEntryPath
<1>3. PathOf(base, x) = p
  BY <1>1, ProjectionKeepsThem, KeptPaths
<1>4. x \in DOMAIN base /\ Untouched(p, KindIn(base, x))
  BY <1>2, <1>3 DEF KeptEntries
<1>5. KindIn(t, x) = KindIn(base, x)
  BY <1>1, <1>4 DEF KindIn, IsDirectory, SameAsBase
<1> QED
  BY <1>4, <1>5 DEF Untouched

\* Replacing what is not kept leaves what is.
LEMMA GoneAreNotKept ==
    ASSUME IsTree(base), NEW t, IsTree(t), SameAsBase(t), KeptEntries \subseteq DOMAIN t,
           NEW p, HasPath(t, p) => EntryAt(t, p) \notin KeptEntries
    PROVE  GoneWith(t, p) \cap KeptEntries = {}
<1>1. CASE ~HasPath(t, p)
  BY <1>1 DEF GoneWith
<1>2. CASE HasPath(t, p)
  <2>1. EntryAt(t, p) \in DOMAIN t /\ EntryAt(t, p) \notin KeptEntries
    BY <1>2, EntryAtPath
  <2>2. DownFrom(t, {EntryAt(t, p)}) \cap KeptEntries = {}
    BY <2>1, ProjectionKeepsThem, KeptAreNotBelow
  <2> QED
    BY <1>2, <2>2 DEF GoneWith
<1> QED
  BY <1>1, <1>2

\* A new entry.
LEMMA NewEntryProjects ==
    ASSUME NEW acc, NEW n \in Nat, ProjectedSoFar(acc, n + 1), acc.tree # Refused,
           NEW p, IsEntryPath(p), NEW c \in Contents \cup {None},
           IsDirectory(acc.tree, EntryAt(acc.tree, Front(p))),
           GoneWith(acc.tree, p) \cap KeptEntries = {}
    PROVE  ProjectedSoFar(NewEntry(acc, Without(acc.tree, p), p, c), n)
<1> DEFINE t == acc.tree
<1>1. /\ IsProjection(acc) /\ IsTree(t) /\ SameAsBase(t) /\ KeptEntries \subseteq DOMAIN t
      /\ DOMAIN t \subseteq acc.used /\ DOMAIN base \subseteq acc.used
      /\ \A e \in acc.touched \cap DOMAIN base : base[e].content # None
      /\ RoomFor(acc.used, n + 1)
  BY DEF ProjectedSoFar, ProjectedWell
<1>2. RoomFor(acc.used, 1) /\ \A e \in EntryIds \ acc.used : RoomFor(acc.used \cup {e}, n)
  BY <1>1, RoomForOneLess
<1>3. PICK e \in EntryIds \ acc.used : \E u :
         /\ NewEntry(acc, Without(acc.tree, p), p, c)
              = [tree |-> u, used |-> acc.used \cup {e}, touched |-> acc.touched]
         /\ Replaced(acc.tree, p, e, c, u)
  BY <1>1, <1>2, NewEntryReplaces
<1>4. PICK u :
         /\ NewEntry(acc, Without(acc.tree, p), p, c)
              = [tree |-> u, used |-> acc.used \cup {e}, touched |-> acc.touched]
         /\ Replaced(acc.tree, p, e, c, u)
  BY <1>3
<1> DEFINE next == NewEntry(acc, Without(acc.tree, p), p, c)
           ids == acc.used \cup {e}
<1>5. IsProjection(next) /\ next.tree = u /\ next.used = ids /\ next.touched = acc.touched
  BY <1>4 DEF IsProjection
<1>6. /\ IsTree(u) /\ DOMAIN u = (DOMAIN t \ GoneWith(t, p)) \cup {e}
      /\ \A d \in DOMAIN t \ GoneWith(t, p) : u[d] = t[d]
  BY <1>4 DEF Replaced
<1>7. SameAsBase(u)
  <2> SUFFICES ASSUME NEW d \in DOMAIN u \cap DOMAIN base
               PROVE  /\ u[d].parent = base[d].parent /\ u[d].name = base[d].name
                      /\ u[d].content = None <=> base[d].content = None
    BY DEF SameAsBase
  <2>1. d # e /\ d \in DOMAIN t /\ u[d] = t[d]
    BY <1>1, <1>3, <1>6
  <2> QED
    BY <1>1, <2>1 DEF SameAsBase
<1>8. KeptEntries \subseteq DOMAIN u /\ DOMAIN u \cup DOMAIN base \subseteq ids
  BY <1>1, <1>6
<1>9. RoomFor(ids, n)
  BY <1>2
<1>10. ProjectedWell(u, ids, acc.touched)
  BY <1>1, <1>6, <1>7, <1>8 DEF ProjectedWell
<1> HIDE DEF next, ids
<1>11. ProjectedSoFar(next, n)
  BY <1>5, <1>9, <1>10 DEF ProjectedSoFar
<1> QED
  BY <1>11 DEF next

\* A projection with another tree, with another content, or refused.
LEMMA ProjectionWithTree ==
    ASSUME NEW acc, IsProjection(acc), NEW u
    PROVE  [acc EXCEPT !.tree = u] = [tree |-> u, used |-> acc.used, touched |-> acc.touched]
<1> DEFINE t == acc.tree
           ids0 == acc.used
           kept == acc.touched
<1>1. acc = [tree |-> t, used |-> ids0, touched |-> kept]
  BY DEF IsProjection
<1> HIDE DEF t, ids0, kept
<1>2. [acc EXCEPT !.tree = u] = [tree |-> u, used |-> ids0, touched |-> kept]
  BY <1>1
<1> QED
  BY <1>2 DEF ids0, kept

\* The same with the entries that are marked.
LEMMA ProjectionWithContent ==
    ASSUME NEW acc, IsProjection(acc), NEW e, NEW c, NEW marked
    PROVE  [acc EXCEPT !.tree[e].content = c, !.touched = marked]
             = [tree |-> [acc.tree EXCEPT ![e].content = c], used |-> acc.used, touched |-> marked]
<1> DEFINE ids0 == acc.used
           u == [acc.tree EXCEPT ![e].content = c]
           with == [acc EXCEPT !.tree = u]
<1>1. with = [tree |-> u, used |-> ids0, touched |-> acc.touched]
  BY ProjectionWithTree
<1>2. [acc EXCEPT !.tree[e].content = c] = with
  BY DEF IsProjection
<1>3. [acc EXCEPT !.tree[e].content = c, !.touched = marked]
        = [[acc EXCEPT !.tree[e].content = c] EXCEPT !.touched = marked]
  OBVIOUS
<1>4. [acc EXCEPT !.tree[e].content = c, !.touched = marked] = [with EXCEPT !.touched = marked]
  BY <1>2, <1>3
<1> HIDE DEF with, ids0, u
<1>5. [with EXCEPT !.touched = marked] = [tree |-> u, used |-> ids0, touched |-> marked]
  BY <1>1
<1> QED
  BY <1>4, <1>5 DEF ids0, u

\* A file gets another content.
LEMMA ContentProjects ==
    ASSUME NEW acc, NEW n \in Nat, ProjectedSoFar(acc, n + 1), acc.tree # Refused,
           NEW e, IsFile(acc.tree, e), NEW c \in Contents,
           NEW marked, marked \subseteq acc.touched \cup {e}
    PROVE  ProjectedSoFar([acc EXCEPT !.tree[e].content = c, !.touched = marked], n)
<1> DEFINE t == acc.tree
           u == [t EXCEPT ![e].content = c]
           op == SetContent(e, t[e].content, c)
<1>1. /\ IsProjection(acc) /\ IsTree(t) /\ SameAsBase(t) /\ KeptEntries \subseteq DOMAIN t
      /\ DOMAIN t \cup DOMAIN base \subseteq acc.used
      /\ \A d \in acc.touched \cap DOMAIN base : base[d].content # None
      /\ RoomFor(acc.used, n + 1)
  BY DEF ProjectedSoFar, ProjectedWell
<1>2. IsSetContent(op) /\ op.id = e /\ op.content = c
  BY <1>1, TreeFacts DEF IsSetContent, SetContent, IsFile
<1>3. Allowed(t, op)
  BY DEF Allowed, SetContent, IsFile
<1>4. Effect(t, op) = u
  BY DEF Effect, SetContent
<1>5. u = [acc.tree EXCEPT ![e].content = c]
  OBVIOUS
<1> HIDE DEF op, u
<1>6. /\ IsTree(u) /\ DOMAIN u = DOMAIN t /\ e \in DOMAIN t /\ t[e].content # None
      /\ \A d \in DOMAIN t : u[d].parent = t[d].parent /\ u[d].name = t[d].name
      /\ \A d \in DOMAIN t \ {e} : u[d] = t[d]
      /\ u[e].content = c
  BY <1>1, <1>2, <1>3, <1>4, SetContentKeepsTree
<1>7. SameAsBase(u)
  <2> SUFFICES ASSUME NEW d \in DOMAIN u \cap DOMAIN base
               PROVE  /\ u[d].parent = base[d].parent /\ u[d].name = base[d].name
                      /\ u[d].content = None <=> base[d].content = None
    BY DEF SameAsBase
  <2>1. u[d].parent = base[d].parent /\ u[d].name = base[d].name
    BY <1>1, <1>6 DEF SameAsBase
  <2>2. c # None
    BY TreeAssumption
  <2>3. t[d].content = None <=> base[d].content = None
    BY <1>1, <1>6 DEF SameAsBase
  <2>4. u[d].content = None <=> t[d].content = None
    BY <1>6, <2>2
  <2> QED
    BY <2>1, <2>3, <2>4
<1>8. \A d \in marked \cap DOMAIN base : base[d].content # None
  BY <1>1, <1>6 DEF SameAsBase
<1>9. ProjectedWell(u, acc.used, marked)
  BY <1>1, <1>6, <1>7, <1>8 DEF ProjectedWell
<1>10. RoomFor(acc.used, n)
  BY <1>1, RoomForOneLess
<1> DEFINE next == [acc EXCEPT !.tree[e].content = c, !.touched = marked]
<1>11. next = [tree |-> u, used |-> acc.used, touched |-> marked]
  <2>1. next = [tree |-> [acc.tree EXCEPT ![e].content = c], used |-> acc.used, touched |-> marked]
    BY <1>1, ProjectionWithContent
  <2> HIDE DEF next
  <2> QED
    BY <1>5, <2>1
<1>12. IsProjection(next) /\ next.tree = u /\ next.used = acc.used /\ next.touched = marked
  BY <1>11 DEF IsProjection
<1> HIDE DEF next
<1>13. ProjectedSoFar(next, n)
  BY <1>9, <1>10, <1>12 DEF ProjectedSoFar
<1> QED
  BY <1>13 DEF next

\* A path goes.
LEMMA RemovalProjects ==
    ASSUME NEW acc, NEW n \in Nat, ProjectedSoFar(acc, n + 1), acc.tree # Refused,
           NEW p, IsEntryPath(p), GoneWith(acc.tree, p) \cap KeptEntries = {}
    PROVE  ProjectedSoFar([acc EXCEPT !.tree = Without(@, p)], n)
<1> DEFINE t == acc.tree
           u == Without(t, p)
<1>1. /\ IsProjection(acc) /\ IsTree(t) /\ SameAsBase(t) /\ KeptEntries \subseteq DOMAIN t
      /\ DOMAIN t \cup DOMAIN base \subseteq acc.used
      /\ \A d \in acc.touched \cap DOMAIN base : base[d].content # None
      /\ RoomFor(acc.used, n + 1)
  BY DEF ProjectedSoFar, ProjectedWell
<1>2. IsTree(u) /\ DOMAIN u = DOMAIN t \ GoneWith(t, p) /\ \A e \in DOMAIN u : u[e] = t[e]
  BY <1>1, WithoutAPath
<1>3. [acc EXCEPT !.tree = Without(@, p)] = [tree |-> u, used |-> acc.used, touched |-> acc.touched]
  BY <1>1, ProjectionWithTree
<1> HIDE DEF u
<1>4. SameAsBase(u) /\ KeptEntries \subseteq DOMAIN u /\ DOMAIN u \cup DOMAIN base \subseteq acc.used
  BY <1>1, <1>2 DEF SameAsBase
<1>5. ProjectedWell(u, acc.used, acc.touched)
  BY <1>1, <1>2, <1>4 DEF ProjectedWell
<1>6. RoomFor(acc.used, n)
  BY <1>1, RoomForOneLess
<1> DEFINE next == [acc EXCEPT !.tree = Without(@, p)]
<1>7. IsProjection(next) /\ next.tree = u /\ next.used = acc.used /\ next.touched = acc.touched
  BY <1>3 DEF IsProjection
<1> HIDE DEF next
<1>8. ProjectedSoFar(next, n)
  BY <1>5, <1>6, <1>7 DEF ProjectedSoFar
<1> QED
  BY <1>8 DEF next

\* What an Upper has at a path.
GoodNode(node) ==
    /\ node \in Node
    /\ node.kind = "file" => node.content \in Contents
    /\ node.kind # "file" => node.content = None

\* One path is projected: what is kept is not replaced, and is not refused for
\* another kind than it has.
LEMMA ProjectStep ==
    ASSUME IsTree(base), NEW acc, NEW n \in Nat, ProjectedSoFar(acc, n + 1),
           NEW p \in DOMAIN scan, IsEntryPath(p),
           NEW node, GoodNode(node), node.kind = scan[p].kind, node.opaque = scan[p].opaque
    PROVE  ProjectedSoFar(Project(acc, <<p, node>>), n)
<1> DEFINE t == acc.tree
           d == EntryAt(t, Front(p))
           e == EntryAt(t, p)
           next == Project(acc, <<p, node>>)
<1> SUFFICES ProjectedSoFar(next, n)
  OBVIOUS
<1>1. IsProjection(acc)
  BY DEF ProjectedSoFar
<1>2. ASSUME next = Refuse(acc) PROVE ProjectedSoFar(next, n)
  <2>1. next = [tree |-> Refused, used |-> acc.used, touched |-> acc.touched]
    BY <1>1, <1>2, ProjectionWithTree DEF Refuse
  <2> HIDE DEF next
  <2> QED
    BY <2>1 DEF ProjectedSoFar, IsProjection
<1>3. CASE t = Refused
  <2>1. next = acc
    BY <1>3 DEF Project
  <2> QED
    BY <1>3, <2>1 DEF ProjectedSoFar
<1>4. CASE t # Refused /\ (d = None \/ ~IsDirectory(t, d))
  <2>1. next = Refuse(acc)
    BY <1>4 DEF Project
  <2> QED
    BY <1>2, <2>1
<1>5. CASE t # Refused /\ d # None /\ IsDirectory(t, d)
  <2>1. IsTree(t) /\ SameAsBase(t) /\ KeptEntries \subseteq DOMAIN t
    BY <1>5 DEF ProjectedSoFar, ProjectedWell
  <2>2. HasPath(t, p) /\ e \in KeptEntries => node.kind = KindIn(t, e) /\ ~node.opaque
    BY <2>1, KeptAtAScannedPath
  <2>3. ASSUME HasPath(t, p) => e \notin KeptEntries PROVE GoneWith(t, p) \cap KeptEntries = {}
    BY <2>1, <2>3, GoneAreNotKept
  <2>4. HasPath(t, p) => e \in DOMAIN t
    BY <2>1, EntryAtPath
  <2>5. CASE node.kind = "file"
    <3>1. next = ProjectFile(acc, p, node)
      BY <1>5, <2>5 DEF Project
    <3>2. CASE e # None /\ IsFile(t, e)
      <4> DEFINE marked == IF node.touched THEN acc.touched \cup {e} ELSE acc.touched
      <4>1. next = [acc EXCEPT !.tree[e].content = node.content, !.touched = marked]
        BY <3>1, <3>2 DEF ProjectFile
      <4>2. marked \subseteq acc.touched \cup {e}
        OBVIOUS
      <4>3. node.content \in Contents
        BY <2>5 DEF GoodNode
      <4> HIDE DEF next, marked, e
      <4>4. ProjectedSoFar([acc EXCEPT !.tree[e].content = node.content, !.touched = marked], n)
        BY <1>5, <3>2, <4>2, <4>3, ContentProjects
      <4> QED
        BY <4>1, <4>4
    <3>3. CASE ~(e # None /\ IsFile(t, e))
      <4>1. next = NewEntry(acc, Without(acc.tree, p), p, node.content)
        BY <3>1, <3>3 DEF ProjectFile
      <4>2. HasPath(t, p) => e \notin KeptEntries
        BY <2>2, <2>4, <2>5, <3>3 DEF KindIn, IsDirectory, IsFile, HasPath
      <4>3. node.content \in Contents \cup {None}
        BY <2>5 DEF GoodNode
      <4> HIDE DEF next
      <4> QED
        BY <1>5, <2>3, <4>1, <4>2, <4>3, NewEntryProjects
    <3> QED
      BY <3>2, <3>3
  <2>6. CASE node.kind = "directory"
    <3>1. next = ProjectDirectory(acc, p, node)
      BY <1>5, <2>6 DEF Project
    <3>2. CASE e # None /\ IsDirectory(t, e) /\ ~node.opaque
      <4>1. next = acc
        BY <3>1, <3>2 DEF ProjectDirectory
      <4>2. RoomFor(acc.used, n)
        BY <1>5, RoomForOneLess DEF ProjectedSoFar
      <4> QED
        BY <1>5, <4>1, <4>2 DEF ProjectedSoFar
    <3>3. CASE ~(e # None /\ IsDirectory(t, e) /\ ~node.opaque)
      <4>1. next = NewEntry(acc, Without(acc.tree, p), p, None)
        BY <3>1, <3>3 DEF ProjectDirectory
      <4>2. HasPath(t, p) => e \notin KeptEntries
        BY <2>2, <2>4, <2>6, <3>3 DEF KindIn, IsDirectory, HasPath
      <4> HIDE DEF next
      <4> QED
        BY <1>5, <2>3, <4>1, <4>2, NewEntryProjects
    <3> QED
      BY <3>2, <3>3
  <2>7. CASE node.kind = "whiteout"
    <3>1. next = ProjectWhiteout(acc, p)
      BY <1>5, <2>7 DEF Project
    <3>2. CASE ~HasPath(t, p)
      <4>1. next = Refuse(acc)
        BY <3>1, <3>2 DEF ProjectWhiteout
      <4> QED
        BY <1>2, <4>1
    <3>3. CASE HasPath(t, p)
      <4>1. next = [acc EXCEPT !.tree = Without(@, p)]
        BY <3>1, <3>3 DEF ProjectWhiteout
      <4>2. e \notin KeptEntries
        BY <2>2, <2>7, <3>3 DEF KindIn
      <4> HIDE DEF next
      <4>3. ProjectedSoFar([acc EXCEPT !.tree = Without(@, p)], n)
        BY <1>5, <2>3, <4>2, RemovalProjects
      <4> QED
        BY <4>1, <4>3
    <3> QED
      BY <3>2, <3>3
  <2> QED
    BY <2>5, <2>6, <2>7 DEF GoodNode, Node
<1> QED
  BY <1>3, <1>4, <1>5

\* The scanner's order of paths is one.
LEMMA ParentsFirstIsAnOrder ==
    ASSUME NEW paths, IsFiniteSet(paths), \A p \in paths : Len(p) \in Nat
    PROVE  IsOrder(paths, ParentsFirst(paths))
<1> DEFINE size == Cardinality(paths)
           place == CHOOSE f \in Injection(paths, 1..size) : TRUE
<1>1. Injection(paths, 1..size) # {}
  <2>1. ExistsBijection(1..size, paths)
    BY FS_CardinalityType
  <2>2. PICK f : f \in Bijection(1..size, paths)
    BY <2>1 DEF ExistsBijection
  <2>3. /\ f \in [1..size -> paths]
        /\ \A i, j \in 1..size : f[i] = f[j] => i = j
        /\ \A p \in paths : \E i \in 1..size : f[i] = p
    BY <2>2 DEF Bijection, Injection, Surjection, IsInjective
  <2> DEFINE g == [p \in paths |-> CHOOSE i \in 1..size : f[i] = p]
  <2>4. \A p \in paths : g[p] \in 1..size /\ f[g[p]] = p
    BY <2>3
  <2>5. g \in [paths -> 1..size]
    BY <2>4
  <2> HIDE DEF g
  <2>6. \A p, q \in paths : g[p] = g[q] => p = q
    BY <2>4
  <2>7. g \in Injection(paths, 1..size)
    BY <2>5, <2>6 DEF Injection, IsInjective
  <2> QED
    BY <2>7
<1>2. place \in Injection(paths, 1..size)
  BY <1>1
<1> HIDE DEF place
<1>3. /\ \A p \in paths : place[p] \in 1..size
      /\ \A p, q \in paths : place[p] = place[q] => p = q
  BY <1>2 DEF Injection, IsInjective
<1>4. size \in Nat
  BY FS_CardinalityType
<1>5. \A p, q \in paths : <<p, q>> \in ParentsFirst(paths) <=>
         Len(p) < Len(q) \/ (Len(p) = Len(q) /\ place[p] < place[q])
  BY DEF ParentsFirst, place
<1> HIDE DEF size
<1>6. \A p \in paths : place[p] \in Nat
  BY <1>3, <1>4
<1>7. \A p \in paths : <<p, p>> \notin ParentsFirst(paths)
  BY <1>5, <1>6
<1>8. \A p, q, r \in paths :
        <<p, q>> \in ParentsFirst(paths) /\ <<q, r>> \in ParentsFirst(paths)
          => <<p, r>> \in ParentsFirst(paths)
  BY <1>5, <1>6
<1>9. \A p, q \in paths :
        p = q \/ <<p, q>> \in ParentsFirst(paths) \/ <<q, p>> \in ParentsFirst(paths)
  <2> SUFFICES ASSUME NEW p \in paths, NEW q \in paths, p # q
               PROVE  <<p, q>> \in ParentsFirst(paths) \/ <<q, p>> \in ParentsFirst(paths)
    OBVIOUS
  <2>1. place[p] # place[q] /\ place[p] \in Nat /\ place[q] \in Nat
    BY <1>3, <1>6
  <2>2. Len(p) \in Nat /\ Len(q) \in Nat
    OBVIOUS
  <2>3. \/ Len(p) < Len(q) \/ Len(q) < Len(p)
        \/ Len(p) = Len(q) /\ (place[p] < place[q] \/ place[q] < place[p])
    BY <2>1, <2>2
  <2> QED
    BY <1>5, <2>3
<1> QED
  BY <1>7, <1>8, <1>9 DEF IsOrder

\* The projection, path by path.
LEMMA TargetUnfolds ==
    ASSUME NEW size, size = Cardinality(DOMAIN scan), size \in Nat
    PROVE  \E after :
              /\ after[0] = [tree |-> base, used |-> DOMAIN base, touched |-> {}]
              /\ \A n \in 1..size :
                    after[n] = Project(after[n - 1], <<Sorted(DOMAIN scan)[n],
                                                       Resolved(Sorted(DOMAIN scan)[n])>>)
              /\ Target = after[size]
<1> DEFINE start == [tree |-> base, used |-> DOMAIN base, touched |-> {}]
           paths == Sorted(DOMAIN scan)
           next(acc, k) == Project(acc, <<paths[k], Resolved(paths[k])>>)
           S == {n \in Nat : \E f : f = [k \in 0..n |->
                    IF k = 0 THEN start ELSE next(f[k - 1], k)]}
<1> HIDE DEF start, paths, next
<1>1. 0 \in S
  <2> DEFINE f == [k \in 0..0 |-> start]
  <2>1. f = [k \in 0..0 |->
               IF k = 0 THEN start ELSE next(f[k - 1], k)]
    OBVIOUS
  <2> HIDE DEF f
  <2> QED
    BY <2>1
<1>2. ASSUME NEW n \in Nat, n \in S PROVE n + 1 \in S
  <2>1. PICK f : f = [k \in 0..n |->
               IF k = 0 THEN start ELSE next(f[k - 1], k)]
    BY <1>2
  <2> DEFINE g == [k \in 0..(n + 1) |->
                     IF k = n + 1 THEN next(f[n], n + 1)
                     ELSE f[k]]
  <2>2. g = [k \in 0..(n + 1) |->
               IF k = 0 THEN start ELSE next(g[k - 1], k)]
    BY <2>1
  <2> HIDE DEF g
  <2> QED
    BY <2>2
<1> HIDE DEF S
<1>3. size \in S
  BY <1>1, <1>2, SetInduction
<1> DEFINE solves(f) == f = [n \in 0..Cardinality(DOMAIN scan) |->
               IF n = 0 THEN start ELSE next(f[n - 1], n)]
           after == CHOOSE f : solves(f)
<1>4. \E f : solves(f)
  BY <1>3 DEF S
<1>5. Target = after[Cardinality(DOMAIN scan)]
  BY DEF Target, start, paths, next
<1>6. solves(after)
  <2> HIDE DEF solves
  <2> QED
    BY <1>4
<1>7. after = [n \in 0..size |->
                 IF n = 0 THEN start ELSE next(after[n - 1], n)]
  <2> HIDE DEF after
  <2> QED
    BY <1>6
<1> HIDE DEF after
<1>8. after[0] = start
  BY <1>7
<1>9. \A n \in 1..size : after[n] = next(after[n - 1], n)
  BY <1>7
<1>10. Target = after[size]
  BY <1>5
<1> QED
  BY <1>8, <1>9, <1>10 DEF start, paths, next

\* What the scan and the materialized contents are made of.
ScannedWell ==
    /\ DOMAIN scan \subseteq UpperPaths
    /\ \A p \in DOMAIN scan : GoodNode(scan[p])
    /\ DOMAIN taken \subseteq DOMAIN scan
    /\ \A p \in DOMAIN taken : scan[p].kind = "file" /\ taken[p] \in Contents

\* The materialized content changes nothing else of what was scanned.
LEMMA ResolvedIsGood ==
    ASSUME ScannedWell, NEW p \in DOMAIN scan, NEW node, node = Resolved(p)
    PROVE  GoodNode(node) /\ node.kind = scan[p].kind /\ node.opaque = scan[p].opaque
<1>1. GoodNode(scan[p])
  BY DEF ScannedWell
<1>2. CASE p \notin DOMAIN taken
  BY <1>1, <1>2 DEF Resolved
<1>3. CASE p \in DOMAIN taken
  <2>1. scan[p].kind = "file" /\ taken[p] \in Contents
    BY <1>3 DEF ScannedWell
  <2>2. node = [scan[p] EXCEPT !.content = taken[p]]
    BY <1>3 DEF Resolved
  <2> QED
    BY <1>1, <2>1, <2>2 DEF GoodNode, Node
<1> QED
  BY <1>2, <1>3

-----------------------------------------------------------------------------
(* Commit: the plan.                                                       *)

\* Entries are listed by the depth of their paths.
LEMMA ByDepthLists ==
    ASSUME NEW t, IsTree(t), NEW E \in SUBSET DOMAIN t, NEW list, list = ByDepth(t, E),
           NEW size, size = Cardinality(E)
    PROVE  /\ size \in Nat /\ DOMAIN list = 1..size /\ list = [i \in 1..size |-> list[i]]
           /\ \A i \in 1..size : list[i] \in E
           /\ \A x \in E : \E i \in 1..size : list[i] = x
           /\ \A i, j \in 1..size : list[i] = list[j] => i = j
           /\ \A i, j \in 1..size :
                 Len(PathOf(t, list[i])) < Len(PathOf(t, list[j])) => i < j
<1> DEFINE R == {q \in E \X E :
                  \/ Len(PathOf(t, q[1])) < Len(PathOf(t, q[2]))
                  \/ Len(PathOf(t, q[1])) = Len(PathOf(t, q[2])) /\ q[1] < q[2]}
           deep == [x \in E |-> Len(PathOf(t, x))]
<1>1. list = InOrder(E, R)
  BY DEF ByDepth
<1>2. IsFiniteSet(E) /\ \A x \in E : x \in Nat
  <2>1. E \in SUBSET EntryIds
    BY TreeFacts
  <2> QED
    BY <2>1, EntryIdsAreFinite
<1>3. \A x \in E : deep[x] = Len(PathOf(t, x)) /\ deep[x] \in Nat
  BY PathsAreSequences
<1> HIDE DEF deep
<1>4. \A x, y \in E : <<x, y>> \in R <=> deep[x] < deep[y] \/ (deep[x] = deep[y] /\ x < y)
  BY <1>3
<1> HIDE DEF R
<1>5. IsOrder(E, R)
  BY <1>2, <1>3, <1>4 DEF IsOrder
<1>6. /\ Cardinality(E) \in Nat /\ DOMAIN InOrder(E, R) = 1..Cardinality(E)
      /\ \A i \in 1..Cardinality(E) : InOrder(E, R)[i] \in E
      /\ \A x \in E : \E i \in 1..Cardinality(E) : InOrder(E, R)[i] = x
      /\ \A i, j \in 1..Cardinality(E) : i < j => <<InOrder(E, R)[i], InOrder(E, R)[j]>> \in R
      /\ \A i, j \in 1..Cardinality(E) : InOrder(E, R)[i] = InOrder(E, R)[j] => i = j
  BY <1>2, <1>5, InOrderLists
<1>7. /\ size \in Nat /\ DOMAIN list = 1..size
      /\ \A i \in 1..size : list[i] \in E
      /\ \A x \in E : \E i \in 1..size : list[i] = x
      /\ \A i, j \in 1..size : i < j => <<list[i], list[j]>> \in R
      /\ \A i, j \in 1..size : list[i] = list[j] => i = j
  BY <1>1, <1>6
<1>8. list = [i \in 1..size |-> list[i]]
  <2>1. list = [i \in 1..Cardinality(E) |-> InOrder(E, R)[i]]
    BY <1>1 DEF InOrder
  <2> QED
    BY <1>1, <2>1
<1>9. ASSUME NEW i \in 1..size, NEW j \in 1..size, deep[list[i]] < deep[list[j]]
      PROVE  i < j
  <2>1. deep[list[i]] \in Nat /\ deep[list[j]] \in Nat /\ list[i] \in E /\ list[j] \in E
    BY <1>3, <1>7
  <2>2. i # j
    BY <1>9, <2>1
  <2>3. ~(j < i)
    <3> SUFFICES ASSUME j < i PROVE FALSE
      OBVIOUS
    <3>1. <<list[j], list[i]>> \in R
      BY <1>7
    <3> QED
      BY <1>4, <1>9, <2>1, <3>1
  <2>4. i \in Nat /\ j \in Nat
    BY <1>7
  <2> QED
    BY <2>2, <2>3, <2>4
<1> QED
  BY <1>3, <1>7, <1>8, <1>9

\* The steps of a segment.
LEMMA SegmentSteps ==
    ASSUME NEW t, NEW ops, NEW size \in Nat, Len(ops) = size
    PROVE  \E f : /\ f[0] = t /\ f[size] = ApplySegment(t, ops)
                  /\ \A k \in Nat : k + 1 <= size => f[k + 1] = ApplyOperation(f[k], ops[k + 1])
<1>1. \E f : /\ f = [n \in 0..Len(ops) |-> IF n = 0 THEN t ELSE ApplyOperation(f[n - 1], ops[n])]
             /\ ApplySegment(t, ops) = f[Len(ops)]
  BY SegmentUnfolds
<1>2. PICK f : /\ f = [n \in 0..size |-> IF n = 0 THEN t ELSE ApplyOperation(f[n - 1], ops[n])]
               /\ ApplySegment(t, ops) = f[size]
  BY <1>1
<1>3. f[0] = t
  BY <1>2
<1>4. \A k \in Nat : k + 1 <= size => f[k + 1] = ApplyOperation(f[k], ops[k + 1])
  <2>1. \A k \in Nat : k + 1 <= size => k + 1 \in 0..size /\ k + 1 # 0 /\ (k + 1) - 1 = k
    OBVIOUS
  <2> QED
    BY <1>2, <2>1
<1> QED
  BY <1>2, <1>3, <1>4

\* What is below an entry stays below it in a tree that has it all.
LEMMA SubtreesStay ==
    ASSUME NEW t, IsTree(t), NEW v, IsTree(v), DOMAIN v \subseteq DOMAIN t,
           \A e \in DOMAIN v : v[e] = t[e],
           NEW x \in DOMAIN v, DownFrom(t, {x}) \subseteq DOMAIN v
    PROVE  DownFrom(v, {x}) = DownFrom(t, {x})
<1>1. DownFrom(v, {x}) \subseteq DownFrom(t, {x})
  <2>1. x \in DownFrom(t, {x}) /\ Closed(t, DownFrom(t, {x}))
    BY SubtreeFacts
  <2>2. Closed(v, DownFrom(t, {x}))
    BY <2>1 DEF Closed
  <2> QED
    BY <2>1, <2>2, SubtreeFacts
<1>2. Closed(t, DownFrom(v, {x}))
  <2> SUFFICES ASSUME NEW c \in DOMAIN t, t[c].parent \in DownFrom(v, {x})
               PROVE  c \in DownFrom(v, {x})
    BY DEF Closed
  <2>1. c \in DOMAIN v
    BY <1>1, SubtreeFacts DEF Closed
  <2>2. v[c].parent \in DownFrom(v, {x})
    BY <2>1
  <2> QED
    BY <2>1, <2>2, SubtreeFacts DEF Closed
<1>3. x \in DownFrom(v, {x})
  BY SubtreeFacts
<1> QED
  BY <1>1, <1>2, <1>3, SubtreeFacts

\* After some of the removals.
RemovedSoFar(gone, k, v) ==
    /\ IsTree(v)
    /\ DOMAIN v = {e \in DOMAIN base : \A i \in 1..k : e \notin DownFrom(base, {gone[i]})}
    /\ \A e \in DOMAIN v : v[e] = base[e]

\* One more removal.
LEMMA OneMoreRemoved ==
    ASSUME IsTree(base), NEW gone, NEW size \in Nat,
           \A i \in 1..size : gone[i] \in DOMAIN base \ {Root},
           \A i, j \in 1..size :
              i # j => DownFrom(base, {gone[i]}) \cap DownFrom(base, {gone[j]}) = {},
           NEW k \in Nat, k + 1 <= size, NEW v, RemovedSoFar(gone, k, v)
    PROVE  RemovedSoFar(gone, k + 1,
              ApplyOperation(v, RemoveEntry(gone[k + 1], IsDirectory(base, gone[k + 1]))))
<1> DEFINE x == gone[k + 1]
           op == RemoveEntry(x, IsDirectory(base, x))
           below == DownFrom(base, {x})
<1>1. /\ IsTree(v) /\ DOMAIN v \subseteq DOMAIN base
      /\ DOMAIN v = {e \in DOMAIN base : \A i \in 1..k : e \notin DownFrom(base, {gone[i]})}
      /\ \A e \in DOMAIN v : v[e] = base[e]
  BY DEF RemovedSoFar
<1>2. k + 1 \in 1..size /\ 1..k \subseteq 1..size /\ \A i \in 1..k : i # k + 1
  OBVIOUS
<1>3. x \in DOMAIN base \ {Root} /\ x \in below /\ below \subseteq DOMAIN base
  BY <1>2, SubtreeFacts
<1>4. below \subseteq DOMAIN v
  BY <1>1, <1>2, <1>3
<1>5. DownFrom(v, {x}) = below
  <2>1. IsTree(v) /\ DOMAIN v \subseteq DOMAIN base /\ \A e \in DOMAIN v : v[e] = base[e]
    BY <1>1
  <2>2. x \in DOMAIN v /\ DownFrom(base, {x}) \subseteq DOMAIN v
    BY <1>3, <1>4
  <2> HIDE DEF x
  <2>3. DownFrom(v, {x}) = DownFrom(base, {x})
    BY <2>1, <2>2, SubtreesStay
  <2> QED
    BY <2>3
<1>6. IsDirectory(base, x) \/ Children(v, x) = {}
  <2> SUFFICES ASSUME NEW c \in Children(v, x) PROVE IsDirectory(base, x)
    OBVIOUS
  <2>1. c \in DOMAIN base /\ base[c].parent = x
    BY <1>1 DEF Children
  <2>2. c # Root
    BY <1>3, <2>1, TreeFacts, EntryIdsAreFinite
  <2> QED
    BY <1>3, <2>1, <2>2, TreeFacts DEF IsDirectory
<1>7. Allowed(v, op)
  BY <1>3, <1>4, <1>6 DEF Allowed, RemoveEntry
<1>8. IsRemove(op) /\ op.id = x
  BY <1>3, TreeFacts DEF IsRemove, RemoveEntry
<1> HIDE DEF op, below
<1>9. /\ IsTree(Effect(v, op)) /\ DOMAIN Effect(v, op) = DOMAIN v \ DownFrom(v, {op.id})
      /\ \A e \in DOMAIN Effect(v, op) : Effect(v, op)[e] = v[e]
  BY <1>1, <1>7, <1>8, RemoveKeepsTree
<1>10. ApplyOperation(v, op) = Effect(v, op)
  BY <1>1, <1>7, <1>9, OperationApplies
<1> DEFINE u == ApplyOperation(v, op)
<1>11. IsTree(u) /\ DOMAIN u = DOMAIN v \ below /\ \A e \in DOMAIN u : u[e] = base[e]
  BY <1>1, <1>5, <1>8, <1>9, <1>10
<1>12. DOMAIN u = {e \in DOMAIN base : \A i \in 1..(k + 1) : e \notin DownFrom(base, {gone[i]})}
  <2>1. 1..(k + 1) = 1..k \cup {k + 1}
    OBVIOUS
  <2> QED
    BY <1>1, <1>11, <2>1 DEF below
<1> HIDE DEF u
<1>13. RemovedSoFar(gone, k + 1, u)
  BY <1>11, <1>12 DEF RemovedSoFar
<1> QED
  BY <1>13 DEF u, op

\* What is not in the target is below an entry that is removed.
LEMMA GoneIsBelowTops ==
    ASSUME IsTree(base), NEW t, IsTree(t), SameAsBase(t),
           NEW gone, gone = DOMAIN base \ DOMAIN t
    PROVE  /\ TopLevel(base, gone) \subseteq gone /\ Root \notin gone
           /\ \A e \in DOMAIN base :
                 e \in gone <=> \E d \in TopLevel(base, gone) : e \in DownFrom(base, {d})
<1> DEFINE tops == TopLevel(base, gone)
           below == {e \in DOMAIN base : \E d \in tops : e \in DownFrom(base, {d})}
<1>1. tops \subseteq gone /\ gone \subseteq DOMAIN base /\ Root \notin gone
  BY TopLevelFacts, TreeFacts
<1>2. Closed(base, gone)
  <2> SUFFICES ASSUME NEW c \in DOMAIN base, base[c].parent \in gone, c \notin gone PROVE FALSE
    BY DEF Closed
  <2>1. c \in DOMAIN t /\ t[c].parent = base[c].parent
    BY DEF SameAsBase
  <2>2. c # Root
    BY <1>1, <2>1, TreeFacts, EntryIdsAreFinite
  <2>3. t[c].parent \in DOMAIN t
    BY <2>1, <2>2, TreeFacts
  <2> QED
    BY <2>1, <2>3
<1>3. ASSUME NEW e \in DOMAIN base, NEW d \in tops, e \in DownFrom(base, {d}) PROVE e \in gone
  <2>1. d \in gone /\ d \in DOMAIN base
    BY <1>1
  <2>2. DownFrom(base, {d}) \subseteq gone
    BY <1>2, <2>1, SubtreeFacts
  <2> QED
    BY <1>3, <2>2
<1> DEFINE good == {e \in DOMAIN base : e \in gone => e \in below}
<1>4. Root \in good
  BY <1>1, TreeFacts
<1>5. ASSUME NEW e \in DOMAIN base \ {Root}, base[e].parent \in good PROVE e \in good
  <2> SUFFICES ASSUME e \in gone PROVE \E d \in tops : e \in DownFrom(base, {d})
    OBVIOUS
  <2> DEFINE p == base[e].parent
  <2>1. p \in DOMAIN base
    BY TreeFacts
  <2>2. CASE p \in gone
    <3>1. PICK d \in tops : p \in DownFrom(base, {d})
      BY <1>5, <2>2
    <3>2. d \in DOMAIN base
      BY <1>1
    <3>3. e \in DownFrom(base, {d})
      BY <3>1, <3>2, SubtreeFacts DEF Closed
    <3> QED
      BY <3>3
  <2>3. CASE p \notin gone
    <3>1. ASSUME NEW d \in gone \ {e}, e \in DownFrom(base, {d}) PROVE FALSE
      <4>1. d \in DOMAIN base
        BY <1>1
      <4>2. p \in DownFrom(base, {d})
        BY <3>1, <4>1, SubtreeFacts
      <4>3. DownFrom(base, {d}) \subseteq gone
        BY <1>2, <3>1, <4>1, SubtreeFacts
      <4> QED
        BY <2>3, <4>2, <4>3
    <3>2. e \in tops
      BY <3>1 DEF TopLevel
    <3>3. e \in DownFrom(base, {e})
      BY SubtreeFacts
    <3> QED
      BY <3>2, <3>3
  <2> QED
    BY <2>2, <2>3
<1> HIDE DEF good
<1>6. DOMAIN base \subseteq good
  BY <1>4, <1>5, TreeInduction
<1> QED
  BY <1>1, <1>3, <1>6 DEF good

\* The removals leave of the base what is in the target.
LEMMA RemovalsApply ==
    ASSUME IsTree(base), NEW t, IsTree(t), SameAsBase(t),
           NEW ops, ops = Removals(t), NEW v, v = ApplySegment(base, ops)
    PROVE  /\ IsSegment(ops)
           /\ IsTree(v) /\ DOMAIN v = DOMAIN base \cap DOMAIN t
           /\ \A e \in DOMAIN v : v[e] = base[e]
<1> DEFINE away == DOMAIN base \ DOMAIN t
           tops == TopLevel(base, away)
           gone == ByDepth(base, tops)
           size == Cardinality(tops)
<1>1. /\ tops \subseteq away /\ Root \notin away
      /\ \A e \in DOMAIN base : e \in away <=> \E d \in tops : e \in DownFrom(base, {d})
  <2>1. away = DOMAIN base \ DOMAIN t
    OBVIOUS
  <2> HIDE DEF away
  <2> QED
    BY <2>1, GoneIsBelowTops
<1>2. \A d, e \in tops : d # e => DownFrom(base, {d}) \cap DownFrom(base, {e}) = {}
  <2>1. away \in SUBSET DOMAIN base
    OBVIOUS
  <2> HIDE DEF away
  <2> QED
    BY <2>1, TopLevelFacts
<1>3. /\ size \in Nat /\ DOMAIN gone = 1..size
      /\ \A i \in 1..size : gone[i] \in tops
      /\ \A x \in tops : \E i \in 1..size : gone[i] = x
      /\ \A i, j \in 1..size : gone[i] = gone[j] => i = j
  <2>1. tops \in SUBSET DOMAIN base
    BY <1>1
  <2> HIDE DEF tops
  <2> QED
    BY <2>1, ByDepthLists
<1>4. ops = [i \in 1..size |-> RemoveEntry(gone[i], IsDirectory(base, gone[i]))]
  BY <1>3 DEF Removals
<1>5. tops \subseteq DOMAIN base \ {Root} /\ DOMAIN base \subseteq EntryIds
  BY <1>1, TreeFacts
<1> HIDE DEF size, gone, tops
<1>6. \A i \in 1..size : gone[i] \in DOMAIN base \ {Root} /\ gone[i] \in EntryIds
  BY <1>3, <1>5
<1>7. \A i, j \in 1..size :
         i # j => DownFrom(base, {gone[i]}) \cap DownFrom(base, {gone[j]}) = {}
  BY <1>2, <1>3
<1>8. IsSegment(ops) /\ Len(ops) = size
  <2>1. ops = [i \in 1..size |-> ops[i]]
    BY <1>4
  <2>2. \A i \in 1..size : IsOperation(ops[i])
    BY <1>4, <1>6 DEF IsOperation, IsRemove, RemoveEntry
  <2> QED
    BY <1>3, <2>1, <2>2, ListIsSegment
<1>9. PICK f : /\ f[0] = base /\ f[size] = ApplySegment(base, ops)
               /\ \A k \in Nat : k + 1 <= size => f[k + 1] = ApplyOperation(f[k], ops[k + 1])
  <2>1. size \in Nat /\ Len(ops) = size
    BY <1>3, <1>8
  <2> QED
    BY <2>1, SegmentSteps
<1> DEFINE S == {k \in Nat : k <= size => RemovedSoFar(gone, k, f[k])}
<1>10. 0 \in S
  BY <1>9 DEF RemovedSoFar
<1>11. ASSUME NEW k \in Nat, k \in S PROVE k + 1 \in S
  <2> SUFFICES ASSUME k + 1 <= size PROVE RemovedSoFar(gone, k + 1, f[k + 1])
    OBVIOUS
  <2>1. RemovedSoFar(gone, k, f[k]) /\ k + 1 \in 1..size
    BY <1>3, <1>11
  <2>2. f[k + 1] = ApplyOperation(f[k], RemoveEntry(gone[k + 1], IsDirectory(base, gone[k + 1])))
    BY <1>4, <1>9, <2>1
  <2>3. RemovedSoFar(gone, k + 1,
          ApplyOperation(f[k], RemoveEntry(gone[k + 1], IsDirectory(base, gone[k + 1]))))
    BY <1>3, <1>6, <1>7, <2>1, OneMoreRemoved
  <2> QED
    BY <2>2, <2>3
<1> HIDE DEF S
<1>12. size \in S
  BY <1>3, <1>10, <1>11, SetInduction
<1>13. RemovedSoFar(gone, size, v)
  BY <1>3, <1>9, <1>12 DEF S
<1>14. /\ IsTree(v)
       /\ DOMAIN v = {e \in DOMAIN base : \A i \in 1..size : e \notin DownFrom(base, {gone[i]})}
       /\ \A e \in DOMAIN v : v[e] = base[e]
  BY <1>13 DEF RemovedSoFar
<1>15. \A e \in DOMAIN base :
         (\A i \in 1..size : e \notin DownFrom(base, {gone[i]}))
           <=> \A d \in tops : e \notin DownFrom(base, {d})
  BY <1>3
<1>16. DOMAIN v = DOMAIN base \cap DOMAIN t
  BY <1>1, <1>14, <1>15
<1> QED
  BY <1>8, <1>14, <1>16

\* The new entries of the target, parents first.
IsNewList(t, new, size) ==
    /\ \A i \in 1..size : new[i] \in DOMAIN t \ DOMAIN base
    /\ \A x \in DOMAIN t \ DOMAIN base : \E i \in 1..size : new[i] = x
    /\ \A i, j \in 1..size : new[i] = new[j] => i = j
    /\ \A i \in 1..size :
          t[new[i]].parent \in DOMAIN base \/ \E j \in 1..(i - 1) : new[j] = t[new[i]].parent

\* After some of the creations.
CreatedSoFar(t, new, k, v) ==
    /\ IsTree(v)
    /\ DOMAIN v = (DOMAIN base \cap DOMAIN t) \cup {new[i] : i \in 1..k}
    /\ \A e \in DOMAIN base \cap DOMAIN t : v[e] = base[e]
    /\ \A i \in 1..k : v[new[i]] = t[new[i]]

\* One more creation.
LEMMA OneMoreCreated ==
    ASSUME IsTree(base), NEW t, IsTree(t), SameAsBase(t),
           NEW new, NEW size \in Nat, IsNewList(t, new, size),
           NEW k \in Nat, k + 1 <= size, NEW v, CreatedSoFar(t, new, k, v),
           NEW x, x = new[k + 1]
    PROVE  CreatedSoFar(t, new, k + 1,
              ApplyOperation(v, CreateEntry(x, t[x].parent, t[x].name, t[x].content)))
<1> DEFINE op == CreateEntry(x, t[x].parent, t[x].name, t[x].content)
           p == t[x].parent
           n == t[x].name
           c == t[x].content
<1>1. /\ IsTree(v)
      /\ DOMAIN v = (DOMAIN base \cap DOMAIN t) \cup {new[i] : i \in 1..k}
      /\ \A e \in DOMAIN base \cap DOMAIN t : v[e] = base[e]
      /\ \A i \in 1..k : v[new[i]] = t[new[i]]
  BY DEF CreatedSoFar
<1>2. k + 1 \in 1..size /\ 1..k \subseteq 1..size /\ (\A i \in 1..k : i # k + 1) /\ (k + 1) - 1 = k
  OBVIOUS
<1>3. x \in DOMAIN t /\ x \notin DOMAIN base /\ x # Root /\ x \in EntryIds
  BY <1>2, TreeFacts DEF IsNewList
<1>4. x \notin DOMAIN v
  BY <1>1, <1>2, <1>3 DEF IsNewList
<1>5. \A e \in DOMAIN v : /\ e \in DOMAIN t /\ v[e].parent = t[e].parent /\ v[e].name = t[e].name
                          /\ v[e].content = None <=> t[e].content = None
  <2> TAKE e \in DOMAIN v
  <2>1. CASE e \in DOMAIN base \cap DOMAIN t
    BY <1>1, <2>1 DEF SameAsBase
  <2>2. CASE e \notin DOMAIN base \cap DOMAIN t
    <3>1. PICK i \in 1..k : e = new[i]
      BY <1>1, <2>2
    <3>2. i \in 1..size /\ v[e] = t[e]
      BY <1>1, <1>2, <3>1
    <3>3. e \in DOMAIN t
      BY <3>1, <3>2 DEF IsNewList
    <3> QED
      BY <3>2, <3>3
  <2> QED
    BY <2>1, <2>2
<1>6. p \in DOMAIN t /\ t[p].content = None /\ n \in Names \cup {None} /\ c \in Contents \cup {None}
      /\ p \in EntryIds
  <2>1. p \in DOMAIN t /\ t[p].content = None
    BY <1>3, TreeFacts
  <2>2. n \in Names \cup {None} /\ c \in Contents \cup {None}
    BY <1>3, TreeFacts
  <2>3. p \in EntryIds
    BY <2>1, TreeFacts
  <2> QED
    BY <2>1, <2>2, <2>3
<1>7. p \in DOMAIN v
  <2>1. p \in DOMAIN base \/ \E j \in 1..k : new[j] = p
    BY <1>2 DEF IsNewList
  <2> QED
    BY <1>1, <1>6, <2>1
<1>8. v[p].content = None
  BY <1>5, <1>6, <1>7
<1>9. ASSUME NEW d \in DOMAIN v, v[d].parent = p, v[d].name = n PROVE FALSE
  <2>1. d \in DOMAIN t /\ t[d].parent = t[x].parent /\ t[d].name = t[x].name
    BY <1>5, <1>9
  <2>2. d = x
    BY <1>3, <2>1 DEF IsTree, ValidTree
  <2> QED
    BY <1>4, <2>2
<1>10. Allowed(v, op)
  BY <1>4, <1>7, <1>8, <1>9 DEF Allowed, CreateEntry, IsDirectory, NameTaken, Children
<1>11. IsCreate(op) /\ op.id = x /\ op.parent = p /\ op.name = n /\ op.content = c
  BY <1>3, <1>6 DEF IsCreate, CreateEntry
<1> HIDE DEF op, p, n, c
<1> DEFINE u == Effect(v, op)
<1>12. HasCreated(v, op, u)
  BY <1>1, <1>10, <1>11, CreateHasCreated
<1> HIDE DEF u
<1>13. /\ IsTree(u) /\ DOMAIN u = DOMAIN v \cup {x}
       /\ \A e \in DOMAIN v : u[e] = v[e]
       /\ u[x].parent = p /\ u[x].name = n /\ u[x].content = c
  BY <1>11, <1>12 DEF HasCreated
<1>14. ApplyOperation(v, op) = u
  BY <1>1, <1>10, <1>13, OperationApplies DEF u
<1>15. u[x] = t[x]
  <2>1. u[x] = [parent |-> u[x].parent, name |-> u[x].name, content |-> u[x].content]
    BY <1>13, TreeFacts
  <2>2. t[x] = [parent |-> t[x].parent, name |-> t[x].name, content |-> t[x].content]
    BY <1>3, TreeFacts
  <2> QED
    BY <1>13, <2>1, <2>2 DEF p, n, c
<1>16. \A i \in 1..(k + 1) : i \in 1..k \/ i = k + 1
  OBVIOUS
<1>17. DOMAIN u = (DOMAIN base \cap DOMAIN t) \cup {new[i] : i \in 1..(k + 1)}
  <2>1. {new[i] : i \in 1..(k + 1)} = {new[i] : i \in 1..k} \cup {x}
    <3>1. 1..k \subseteq 1..(k + 1) /\ k + 1 \in 1..(k + 1)
      OBVIOUS
    <3> QED
      BY <1>16, <3>1
  <2> QED
    BY <1>1, <1>13, <2>1
<1>18. \A e \in DOMAIN base \cap DOMAIN t : u[e] = base[e]
  BY <1>1, <1>13
<1>19. \A i \in 1..(k + 1) : u[new[i]] = t[new[i]]
  <2> SUFFICES ASSUME NEW i \in 1..(k + 1) PROVE u[new[i]] = t[new[i]]
    OBVIOUS
  <2>1. CASE i \in 1..k
    BY <1>1, <1>13, <2>1
  <2>2. CASE i = k + 1
    BY <1>15, <2>2
  <2> QED
    BY <1>16, <2>1, <2>2
<1>20. CreatedSoFar(t, new, k + 1, u)
  BY <1>13, <1>17, <1>18, <1>19 DEF CreatedSoFar
<1> QED
  BY <1>14, <1>20 DEF op

\* The creations add to what is left of the base what is new in the target.
LEMMA CreationsApply ==
    ASSUME IsTree(base), NEW t, IsTree(t), SameAsBase(t),
           NEW ops, ops = Creations(t),
           NEW v, IsTree(v), DOMAIN v = DOMAIN base \cap DOMAIN t,
           \A e \in DOMAIN v : v[e] = base[e],
           NEW u, u = ApplySegment(v, ops)
    PROVE  /\ IsSegment(ops)
           /\ IsTree(u) /\ DOMAIN u = DOMAIN t
           /\ \A e \in DOMAIN base \cap DOMAIN t : u[e] = base[e]
           /\ \A e \in DOMAIN t \ DOMAIN base : u[e] = t[e]
<1> DEFINE added == DOMAIN t \ DOMAIN base
           new == ByDepth(t, added)
           size == Cardinality(added)
<1>1. /\ size \in Nat /\ DOMAIN new = 1..size
      /\ \A i \in 1..size : new[i] \in added
      /\ \A x \in added : \E i \in 1..size : new[i] = x
      /\ \A i, j \in 1..size : new[i] = new[j] => i = j
      /\ \A i, j \in 1..size : Len(PathOf(t, new[i])) < Len(PathOf(t, new[j])) => i < j
  <2>1. added \in SUBSET DOMAIN t
    OBVIOUS
  <2> HIDE DEF added
  <2> QED
    BY <2>1, ByDepthLists
<1>2. ops = [i \in 1..size |-> CreateEntry(new[i], t[new[i]].parent, t[new[i]].name, t[new[i]].content)]
  BY <1>1 DEF Creations
<1>3. \A x \in added : x \in DOMAIN t /\ x # Root /\ x \in EntryIds
  BY TreeFacts
<1> HIDE DEF size, new
<1>4. ASSUME NEW i \in 1..size
      PROVE  t[new[i]].parent \in DOMAIN base \/ \E j \in 1..(i - 1) : new[j] = t[new[i]].parent
  <2> DEFINE x == new[i]
             p == t[x].parent
  <2>1. x \in added /\ x \in DOMAIN t /\ x # Root
    BY <1>1, <1>3
  <2>2. p \in DOMAIN t /\ PathOf(t, x) = Append(PathOf(t, p), t[x].name)
    BY <2>1, TreeFacts, PathOfUnfolds
  <2>3. PathOf(t, p) \in Seq(Names \cup {None}) /\ t[x].name \in Names \cup {None}
    BY <2>1, <2>2, PathsAreSequences, TreeFacts
  <2>4. Len(PathOf(t, p)) < Len(PathOf(t, x))
    BY <2>2, <2>3
  <2>5. CASE p \notin DOMAIN base
    <3>1. PICK j \in 1..size : new[j] = p
      BY <1>1, <2>2, <2>5
    <3>2. j < i
      BY <1>1, <2>4, <3>1
    <3>3. j \in 1..(i - 1)
      BY <1>1, <3>2
    <3> QED
      BY <3>1, <3>3
  <2> QED
    BY <2>5
<1>5. IsNewList(t, new, size)
  BY <1>1, <1>4 DEF IsNewList
<1>6. IsSegment(ops) /\ Len(ops) = size
  <2>1. ops = [i \in 1..size |-> ops[i]]
    BY <1>2
  <2>2. ASSUME NEW i \in 1..size PROVE IsOperation(ops[i])
    <3> DEFINE x == new[i]
    <3>1. x \in DOMAIN t /\ x # Root /\ x \in EntryIds
      BY <1>1, <1>3
    <3>2. /\ t[x].parent \in EntryIds /\ t[x].name \in Names \cup {None}
          /\ t[x].content \in Contents \cup {None}
      BY <3>1, TreeFacts
    <3>3. ops[i] = CreateEntry(x, t[x].parent, t[x].name, t[x].content)
      BY <1>2
    <3> HIDE DEF x
    <3> QED
      BY <3>1, <3>2, <3>3 DEF IsOperation, IsCreate, CreateEntry
  <2> QED
    BY <1>1, <2>1, <2>2, ListIsSegment
<1>7. PICK f : /\ f[0] = v /\ f[size] = ApplySegment(v, ops)
               /\ \A k \in Nat : k + 1 <= size => f[k + 1] = ApplyOperation(f[k], ops[k + 1])
  <2>1. size \in Nat /\ Len(ops) = size
    BY <1>1, <1>6
  <2> QED
    BY <2>1, SegmentSteps
<1> DEFINE S == {k \in Nat : k <= size => CreatedSoFar(t, new, k, f[k])}
<1>8. 0 \in S
  BY <1>7 DEF CreatedSoFar
<1>9. ASSUME NEW k \in Nat, k \in S PROVE k + 1 \in S
  <2> SUFFICES ASSUME k + 1 <= size PROVE CreatedSoFar(t, new, k + 1, f[k + 1])
    OBVIOUS
  <2> DEFINE x == new[k + 1]
  <2>1. CreatedSoFar(t, new, k, f[k]) /\ k + 1 \in 1..size
    BY <1>1, <1>9
  <2>2. f[k + 1] = ApplyOperation(f[k], CreateEntry(x, t[x].parent, t[x].name, t[x].content))
    BY <1>2, <1>7, <2>1
  <2>3. x = new[k + 1]
    OBVIOUS
  <2> HIDE DEF x
  <2>4. CreatedSoFar(t, new, k + 1,
          ApplyOperation(f[k], CreateEntry(x, t[x].parent, t[x].name, t[x].content)))
    BY <1>1, <1>5, <2>1, <2>3, OneMoreCreated
  <2> QED
    BY <2>2, <2>4
<1> HIDE DEF S
<1>10. size \in S
  BY <1>1, <1>8, <1>9, SetInduction
<1>11. CreatedSoFar(t, new, size, u)
  BY <1>1, <1>7, <1>10 DEF S
<1>12. /\ IsTree(u)
       /\ DOMAIN u = (DOMAIN base \cap DOMAIN t) \cup {new[i] : i \in 1..size}
       /\ \A e \in DOMAIN base \cap DOMAIN t : u[e] = base[e]
       /\ \A i \in 1..size : u[new[i]] = t[new[i]]
  BY <1>11 DEF CreatedSoFar
<1>13. {new[i] : i \in 1..size} = DOMAIN t \ DOMAIN base
  BY <1>1
<1>14. DOMAIN u = DOMAIN t
  BY <1>12, <1>13
<1>15. \A e \in DOMAIN t \ DOMAIN base : u[e] = t[e]
  BY <1>1, <1>12
<1> QED
  BY <1>6, <1>12, <1>14, <1>15

\* After some of the new contents.
UpdatedSoFar(t, changed, k, v) ==
    /\ IsTree(v) /\ DOMAIN v = DOMAIN t
    /\ \A e \in DOMAIN t : v[e].parent = t[e].parent /\ v[e].name = t[e].name
    /\ \A e \in DOMAIN t :
          v[e].content = IF e \in DOMAIN base /\ \A i \in 1..k : changed[i] # e
                         THEN base[e].content ELSE t[e].content

\* One more content.
LEMMA OneMoreUpdated ==
    ASSUME IsTree(base), NEW t, IsTree(t), NEW changed, NEW size \in Nat,
           \A i \in 1..size : /\ changed[i] \in DOMAIN base \cap DOMAIN t
                              /\ base[changed[i]].content # None /\ t[changed[i]].content # None,
           \A i, j \in 1..size : changed[i] = changed[j] => i = j,
           NEW k \in Nat, k + 1 <= size, NEW v, UpdatedSoFar(t, changed, k, v),
           NEW x, x = changed[k + 1]
    PROVE  UpdatedSoFar(t, changed, k + 1,
              ApplyOperation(v, SetContent(x, base[x].content, t[x].content)))
<1> DEFINE op == SetContent(x, base[x].content, t[x].content)
           was == base[x].content
           c == t[x].content
<1>1. /\ IsTree(v) /\ DOMAIN v = DOMAIN t
      /\ \A e \in DOMAIN t : v[e].parent = t[e].parent /\ v[e].name = t[e].name
      /\ \A e \in DOMAIN t :
            v[e].content = IF e \in DOMAIN base /\ \A i \in 1..k : changed[i] # e
                           THEN base[e].content ELSE t[e].content
  BY DEF UpdatedSoFar
<1>2. k + 1 \in 1..size /\ 1..k \subseteq 1..size /\ (\A i \in 1..k : i # k + 1)
  OBVIOUS
<1>3. x \in DOMAIN base /\ x \in DOMAIN t /\ was # None /\ c # None
  BY <1>2
<1>4. v[x].content = was
  BY <1>1, <1>2, <1>3
<1>5. c \in Contents /\ x \in EntryIds
  BY <1>3, TreeFacts
<1>6. IsSetContent(op) /\ op.id = x /\ op.expected = was /\ op.content = c
  BY <1>5 DEF IsSetContent, SetContent
<1>7. Allowed(v, op)
  BY <1>1, <1>3, <1>4 DEF Allowed, SetContent, IsFile
<1> HIDE DEF op, was, c
<1> DEFINE u == Effect(v, op)
<1>8. /\ IsTree(u) /\ DOMAIN u = DOMAIN v
      /\ \A e \in DOMAIN v : u[e].parent = v[e].parent /\ u[e].name = v[e].name
      /\ \A e \in DOMAIN v \ {x} : u[e] = v[e]
      /\ u[x].content = c
  BY <1>1, <1>6, <1>7, SetContentKeepsTree
<1>9. ApplyOperation(v, op) = u
  BY <1>1, <1>7, <1>8, OperationApplies
<1> HIDE DEF u
<1>10. \A e \in DOMAIN t :
          u[e].content = IF e \in DOMAIN base /\ \A i \in 1..(k + 1) : changed[i] # e
                         THEN base[e].content ELSE t[e].content
  <2> TAKE e \in DOMAIN t
  <2>1. (\A i \in 1..(k + 1) : changed[i] # e) <=> (\A i \in 1..k : changed[i] # e) /\ x # e
    <3>1. \A i \in 1..(k + 1) : i \in 1..k \/ i = k + 1
      OBVIOUS
    <3>2. 1..k \subseteq 1..(k + 1) /\ k + 1 \in 1..(k + 1)
      OBVIOUS
    <3> QED
      BY <3>1, <3>2
  <2>2. CASE e = x
    BY <1>8, <2>1, <2>2 DEF c
  <2>3. CASE e # x
    BY <1>1, <1>8, <2>1, <2>3
  <2> QED
    BY <2>2, <2>3
<1>11. UpdatedSoFar(t, changed, k + 1, u)
  BY <1>1, <1>8, <1>10 DEF UpdatedSoFar
<1> QED
  BY <1>9, <1>11 DEF op

\* The updates turn what has the shape of the target into the target.
LEMMA UpdatesApply ==
    ASSUME IsTree(base), NEW t, IsTree(t), SameAsBase(t),
           NEW marked, \A e \in marked \cap DOMAIN base : base[e].content # None,
           NEW ops, ops = Updates(t, marked),
           NEW v, IsTree(v), DOMAIN v = DOMAIN t,
           \A e \in DOMAIN base \cap DOMAIN t : v[e] = base[e],
           \A e \in DOMAIN t \ DOMAIN base : v[e] = t[e]
    PROVE  IsSegment(ops) /\ ApplySegment(v, ops) = t
<1> DEFINE files == {e \in DOMAIN t \cap DOMAIN base :
                       t[e].content # base[e].content \/ e \in marked}
           changed == InOrder(files, ById(files))
           size == Cardinality(files)
<1>1. files \in SUBSET EntryIds
  BY TreeFacts
<1>2. /\ size \in Nat /\ DOMAIN changed = 1..size
      /\ \A i \in 1..size : changed[i] \in files
      /\ \A x \in files : \E i \in 1..size : changed[i] = x
      /\ \A i, j \in 1..size : changed[i] = changed[j] => i = j
  <2> HIDE DEF files
  <2> QED
    BY <1>1, ListedById, InOrderLists
<1>3. ops = [i \in 1..size |->
               SetContent(changed[i], base[changed[i]].content, t[changed[i]].content)]
  BY <1>2 DEF Updates
<1>4. \A e \in files : /\ e \in DOMAIN base \cap DOMAIN t
                       /\ base[e].content # None /\ t[e].content # None
  BY DEF SameAsBase
<1>5. \A e \in DOMAIN base \cap DOMAIN t : e \notin files => t[e].content = base[e].content
  OBVIOUS
<1> HIDE DEF files, changed, size
<1>6. \A i \in 1..size : /\ changed[i] \in DOMAIN base \cap DOMAIN t
                         /\ base[changed[i]].content # None /\ t[changed[i]].content # None
  BY <1>2, <1>4
<1>7. IsSegment(ops) /\ Len(ops) = size
  <2>1. ops = [i \in 1..size |-> ops[i]]
    BY <1>3
  <2>2. ASSUME NEW i \in 1..size PROVE IsOperation(ops[i])
    <3> DEFINE x == changed[i]
    <3>1. x \in EntryIds /\ t[x].content \in Contents
      BY <1>6, TreeFacts
    <3>2. ops[i] = SetContent(x, base[x].content, t[x].content)
      BY <1>3
    <3> HIDE DEF x
    <3> QED
      BY <3>1, <3>2 DEF IsOperation, IsSetContent, SetContent
  <2> QED
    BY <1>2, <2>1, <2>2, ListIsSegment
<1>8. PICK f : /\ f[0] = v /\ f[size] = ApplySegment(v, ops)
               /\ \A k \in Nat : k + 1 <= size => f[k + 1] = ApplyOperation(f[k], ops[k + 1])
  <2>1. size \in Nat /\ Len(ops) = size
    BY <1>2, <1>7
  <2> QED
    BY <2>1, SegmentSteps
<1> DEFINE S == {k \in Nat : k <= size => UpdatedSoFar(t, changed, k, f[k])}
<1>9. 0 \in S
  <2>1. \A e \in DOMAIN t : /\ v[e].parent = t[e].parent /\ v[e].name = t[e].name
                            /\ v[e].content = IF e \in DOMAIN base THEN base[e].content
                                                                   ELSE t[e].content
    BY DEF SameAsBase
  <2>2. UpdatedSoFar(t, changed, 0, v)
    BY <2>1 DEF UpdatedSoFar
  <2> QED
    BY <1>8, <2>2
<1>10. ASSUME NEW k \in Nat, k \in S PROVE k + 1 \in S
  <2> SUFFICES ASSUME k + 1 <= size PROVE UpdatedSoFar(t, changed, k + 1, f[k + 1])
    OBVIOUS
  <2> DEFINE x == changed[k + 1]
  <2>1. UpdatedSoFar(t, changed, k, f[k]) /\ k + 1 \in 1..size
    BY <1>2, <1>10
  <2>2. f[k + 1] = ApplyOperation(f[k], SetContent(x, base[x].content, t[x].content))
    BY <1>3, <1>8, <2>1
  <2>3. x = changed[k + 1]
    OBVIOUS
  <2> HIDE DEF x
  <2>4. UpdatedSoFar(t, changed, k + 1,
          ApplyOperation(f[k], SetContent(x, base[x].content, t[x].content)))
    BY <1>2, <1>6, <2>1, <2>3, OneMoreUpdated
  <2> QED
    BY <2>2, <2>4
<1> HIDE DEF S
<1>11. size \in S
  BY <1>2, <1>9, <1>10, SetInduction
<1> DEFINE u == ApplySegment(v, ops)
<1>12. UpdatedSoFar(t, changed, size, u)
  BY <1>2, <1>8, <1>11 DEF S
<1> HIDE DEF u
<1>13. /\ IsTree(u) /\ DOMAIN u = DOMAIN t
       /\ \A e \in DOMAIN t : u[e].parent = t[e].parent /\ u[e].name = t[e].name
       /\ \A e \in DOMAIN t :
             u[e].content = IF e \in DOMAIN base /\ \A i \in 1..size : changed[i] # e
                            THEN base[e].content ELSE t[e].content
  BY <1>12 DEF UpdatedSoFar
<1>14. \A e \in DOMAIN t : u[e].content = t[e].content
  BY <1>2, <1>5, <1>13
<1>15. \A e \in DOMAIN t : u[e] = t[e]
  <2> TAKE e \in DOMAIN t
  <2>1. u[e] = [parent |-> u[e].parent, name |-> u[e].name, content |-> u[e].content]
    BY <1>13, TreeFacts
  <2>2. t[e] = [parent |-> t[e].parent, name |-> t[e].name, content |-> t[e].content]
    BY TreeFacts
  <2> QED
    BY <1>13, <1>14, <2>1, <2>2
<1>16. u = t
  <2>1. u = [e \in DOMAIN u |-> u[e]] /\ t = [e \in DOMAIN t |-> t[e]]
    BY <1>13 DEF IsTree
  <2> QED
    BY <1>13, <1>15, <2>1
<1> QED
  BY <1>7, <1>16 DEF u

\* The last of a path that was appended to.
LEMMA LastOfAppend ==
    ASSUME NEW S, NEW q \in Seq(S), NEW n \in S
    PROVE  Last(Append(q, n)) = n
BY AppendProperties, LenProperties DEF Last

\* An operation of two segments in turn is one of either.
LEMMA JoinedElements ==
    ASSUME NEW s, IsSegment(s), NEW r, IsSegment(r)
    PROVE  /\ IsSegment(s \o r)
           /\ \A i \in DOMAIN (s \o r) : \/ \E j \in DOMAIN s : (s \o r)[i] = s[j]
                                         \/ \E j \in DOMAIN r : (s \o r)[i] = r[j]
<1>1. /\ IsSegment(s \o r) /\ Len(s \o r) = Len(s) + Len(r)
      /\ \A i \in 1..Len(s) : (s \o r)[i] = s[i]
      /\ \A i \in 1..Len(r) : (s \o r)[Len(s) + i] = r[i]
  BY SegmentsJoin
<1>2. /\ DOMAIN s = 1..Len(s) /\ DOMAIN r = 1..Len(r) /\ Len(s) \in Nat /\ Len(r) \in Nat
      /\ DOMAIN (s \o r) = 1..(Len(s) + Len(r))
  BY <1>1 DEF IsSegment
<1> SUFFICES ASSUME NEW i \in 1..(Len(s) + Len(r))
             PROVE  \/ \E j \in 1..Len(s) : (s \o r)[i] = s[j]
                    \/ \E j \in 1..Len(r) : (s \o r)[i] = r[j]
  BY <1>1, <1>2
<1>3. CASE i <= Len(s)
  BY <1>1, <1>2, <1>3
<1>4. CASE ~(i <= Len(s))
  <2>1. i - Len(s) \in 1..Len(r) /\ Len(s) + (i - Len(s)) = i
    BY <1>2, <1>4
  <2> QED
    BY <1>1, <2>1
<1> QED
  BY <1>3, <1>4

\* The removals, creations and updates of a target are three segments, and apply
\* one after the other.
LEMMA PlanApplies ==
    ASSUME IsTree(base), NEW target, ProjectedSoFar(target, 0), target.tree # Refused
    PROVE  /\ IsSegment(Removals(target.tree)) /\ IsSegment(Creations(target.tree))
           /\ IsSegment(Updates(target.tree, target.touched))
           /\ ApplySegment(base, CommitOperations(target)) = target.tree
<1> DEFINE t == target.tree
           removed == Removals(t)
           created == Creations(t)
           updated == Updates(t, target.touched)
           v == ApplySegment(base, removed)
           u == ApplySegment(v, created)
<1>1. IsTree(t) /\ SameAsBase(t) /\ \A e \in target.touched \cap DOMAIN base : base[e].content # None
  BY DEF ProjectedSoFar, ProjectedWell
<1>2. CommitOperations(target) = (removed \o created) \o updated
  BY DEF CommitOperations
<1> HIDE DEF t, removed, created, updated, v, u
<1>3. /\ IsSegment(removed) /\ IsTree(v) /\ DOMAIN v = DOMAIN base \cap DOMAIN t
      /\ \A e \in DOMAIN v : v[e] = base[e]
  <2>1. removed = Removals(t) /\ v = ApplySegment(base, removed)
    BY DEF removed, v
  <2>2. IsTree(t) /\ SameAsBase(t)
    BY <1>1
  <2> QED
    BY <2>1, <2>2, RemovalsApply
<1>4. /\ IsSegment(created) /\ IsTree(u) /\ DOMAIN u = DOMAIN t
      /\ \A e \in DOMAIN base \cap DOMAIN t : u[e] = base[e]
      /\ \A e \in DOMAIN t \ DOMAIN base : u[e] = t[e]
  BY <1>1, <1>3, CreationsApply DEF created, u
<1>5. IsSegment(updated) /\ ApplySegment(u, updated) = t
  BY <1>1, <1>4, UpdatesApply DEF updated
<1>6. IsSegment(removed \o created) /\ ApplySegment(base, removed \o created) = u
  BY <1>3, <1>4, SegmentsJoin, SegmentsAreAppliedInTurn DEF v, u
<1>7. ApplySegment(base, (removed \o created) \o updated) = t
  BY <1>5, <1>6, SegmentsAreAppliedInTurn
<1> QED
  BY <1>2, <1>3, <1>4, <1>5, <1>7 DEF t, removed, created, updated

\* The plan reproduces the target, whatever was projected: none of its removals,
\* creations and updates is refused (planCommitOperations).
THEOREM PlanReproducesTheTarget ==
    ASSUME IsTree(base), NEW target, ProjectedSoFar(target, 0), target.tree # Refused
    PROVE  ApplySegment(base, CommitOperations(target)) = target.tree
BY PlanApplies

-----------------------------------------------------------------------------
(* Commit: what is at a path.                                              *)

\* What is above a path of a tree.
LEMMA AboveUnfolds ==
    ASSUME NEW S, NEW q \in Seq(S), NEW n \in S
    PROVE  Above(Append(q, n)) = IF q = << >> THEN {} ELSE Above(q) \cup {q}
<1> DEFINE p == Append(q, n)
<1>1. /\ p \in Seq(S) /\ Len(p) = Len(q) + 1 /\ Len(q) \in Nat
      /\ \A i \in 1..Len(q) : p[i] = q[i]
  BY AppendProperties, LenProperties
<1>2. Above(q) \subseteq Above(p) /\ (q # << >> => q \in Above(p))
  BY AboveOfAppend
<1> HIDE DEF p
<1>3. ASSUME NEW i \in 1..Len(q) PROVE SubSeq(p, 1, i) = SubSeq(q, 1, i)
  <2>1. \A k \in 1..i : k \in 1..Len(q) /\ k \in 1..Len(p)
    BY <1>1
  <2>2. \A k \in 1..i : p[k] \in S /\ q[k] \in S
    BY <1>1, <2>1, ElementOfSeq
  <2>3. 1 \in Int /\ i \in Int
    BY <1>1
  <2>4. /\ SubSeq(p, 1, i) \in Seq(S) /\ SubSeq(q, 1, i) \in Seq(S)
        /\ Len(SubSeq(p, 1, i)) = i /\ Len(SubSeq(q, 1, i)) = i
        /\ \A k \in 1..i : SubSeq(p, 1, i)[k] = p[k] /\ SubSeq(q, 1, i)[k] = q[k]
    BY <1>1, <2>2, <2>3, SubSeqProperties
  <2>5. \A k \in 1..i : SubSeq(p, 1, i)[k] = SubSeq(q, 1, i)[k]
    BY <1>1, <2>1, <2>4
  <2> QED
    BY <2>4, <2>5, SeqEqual
<1>4. SubSeq(q, 1, Len(q)) = q
  BY <1>1, SubSeqFull
<1>5. Above(p) \subseteq Above(q) \cup {q}
  <2> SUFFICES ASSUME NEW i \in 1..(Len(p) - 1) PROVE SubSeq(p, 1, i) \in Above(q) \cup {q}
    BY DEF Above
  <2>1. i \in 1..Len(q) /\ (i = Len(q) \/ i \in 1..(Len(q) - 1))
    BY <1>1
  <2>2. SubSeq(p, 1, i) = SubSeq(q, 1, i)
    BY <1>3, <2>1
  <2> QED
    BY <1>4, <2>1, <2>2 DEF Above
<1>6. CASE q = << >>
  <2>1. Len(p) - 1 = 0
    BY <1>1, <1>6, EmptySeq
  <2>2. Above(p) = {SubSeq(p, 1, i) : i \in 1..0}
    BY <2>1 DEF Above
  <2>3. Above(p) = {}
    BY <2>2
  <2> QED
    BY <1>6, <2>3 DEF p
<1>7. CASE q # << >>
  BY <1>2, <1>5, <1>7 DEF p
<1> QED
  BY <1>6, <1>7

\* A path is not above itself, and what is above is shorter, with what is above
\* it above too.
LEMMA AboveFacts ==
    ASSUME NEW S, NEW p \in Seq(S), NEW q \in Above(p)
    PROVE  /\ q \in Seq(S) /\ q # << >> /\ Len(q) \in Nat /\ Len(p) \in Nat /\ Len(q) < Len(p)
           /\ Above(q) \subseteq Above(p) /\ IsPrefix(q, p)
<1>1. PICK i \in 1..(Len(p) - 1) : q = SubSeq(p, 1, i)
  BY DEF Above
<1>2. Len(p) \in Nat /\ i \in Nat /\ 1 <= i /\ i < Len(p) /\ 1 \in Int
  BY <1>1, LenProperties
<1>3. \A k \in 1..i : p[k] \in S
  BY <1>2, ElementOfSeq
<1>4. q \in Seq(S) /\ Len(q) = i
  BY <1>1, <1>2, <1>3, SubSeqProperties
<1>5. q # << >>
  BY <1>2, <1>4, EmptySeq
<1>6. \A k \in 1..i : SubSeq(q, 1, k) = SubSeq(p, 1, k)
  <2> SUFFICES ASSUME NEW k \in 1..i PROVE SubSeq(q, 1, k) = SubSeq(p, 1, k)
    OBVIOUS
  <2>1. /\ 1 \in 1..Len(p) /\ i \in 1..Len(p) /\ 1 \in 1..(i - 1 + 1) /\ k \in 1..(i - 1 + 1)
        /\ 1 + 1 - 1 = 1 /\ 1 + k - 1 = k
    BY <1>2
  <2>2. SubSeq(SubSeq(p, 1, i), 1, k) = SubSeq(p, 1 + 1 - 1, 1 + k - 1)
    BY <1>2, <2>1, SubSeqOfSubSeq
  <2> QED
    BY <1>1, <2>1, <2>2
<1>7. Above(q) \subseteq Above(p)
  <2>1. \A k \in 1..(i - 1) : k \in 1..i /\ k \in 1..(Len(p) - 1)
    BY <1>2
  <2> QED
    BY <1>4, <1>6, <2>1 DEF Above
<1>8. IsPrefix(q, p)
  <2>1. i \in 1..i
    BY <1>2
  <2>2. SubSeq(q, 1, Len(q)) = SubSeq(p, 1, Len(q))
    BY <1>4, <1>6, <2>1
  <2> QED
    BY <1>2, <1>4, <2>2 DEF IsPrefix
<1> QED
  BY <1>2, <1>4, <1>5, <1>7, <1>8

\* What is longer and starts with a path is below it.
LEMMA PrefixIsAbove ==
    ASSUME NEW S, NEW p \in Seq(S), p # << >>, NEW q \in Seq(S), IsPrefix(p, q)
    PROVE  p = q \/ p \in Above(q)
<1>1. Len(p) \in Nat /\ Len(q) \in Nat /\ Len(p) <= Len(q) /\ Len(p) # 0
  BY LenProperties, EmptySeq DEF IsPrefix
<1>2. SubSeq(p, 1, Len(p)) = p /\ SubSeq(q, 1, Len(q)) = q
  BY SubSeqFull
<1>3. p = SubSeq(q, 1, Len(p))
  BY <1>2 DEF IsPrefix
<1>4. Len(p) = Len(q) \/ Len(p) \in 1..(Len(q) - 1)
  BY <1>1
<1> QED
  BY <1>2, <1>3, <1>4 DEF Above

\* What is below an entry is what its path is above.
LEMMA BelowAPath ==
    ASSUME NEW t, IsTree(t), NEW e \in DOMAIN t \ {Root}, NEW p, p = PathOf(t, e), NEW d \in DOMAIN t
    PROVE  d \in DownFrom(t, {e}) <=> PathOf(t, d) = p \/ p \in Above(PathOf(t, d))
<1> DEFINE there == {x \in DOMAIN t : PathOf(t, x) = p \/ p \in Above(PathOf(t, x))}
           reached == {x \in DOMAIN t : x \in there => x \in DownFrom(t, {e})}
           S == Names \cup {None}
<1>1. \A x \in DOMAIN t \ {Root} :
         /\ t[x].parent \in DOMAIN t /\ t[x].name \in S
         /\ PathOf(t, t[x].parent) \in Seq(S)
         /\ PathOf(t, x) = Append(PathOf(t, t[x].parent), t[x].name)
  <2> TAKE x \in DOMAIN t \ {Root}
  <2>1. t[x].parent \in DOMAIN t /\ t[x].name \in S
    BY TreeFacts
  <2> QED
    BY <2>1, PathsAreSequences, PathOfUnfolds
<1>2. \A x \in DOMAIN t \ {Root} :
         p \in Above(PathOf(t, x)) <=>
            /\ PathOf(t, t[x].parent) # << >>
            /\ PathOf(t, t[x].parent) = p \/ p \in Above(PathOf(t, t[x].parent))
  <2> TAKE x \in DOMAIN t \ {Root}
  <2> DEFINE q == PathOf(t, t[x].parent)
             n == t[x].name
  <2>1. q \in Seq(S) /\ n \in S /\ PathOf(t, x) = Append(q, n)
    BY <1>1
  <2> HIDE DEF S, q, n
  <2>2. Above(Append(q, n)) = IF q = << >> THEN {} ELSE Above(q) \cup {q}
    BY <2>1, AboveUnfolds
  <2>3. p \in Above(PathOf(t, x)) <=> q # << >> /\ (q = p \/ p \in Above(q))
    BY <2>1, <2>2
  <2> QED
    BY <2>3 DEF q
<1>3. p # << >>
  <2>1. PathOf(t, Root) = << >> /\ Root \in DOMAIN t
    BY PathOfUnfolds, TreeFacts
  <2> QED
    BY <2>1, PathsAreDifferent
<1>4. \A x \in there : PathOf(t, x) # << >>
  <2> SUFFICES ASSUME NEW x \in there, PathOf(t, x) = << >> PROVE FALSE
    OBVIOUS
  <2>1. p \in Above(PathOf(t, x)) /\ x \in DOMAIN t
    BY <1>3
  <2>2. PathOf(t, x) \in Seq(S)
    BY <2>1, PathsAreSequences
  <2>3. Len(p) < Len(PathOf(t, x)) /\ Len(p) \in Nat
    BY <2>1, <2>2, AboveFacts
  <2>4. Len(PathOf(t, x)) = 0
    BY <2>2, EmptySeq
  <2> QED
    BY <2>3, <2>4
<1>5. e \in there /\ Closed(t, there)
  <2> SUFFICES ASSUME NEW c \in DOMAIN t, t[c].parent \in there PROVE c \in there
    BY DEF Closed
  <2>1. c # Root
    BY TreeFacts, EntryIdsAreFinite
  <2>2. PathOf(t, t[c].parent) # << >> /\ (PathOf(t, t[c].parent) = p \/ p \in Above(PathOf(t, t[c].parent)))
    BY <1>4
  <2> QED
    BY <1>2, <2>1, <2>2
<1>6. DownFrom(t, {e}) \subseteq there
  <2> HIDE DEF there
  <2> QED
    BY <1>5, SubtreeFacts
<1>7. Root \in reached
  <2>1. Root \in DOMAIN t /\ PathOf(t, Root) = << >>
    BY TreeFacts, PathOfUnfolds
  <2>2. Root \notin there
    BY <1>4, <2>1
  <2> QED
    BY <2>1, <2>2
<1>8. ASSUME NEW x \in DOMAIN t \ {Root}, t[x].parent \in reached PROVE x \in reached
  <2> SUFFICES ASSUME x \in there PROVE x \in DownFrom(t, {e})
    OBVIOUS
  <2>1. CASE PathOf(t, x) = p
    <3>1. x = e
      BY <2>1, PathsAreDifferent
    <3> QED
      BY <3>1, SubtreeFacts
  <2>2. CASE p \in Above(PathOf(t, x))
    <3>1. t[x].parent \in DOMAIN t
      BY <1>1
    <3>2. PathOf(t, t[x].parent) = p \/ p \in Above(PathOf(t, t[x].parent))
      BY <1>2, <2>2
    <3>3. t[x].parent \in DownFrom(t, {e})
      BY <1>8, <3>1, <3>2
    <3> QED
      BY <3>3, SubtreeFacts DEF Closed
  <2> QED
    BY <2>1, <2>2
<1> HIDE DEF reached
<1>9. DOMAIN t \subseteq reached
  BY <1>7, <1>8, TreeInduction
<1> QED
  BY <1>6, <1>9 DEF reached

\* What a tree has at a path, as the Run would see it.
ContentAt(t, q) == IF HasPath(t, q) THEN t[EntryAt(t, q)].content ELSE Absent

\* A path of an entry has it; another has nothing.
LEMMA ContentOfEntry ==
    ASSUME NEW t, IsTree(t)
    PROVE  /\ \A e \in DOMAIN t : ContentAt(t, PathOf(t, e)) = t[e].content /\ t[e].content # Absent
           /\ \A q : ContentAt(t, q) # Absent =>
                \E e \in DOMAIN t : PathOf(t, e) = q /\ EntryAt(t, q) = e /\ HasPath(t, q)
<1>1. ASSUME NEW e \in DOMAIN t
      PROVE  ContentAt(t, PathOf(t, e)) = t[e].content /\ t[e].content # Absent
  <2>1. EntryAt(t, PathOf(t, e)) = e /\ HasPath(t, PathOf(t, e))
    BY EntryAtPath
  <2>2. t[e].content \in Contents \cup {None}
    BY TreeFacts
  <2> QED
    BY <2>1, <2>2, AbsentAssumption DEF ContentAt
<1>2. ASSUME NEW q, ContentAt(t, q) # Absent
      PROVE  \E e \in DOMAIN t : PathOf(t, e) = q /\ EntryAt(t, q) = e /\ HasPath(t, q)
  <2>1. HasPath(t, q)
    BY <1>2 DEF ContentAt
  <2> QED
    BY <2>1, EntryAtPath
<1> QED
  BY <1>1, <1>2

\* Trees with entries at the same paths have the same there.
LEMMA SameContentAt ==
    ASSUME NEW t, IsTree(t), NEW u, IsTree(u), NEW q,
           \A e \in DOMAIN t : PathOf(t, e) = q =>
              \E d \in DOMAIN u : PathOf(u, d) = q /\ u[d].content = t[e].content,
           \A d \in DOMAIN u : PathOf(u, d) = q => \E e \in DOMAIN t : PathOf(t, e) = q
    PROVE  ContentAt(u, q) = ContentAt(t, q)
<1>1. CASE ContentAt(t, q) # Absent
  <2>1. PICK e \in DOMAIN t : PathOf(t, e) = q
    BY <1>1, ContentOfEntry
  <2>2. ContentAt(t, q) = t[e].content
    BY <2>1, ContentOfEntry
  <2>3. PICK d \in DOMAIN u : PathOf(u, d) = q /\ u[d].content = t[e].content
    BY <2>1
  <2>4. ContentAt(u, q) = u[d].content
    BY <2>3, ContentOfEntry
  <2> QED
    BY <2>2, <2>3, <2>4
<1>2. CASE ContentAt(t, q) = Absent
  <2> SUFFICES ASSUME ContentAt(u, q) # Absent PROVE FALSE
    BY <1>2
  <2>1. PICK d \in DOMAIN u : PathOf(u, d) = q
    BY ContentOfEntry
  <2>2. PICK e \in DOMAIN t : PathOf(t, e) = q
    BY <2>1
  <2> QED
    BY <1>2, <2>2, ContentOfEntry
<1> QED
  BY <1>1, <1>2

\* Every path above an entry is that of a directory.
LEMMA AboveAreDirectories ==
    ASSUME NEW t, IsTree(t), NEW d \in DOMAIN t, NEW p \in Above(PathOf(t, d))
    PROVE  \E e \in DOMAIN t \ {Root} : PathOf(t, e) = p /\ t[e].content = None
<1> DEFINE S == Names \cup {None}
           found == {x \in DOMAIN t : \A q \in Above(PathOf(t, x)) :
                       \E e \in DOMAIN t \ {Root} : PathOf(t, e) = q /\ t[e].content = None}
<1>1. Root \in found
  <2>1. Root \in DOMAIN t /\ PathOf(t, Root) = << >> /\ << >> \in Seq(S)
    BY TreeFacts, PathOfUnfolds, EmptySeq
  <2>2. \A q \in Above(<< >>) : FALSE
    <3> SUFFICES ASSUME NEW q \in Above(<< >>) PROVE FALSE
      OBVIOUS
    <3>1. Len(q) \in Nat /\ Len(q) < Len(<< >>)
      BY <2>1, AboveFacts
    <3> QED
      BY <3>1
  <2> QED
    BY <2>1, <2>2
<1>2. ASSUME NEW x \in DOMAIN t \ {Root}, t[x].parent \in found PROVE x \in found
  <2> DEFINE y == t[x].parent
             r == PathOf(t, y)
             n == t[x].name
  <2>1. /\ y \in DOMAIN t /\ t[y].content = None /\ n \in S /\ r \in Seq(S)
        /\ PathOf(t, x) = Append(r, n)
    BY TreeFacts, PathsAreSequences, PathOfUnfolds
  <2>2. y = Root => r = << >>
    BY PathOfUnfolds
  <2>3. \A q \in Above(r) : \E e \in DOMAIN t \ {Root} : PathOf(t, e) = q /\ t[e].content = None
    BY <1>2
  <2>4. r = PathOf(t, y)
    OBVIOUS
  <2> HIDE DEF S, r, n, y
  <2>5. Above(Append(r, n)) = IF r = << >> THEN {} ELSE Above(r) \cup {r}
    BY <2>1, AboveUnfolds
  <2>6. ASSUME NEW q \in Above(PathOf(t, x))
        PROVE  \E e \in DOMAIN t \ {Root} : PathOf(t, e) = q /\ t[e].content = None
    <3>1. r # << >> /\ (q \in Above(r) \/ q = r)
      BY <2>1, <2>5, <2>6
    <3>2. CASE q = r
      BY <2>1, <2>2, <2>4, <3>1, <3>2
    <3> QED
      BY <2>3, <3>1, <3>2
  <2> QED
    BY <2>6
<1> HIDE DEF found
<1>3. DOMAIN t \subseteq found
  BY <1>1, <1>2, TreeInduction
<1> QED
  BY <1>3 DEF found

\* What goes with a path.
LEMMA GoneIsBelow ==
    ASSUME NEW t, IsTree(t), NEW p, IsEntryPath(p), NEW d \in DOMAIN t
    PROVE  d \in GoneWith(t, p) <=> PathOf(t, d) = p \/ p \in Above(PathOf(t, d))
<1>1. CASE HasPath(t, p)
  <2> DEFINE e == EntryAt(t, p)
  <2>1. e \in DOMAIN t /\ PathOf(t, e) = p
    BY <1>1, EntryAtPath
  <2>2. e # Root
    BY <2>1, PathOfUnfolds DEF IsEntryPath
  <2>3. GoneWith(t, p) = DownFrom(t, {e})
    BY <1>1 DEF GoneWith
  <2> HIDE DEF e
  <2>4. d \in DownFrom(t, {e}) <=> PathOf(t, d) = p \/ p \in Above(PathOf(t, d))
    BY <2>1, <2>2, BelowAPath
  <2> QED
    BY <2>3, <2>4
<1>2. CASE ~HasPath(t, p)
  <2>1. GoneWith(t, p) = {}
    BY <1>2 DEF GoneWith
  <2>2. \A e \in DOMAIN t : PathOf(t, e) # p
    BY <1>2, EntryAtPath
  <2>3. p \notin Above(PathOf(t, d))
    BY <2>2, AboveAreDirectories
  <2> QED
    BY <2>1, <2>2, <2>3
<1> QED
  BY <1>1, <1>2

\* A path goes: it has nothing, nor what is below it.
LEMMA ContentWithout ==
    ASSUME NEW t, IsTree(t), NEW p, IsEntryPath(p), NEW u, u = Without(t, p), NEW q
    PROVE  /\ q = p \/ p \in Above(q) => ContentAt(u, q) = Absent
           /\ q # p /\ p \notin Above(q) => ContentAt(u, q) = ContentAt(t, q)
<1>1. /\ IsTree(u) /\ DOMAIN u = DOMAIN t \ GoneWith(t, p)
      /\ \A e \in DOMAIN u : u[e] = t[e] /\ PathOf(u, e) = PathOf(t, e)
  BY WithoutAPath
<1>2. \A d \in DOMAIN t : d \in GoneWith(t, p) <=> PathOf(t, d) = p \/ p \in Above(PathOf(t, d))
  BY GoneIsBelow
<1>3. ASSUME q = p \/ p \in Above(q), ContentAt(u, q) # Absent PROVE FALSE
  <2>1. PICK d \in DOMAIN u : PathOf(u, d) = q
    BY <1>1, <1>3, ContentOfEntry
  <2> QED
    BY <1>1, <1>2, <1>3, <2>1
<1>4. ASSUME q # p, p \notin Above(q) PROVE ContentAt(u, q) = ContentAt(t, q)
  <2>1. \A e \in DOMAIN t : PathOf(t, e) = q =>
           \E d \in DOMAIN u : PathOf(u, d) = q /\ u[d].content = t[e].content
    BY <1>1, <1>2, <1>4
  <2>2. \A d \in DOMAIN u : PathOf(u, d) = q => \E e \in DOMAIN t : PathOf(t, e) = q
    BY <1>1
  <2> QED
    BY <1>1, <2>1, <2>2, SameContentAt
<1> QED
  BY <1>3, <1>4

\* A new entry at a path: there is its content, and nothing below it.
LEMMA ContentReplaced ==
    ASSUME NEW t, IsTree(t), NEW p, IsEntryPath(p), NEW e, NEW c, NEW u, Replaced(t, p, e, c, u), NEW q
    PROVE  /\ ContentAt(u, p) = c
           /\ p \in Above(q) => ContentAt(u, q) = Absent
           /\ q # p /\ p \notin Above(q) => ContentAt(u, q) = ContentAt(t, q)
<1>1. /\ IsTree(u) /\ DOMAIN u = (DOMAIN t \ GoneWith(t, p)) \cup {e}
      /\ \A d \in DOMAIN t \ GoneWith(t, p) : u[d] = t[d] /\ PathOf(u, d) = PathOf(t, d)
      /\ PathOf(u, e) = p /\ u[e].content = c
  BY DEF Replaced
<1>2. \A d \in DOMAIN t : d \in GoneWith(t, p) <=> PathOf(t, d) = p \/ p \in Above(PathOf(t, d))
  BY GoneIsBelow
<1>3. ContentAt(u, p) = c
  <2>1. e \in DOMAIN u
    BY <1>1
  <2>2. ContentAt(u, PathOf(u, e)) = u[e].content
    BY <1>1, <2>1, ContentOfEntry
  <2> QED
    BY <1>1, <2>2
<1>4. ASSUME p \in Above(q), ContentAt(u, q) # Absent PROVE FALSE
  <2>1. PICK d \in DOMAIN u : PathOf(u, d) = q
    BY <1>1, <1>4, ContentOfEntry
  <2>2. d # e
    <3> SUFFICES ASSUME p \in Above(p) PROVE FALSE
      BY <1>1, <1>4, <2>1
    <3> QED
      BY NotAboveItself DEF IsEntryPath
  <2> QED
    BY <1>1, <1>2, <1>4, <2>1, <2>2
<1>5. ASSUME q # p, p \notin Above(q) PROVE ContentAt(u, q) = ContentAt(t, q)
  <2>1. \A x \in DOMAIN t : PathOf(t, x) = q =>
           \E d \in DOMAIN u : PathOf(u, d) = q /\ u[d].content = t[x].content
    BY <1>1, <1>2, <1>5
  <2>2. \A d \in DOMAIN u : PathOf(u, d) = q => \E x \in DOMAIN t : PathOf(t, x) = q
    BY <1>1, <1>5
  <2> QED
    BY <1>1, <2>1, <2>2, SameContentAt
<1> QED
  BY <1>3, <1>4, <1>5

\* A file gets another content.
LEMMA ContentChanged ==
    ASSUME NEW t, IsTree(t), NEW p, HasPath(t, p), NEW c \in Contents,
           NEW e, e = EntryAt(t, p), IsFile(t, e),
           NEW u, u = Effect(t, SetContent(e, t[e].content, c)), NEW q
    PROVE  /\ ContentAt(u, p) = c
           /\ q # p => ContentAt(u, q) = ContentAt(t, q)
<1> DEFINE op == SetContent(e, t[e].content, c)
<1>1. e \in DOMAIN t /\ PathOf(t, e) = p /\ e \in EntryIds
  BY EntryAtPath, TreeFacts
<1>2. IsSetContent(op) /\ op.id = e /\ op.content = c
  BY <1>1 DEF IsSetContent, SetContent
<1>3. Allowed(t, op)
  BY DEF Allowed, SetContent, IsFile
<1>4. Effect(t, op) = u
  OBVIOUS
<1> HIDE DEF op
<1>5. /\ IsTree(u) /\ DOMAIN u = DOMAIN t
      /\ \A d \in DOMAIN t : u[d].parent = t[d].parent /\ u[d].name = t[d].name
      /\ \A d \in DOMAIN t \ {e} : u[d] = t[d]
      /\ u[e].content = c
  BY <1>2, <1>3, <1>4, SetContentKeepsTree
<1>6. \A d \in DOMAIN t : PathOf(u, d) = PathOf(t, d)
  <2> DEFINE E == DOMAIN t
  <2>1. E \in SUBSET DOMAIN t /\ \A d \in E \ {Root} : t[d].parent \in E
    BY TreeFacts
  <2>2. \A d \in E : d \in DOMAIN u /\ u[d].parent = t[d].parent /\ u[d].name = t[d].name
    BY <1>5
  <2>3. E = DOMAIN t
    OBVIOUS
  <2> HIDE DEF E
  <2>4. \A d \in E : PathOf(u, d) = PathOf(t, d)
    BY <1>5, <2>1, <2>2, PathsStay
  <2> QED
    BY <2>3, <2>4
<1>7. ContentAt(u, p) = c
  <2>1. ContentAt(u, PathOf(u, e)) = u[e].content
    BY <1>1, <1>5, ContentOfEntry
  <2> QED
    BY <1>1, <1>5, <1>6, <2>1
<1>8. ASSUME q # p PROVE ContentAt(u, q) = ContentAt(t, q)
  <2>1. \A x \in DOMAIN t : PathOf(t, x) = q =>
           \E d \in DOMAIN u : PathOf(u, d) = q /\ u[d].content = t[x].content
    BY <1>1, <1>5, <1>6, <1>8
  <2>2. \A d \in DOMAIN u : PathOf(u, d) = q => \E x \in DOMAIN t : PathOf(t, x) = q
    BY <1>5, <1>6
  <2> QED
    BY <1>5, <2>1, <2>2, SameContentAt
<1> QED
  BY <1>7, <1>8

-----------------------------------------------------------------------------
(* Commit: the target is what the Run saw.                                 *)

\* What shows through an Upper, of which some paths count, and what is seen.
Through(U, P, q) ==
    /\ HasPath(base, q)
    /\ \A r \in Above(q) \cap P : U[r].kind = "directory" /\ ~U[r].opaque
Own(node) == IF node.kind = "whiteout" THEN Absent ELSE node.content
SeenOver(U, P, q) ==
    IF q \in P THEN Own(U[q])
    ELSE IF Through(U, P, q) THEN base[EntryAt(base, q)].content ELSE Absent

\* An Upper that overlayfs leaves behind: directories above all that is in it,
\* and whiteouts only over what would show.
Overlays(U) ==
    /\ DOMAIN U \subseteq UpperPaths \cap AllPaths
    /\ \A p \in DOMAIN U :
          /\ GoodNode(U[p])
          /\ \A q \in Above(p) : q \in DOMAIN U /\ U[q].kind = "directory"
          /\ U[p].kind = "whiteout" => Through(U, DOMAIN U, p)

\* A tree has at every path what the base shows through these paths.
ShowsAs(t, P) == \A q : ContentAt(t, q) = SeenOver(scan, P, q)

\* A path none of these is below.
NewPath(P, p) == IsEntryPath(p) /\ p \notin P /\ \A r \in P : p \notin Above(r)

\* One more path hides what is below it, unless it is a directory that is not
\* opaque, ...
LEMMA SeenBelowOneMore ==
    ASSUME NEW P, NEW p, NewPath(P, p), NEW q, p \in Above(q),
           ~(scan[p].kind = "directory" /\ ~scan[p].opaque)
    PROVE  SeenOver(scan, P \cup {p}, q) = Absent
<1>1. IsEntryPath(p) /\ p \notin P /\ (\A r \in P : p \notin Above(r)) /\ p \notin Above(p)
  BY NotAboveItself DEF NewPath, IsEntryPath
<1>2. q \notin P \cup {p}
  BY <1>1
<1>3. ~Through(scan, P \cup {p}, q)
  BY DEF Through
<1> QED
  BY <1>2, <1>3 DEF SeenOver

\* ... and nothing else.
LEMMA SeenBesideOneMore ==
    ASSUME NEW P, NEW p, NEW q, q # p,
           p \in Above(q) => scan[p].kind = "directory" /\ ~scan[p].opaque
    PROVE  SeenOver(scan, P \cup {p}, q) = SeenOver(scan, P, q)
<1>1. q \in P \cup {p} <=> q \in P
  OBVIOUS
<1>2. Through(scan, P \cup {p}, q) <=> Through(scan, P, q)
  BY DEF Through
<1> QED
  BY <1>1, <1>2 DEF SeenOver

\* Since the bytes are those of the scan, what is projected is what was scanned.
LEMMA ResolvedIsScanned ==
    ASSUME Overlays(scan), MaterializedAsScanned, NEW p \in DOMAIN scan
    PROVE  Resolved(p) = scan[p]
<1>1. scan[p] \in Node
  BY DEF Overlays, GoodNode
<1>2. CASE p \in DOMAIN taken
  <2>1. Resolved(p) = [scan[p] EXCEPT !.content = scan[p].content]
    BY <1>2 DEF Resolved, MaterializedAsScanned
  <2> QED
    BY <1>1, <2>1 DEF Node
<1> QED
  BY <1>2 DEF Resolved

\* The directory of a path that is projected is there.
LEMMA FrontIsThere ==
    ASSUME IsTree(base), Overlays(scan), NEW t, IsTree(t), NEW P, P \subseteq DOMAIN scan, ShowsAs(t, P),
           NEW p \in DOMAIN scan, IsEntryPath(p), Above(p) \subseteq P
    PROVE  EntryAt(t, Front(p)) # None /\ IsDirectory(t, EntryAt(t, Front(p)))
<1> DEFINE q == Front(p)
<1>1. p = Append(q, Last(p)) /\ q \in Seq(Names) /\ Last(p) \in Names
  BY FrontAndLast DEF IsEntryPath
<1> HIDE DEF q
<1>2. CASE q = << >>
  <2>1. Root \in DOMAIN t /\ PathOf(t, Root) = q /\ t[Root].content = None
    BY <1>2, TreeFacts, PathOfUnfolds
  <2>2. EntryAt(t, q) = Root /\ HasPath(t, q)
    BY <2>1, EntryAtPath
  <2>3. IsDirectory(t, EntryAt(t, q)) /\ EntryAt(t, q) # None
    BY <2>1, <2>2 DEF IsDirectory, HasPath
  <2> QED
    BY <2>3 DEF q
<1>3. CASE q # << >>
  <2>1. q \in Above(p)
    <3>1. q \in Above(Append(q, Last(p)))
      BY <1>1, <1>3, AboveOfAppend
    <3> QED
      BY <1>1, <3>1
  <2>2. q \in P /\ q \in DOMAIN scan
    BY <2>1
  <2>3. scan[q].kind = "directory"
    BY <2>1 DEF Overlays
  <2>4. ContentAt(t, q) = Own(scan[q])
    BY <2>2 DEF ShowsAs, SeenOver
  <2>5. GoodNode(scan[q])
    BY <2>2 DEF Overlays
  <2>6. ContentAt(t, q) = None
    BY <2>3, <2>4, <2>5 DEF Own, GoodNode
  <2>7. EntryAt(t, q) \in DOMAIN t /\ HasPath(t, q)
    BY <2>6, AbsentAssumption, ContentOfEntry
  <2>8. t[EntryAt(t, q)].content = None
    BY <2>6, <2>7 DEF ContentAt
  <2> QED
    BY <2>7, <2>8 DEF IsDirectory, HasPath, q
<1> QED
  BY <1>2, <1>3

\* A new entry at one more path: the tree shows that path too, when the new node
\* hides what the base has below it or there is nothing below it.
LEMMA ShownByReplacing ==
    ASSUME NEW t, IsTree(t), NEW P, ShowsAs(t, P), NEW p, NewPath(P, p),
           NEW e, NEW u, Replaced(t, p, e, Own(scan[p]), u),
           \/ ~(scan[p].kind = "directory" /\ ~scan[p].opaque)
           \/ ~(HasPath(t, p) /\ IsDirectory(t, EntryAt(t, p)))
    PROVE  ShowsAs(u, P \cup {p})
<1> SUFFICES ASSUME NEW q PROVE ContentAt(u, q) = SeenOver(scan, P \cup {p}, q)
  BY DEF ShowsAs
<1>1. IsEntryPath(p) /\ p \notin P /\ (\A r \in P : p \notin Above(r)) /\ p \notin Above(p)
  BY NotAboveItself DEF NewPath, IsEntryPath
<1>2. /\ ContentAt(u, p) = Own(scan[p])
      /\ p \in Above(q) => ContentAt(u, q) = Absent
      /\ q # p /\ p \notin Above(q) => ContentAt(u, q) = ContentAt(t, q)
  BY <1>1, ContentReplaced
<1>3. ContentAt(t, q) = SeenOver(scan, P, q)
  BY DEF ShowsAs
<1>4. CASE p \in Above(q) /\ scan[p].kind = "directory" /\ ~scan[p].opaque
  <2>1. SeenOver(scan, P \cup {p}, q) = SeenOver(scan, P, q)
    BY <1>1, <1>4, SeenBesideOneMore
  <2>2. ASSUME ContentAt(t, q) # Absent PROVE FALSE
    <3>1. PICK d \in DOMAIN t : PathOf(t, d) = q
      BY <2>2, ContentOfEntry
    <3>2. PICK x \in DOMAIN t \ {Root} : PathOf(t, x) = p /\ t[x].content = None
      BY <1>4, <3>1, AboveAreDirectories
    <3>3. EntryAt(t, p) = x /\ HasPath(t, p)
      BY <3>2, EntryAtPath
    <3> QED
      BY <1>4, <3>2, <3>3 DEF IsDirectory
  <2> QED
    BY <1>2, <1>3, <1>4, <2>1, <2>2
<1>5. CASE p \in Above(q) /\ ~(scan[p].kind = "directory" /\ ~scan[p].opaque)
  <2>1. SeenOver(scan, P \cup {p}, q) = Absent
    BY <1>5, SeenBelowOneMore
  <2> QED
    BY <1>2, <1>5, <2>1
<1>6. CASE p \notin Above(q) /\ q # p
  <2>1. SeenOver(scan, P \cup {p}, q) = SeenOver(scan, P, q)
    BY <1>1, <1>6, SeenBesideOneMore
  <2> QED
    BY <1>2, <1>3, <1>6, <2>1
<1>7. CASE q = p
  <2>1. SeenOver(scan, P \cup {p}, p) = Own(scan[p])
    BY DEF SeenOver
  <2> QED
    BY <1>2, <1>7, <2>1
<1> QED
  BY <1>4, <1>5, <1>6, <1>7

\* Another content of the file at one more path.
LEMMA ShownByChanging ==
    ASSUME NEW t, IsTree(t), NEW P, ShowsAs(t, P), NEW p, NewPath(P, p), HasPath(t, p),
           NEW e, e = EntryAt(t, p), IsFile(t, e),
           scan[p].kind = "file", scan[p].content \in Contents,
           NEW u, u = Effect(t, SetContent(e, t[e].content, scan[p].content))
    PROVE  ShowsAs(u, P \cup {p})
<1> SUFFICES ASSUME NEW q PROVE ContentAt(u, q) = SeenOver(scan, P \cup {p}, q)
  BY DEF ShowsAs
<1>1. IsEntryPath(p) /\ p \notin P /\ (\A r \in P : p \notin Above(r)) /\ p \notin Above(p)
  BY NotAboveItself DEF NewPath, IsEntryPath
<1> DEFINE c == scan[p].content
<1>2. ContentAt(u, p) = c /\ (q # p => ContentAt(u, q) = ContentAt(t, q))
  <2>1. c \in Contents /\ u = Effect(t, SetContent(e, t[e].content, c))
    OBVIOUS
  <2> HIDE DEF c
  <2> QED
    BY <2>1, ContentChanged
<1>3. ContentAt(t, q) = SeenOver(scan, P, q)
  BY DEF ShowsAs
<1>4. CASE p \in Above(q)
  <2>1. SeenOver(scan, P \cup {p}, q) = Absent
    BY <1>4, SeenBelowOneMore
  <2>2. ASSUME ContentAt(t, q) # Absent PROVE FALSE
    <3>1. PICK d \in DOMAIN t : PathOf(t, d) = q
      BY <2>2, ContentOfEntry
    <3>2. PICK x \in DOMAIN t \ {Root} : PathOf(t, x) = p /\ t[x].content = None
      BY <1>4, <3>1, AboveAreDirectories
    <3>3. EntryAt(t, p) = x
      BY <3>2, EntryAtPath
    <3> QED
      BY <3>2, <3>3 DEF IsFile
  <2>3. q # p
    BY <1>1, <1>4
  <2> QED
    BY <1>2, <2>1, <2>2, <2>3
<1>5. CASE p \notin Above(q) /\ q # p
  <2>1. SeenOver(scan, P \cup {p}, q) = SeenOver(scan, P, q)
    BY <1>1, <1>5, SeenBesideOneMore
  <2> QED
    BY <1>2, <1>3, <1>5, <2>1
<1>6. CASE q = p
  <2>1. SeenOver(scan, P \cup {p}, p) = Own(scan[p])
    BY DEF SeenOver
  <2> QED
    BY <1>2, <1>6, <2>1 DEF Own
<1> QED
  BY <1>4, <1>5, <1>6

\* Nothing any more at one more path.
LEMMA ShownByRemoving ==
    ASSUME NEW t, IsTree(t), NEW P, ShowsAs(t, P), NEW p, NewPath(P, p),
           scan[p].kind = "whiteout", NEW u, u = Without(t, p)
    PROVE  ShowsAs(u, P \cup {p})
<1> SUFFICES ASSUME NEW q PROVE ContentAt(u, q) = SeenOver(scan, P \cup {p}, q)
  BY DEF ShowsAs
<1>1. IsEntryPath(p) /\ p \notin P /\ (\A r \in P : p \notin Above(r)) /\ p \notin Above(p)
  BY NotAboveItself DEF NewPath, IsEntryPath
<1>2. /\ q = p \/ p \in Above(q) => ContentAt(u, q) = Absent
      /\ q # p /\ p \notin Above(q) => ContentAt(u, q) = ContentAt(t, q)
  BY <1>1, ContentWithout
<1>3. ContentAt(t, q) = SeenOver(scan, P, q)
  BY DEF ShowsAs
<1>4. CASE p \in Above(q)
  <2>1. SeenOver(scan, P \cup {p}, q) = Absent
    BY <1>4, SeenBelowOneMore
  <2> QED
    BY <1>2, <1>4, <2>1
<1>5. CASE p \notin Above(q) /\ q # p
  <2>1. SeenOver(scan, P \cup {p}, q) = SeenOver(scan, P, q)
    BY <1>1, <1>5, SeenBesideOneMore
  <2> QED
    BY <1>2, <1>3, <1>5, <2>1
<1>6. CASE q = p
  <2>1. SeenOver(scan, P \cup {p}, p) = Own(scan[p])
    BY DEF SeenOver
  <2> QED
    BY <1>2, <1>6, <2>1 DEF Own
<1> QED
  BY <1>4, <1>5, <1>6

\* A directory that stays at one more path.
LEMMA ShownByStaying ==
    ASSUME NEW t, IsTree(t), NEW P, ShowsAs(t, P), NEW p, NewPath(P, p), HasPath(t, p),
           IsDirectory(t, EntryAt(t, p)), GoodNode(scan[p]),
           scan[p].kind = "directory", ~scan[p].opaque
    PROVE  ShowsAs(t, P \cup {p})
<1> SUFFICES ASSUME NEW q PROVE ContentAt(t, q) = SeenOver(scan, P \cup {p}, q)
  BY DEF ShowsAs
<1>1. IsEntryPath(p) /\ p \notin P /\ (\A r \in P : p \notin Above(r)) /\ p \notin Above(p)
  BY NotAboveItself DEF NewPath, IsEntryPath
<1>2. ContentAt(t, q) = SeenOver(scan, P, q)
  BY DEF ShowsAs
<1>3. CASE q # p
  <2>1. SeenOver(scan, P \cup {p}, q) = SeenOver(scan, P, q)
    BY <1>1, <1>3, SeenBesideOneMore
  <2> QED
    BY <1>2, <2>1
<1>4. CASE q = p
  <2>1. SeenOver(scan, P \cup {p}, p) = Own(scan[p])
    BY DEF SeenOver
  <2>2. Own(scan[p]) = None
    BY DEF Own, GoodNode
  <2>3. ContentAt(t, p) = None
    BY DEF ContentAt, IsDirectory
  <2> QED
    BY <1>4, <2>1, <2>2, <2>3
<1> QED
  BY <1>3, <1>4

\* One path more is projected: it is not refused, and the tree shows it too.
LEMMA ProjectShows ==
    ASSUME IsTree(base), Overlays(scan), MaterializedAsScanned,
           NEW acc, NEW n \in Nat, ProjectedSoFar(acc, n + 1), acc.tree # Refused,
           NEW P, P \subseteq DOMAIN scan, ShowsAs(acc.tree, P),
           NEW p \in DOMAIN scan, NewPath(P, p), Above(p) \subseteq P,
           NEW next, next = Project(acc, <<p, Resolved(p)>>)
    PROVE  next.tree # Refused /\ ShowsAs(next.tree, P \cup {p})
<1> DEFINE t == acc.tree
           d == EntryAt(t, Front(p))
           e == EntryAt(t, p)
           node == scan[p]
<1>1. /\ IsProjection(acc) /\ IsTree(t) /\ DOMAIN t \subseteq acc.used
      /\ RoomFor(acc.used, 1)
  <2>1. ProjectedWell(t, acc.used, acc.touched) /\ RoomFor(acc.used, n + 1) /\ IsProjection(acc)
    BY DEF ProjectedSoFar
  <2>2. RoomFor(acc.used, 1)
    BY <2>1, RoomForOneLess
  <2> QED
    BY <2>1, <2>2 DEF ProjectedWell
<1>2. IsEntryPath(p) /\ GoodNode(node)
  BY DEF NewPath, Overlays
<1>3. d # None /\ IsDirectory(t, d)
  BY <1>1, <1>2, FrontIsThere
<1>4. next = Project(acc, <<p, node>>)
  BY ResolvedIsScanned
<1>5. \A u : IsTree(u) => u # Refused
  BY RefusedAssumption DEF IsTree
<1> SUFFICES /\ IsTree(next.tree) /\ ShowsAs(next.tree, P \cup {p})
  BY <1>5
<1>6. ASSUME NEW c, c = Own(node), c \in Contents \cup {None},
             next = NewEntry(acc, Without(t, p), p, c),
             ~(node.kind = "directory" /\ ~node.opaque) \/ ~(HasPath(t, p) /\ IsDirectory(t, e))
      PROVE  IsTree(next.tree) /\ ShowsAs(next.tree, P \cup {p})
  <2>1. PICK x \in EntryIds \ acc.used : \E u :
           /\ NewEntry(acc, Without(t, p), p, c)
                = [tree |-> u, used |-> acc.used \cup {x}, touched |-> acc.touched]
           /\ Replaced(t, p, x, c, u)
    BY <1>1, <1>2, <1>3, <1>6, NewEntryReplaces
  <2>2. Replaced(t, p, x, Own(scan[p]), next.tree)
    BY <1>6, <2>1
  <2>3. ShowsAs(next.tree, P \cup {p})
    BY <1>1, <1>6, <2>2, ShownByReplacing
  <2> QED
    BY <2>2, <2>3 DEF Replaced
<1>7. CASE node.kind = "file"
  <2>1. next = ProjectFile(acc, p, node)
    BY <1>3, <1>4, <1>7 DEF Project
  <2>2. node.content \in Contents /\ Own(node) = node.content
    BY <1>2, <1>7 DEF GoodNode, Own
  <2>3. CASE e # None /\ IsFile(t, e)
    <3> DEFINE marked == IF node.touched THEN acc.touched \cup {e} ELSE acc.touched
               u == Effect(t, SetContent(e, t[e].content, node.content))
    <3>1. next = [acc EXCEPT !.tree[e].content = node.content, !.touched = marked]
      BY <2>1, <2>3 DEF ProjectFile
    <3>2. u = [t EXCEPT ![e].content = node.content]
      BY DEF Effect, SetContent
    <3>3. next.tree = u
      <4> HIDE DEF marked, e
      <4>1. IsProjection(acc)
        BY <1>1
      <4>2. \A c : [acc EXCEPT !.tree[e].content = c, !.touched = marked]
                     = [tree |-> [acc.tree EXCEPT ![e].content = c],
                        used |-> acc.used, touched |-> marked]
        BY <4>1, ProjectionWithContent
      <4> QED
        BY <3>1, <3>2, <4>2
    <3>4. HasPath(t, p)
      BY <2>3 DEF HasPath
    <3>5. IsTree(u)
      <4>1. e \in DOMAIN t /\ e \in EntryIds
        BY <1>1, <2>3, TreeFacts DEF IsFile
      <4> DEFINE op == SetContent(e, t[e].content, node.content)
      <4>2. IsSetContent(op)
        BY <2>2, <4>1 DEF IsSetContent, SetContent
      <4>3. Allowed(t, op)
        BY <2>3 DEF Allowed, SetContent, IsFile
      <4>4. u = Effect(t, op)
        OBVIOUS
      <4> HIDE DEF op, u
      <4> QED
        BY <1>1, <4>2, <4>3, <4>4, SetContentKeepsTree
    <3>6. ShowsAs(u, P \cup {p})
      <4>1. u = Effect(t, SetContent(e, t[e].content, scan[p].content))
        OBVIOUS
      <4> HIDE DEF u
      <4> QED
        BY <1>1, <1>7, <2>2, <2>3, <3>4, <4>1, ShownByChanging
    <3> QED
      BY <3>3, <3>5, <3>6
  <2>4. CASE ~(e # None /\ IsFile(t, e))
    <3>1. next = NewEntry(acc, Without(t, p), p, node.content)
      BY <2>1, <2>4 DEF ProjectFile
    <3> QED
      BY <1>6, <1>7, <2>2, <3>1
  <2> QED
    BY <2>3, <2>4
<1>8. CASE node.kind = "directory"
  <2>1. next = ProjectDirectory(acc, p, node)
    BY <1>3, <1>4, <1>8 DEF Project
  <2>2. Own(node) = None
    BY <1>2, <1>8 DEF GoodNode, Own
  <2>3. CASE e # None /\ IsDirectory(t, e) /\ ~node.opaque
    <3>1. next = acc
      BY <2>1, <2>3 DEF ProjectDirectory
    <3>2. HasPath(t, p)
      BY <2>3 DEF HasPath
    <3>3. ShowsAs(t, P \cup {p})
      BY <1>1, <1>2, <1>8, <2>3, <3>2, ShownByStaying
    <3> QED
      BY <1>1, <3>1, <3>3
  <2>4. CASE ~(e # None /\ IsDirectory(t, e) /\ ~node.opaque)
    <3>1. next = NewEntry(acc, Without(t, p), p, None)
      BY <2>1, <2>4 DEF ProjectDirectory
    <3>2. ~(node.kind = "directory" /\ ~node.opaque) \/ ~(HasPath(t, p) /\ IsDirectory(t, e))
      BY <2>4 DEF HasPath
    <3> QED
      BY <1>6, <2>2, <3>1, <3>2
  <2> QED
    BY <2>3, <2>4
<1>9. CASE node.kind = "whiteout"
  <2>1. next = ProjectWhiteout(acc, p)
    BY <1>3, <1>4, <1>9 DEF Project
  <2>2. HasPath(t, p)
    <3>1. Through(scan, DOMAIN scan, p)
      BY <1>9 DEF Overlays
    <3>2. Through(scan, P, p)
      BY <3>1 DEF Through
    <3>3. p \notin P
      BY DEF NewPath
    <3>4. SeenOver(scan, P, p) = base[EntryAt(base, p)].content
      BY <3>2, <3>3 DEF SeenOver
    <3>5. base[EntryAt(base, p)].content # Absent
      <4>1. EntryAt(base, p) \in DOMAIN base
        BY <3>2, EntryAtPath DEF Through
      <4> QED
        BY <4>1, ContentOfEntry
    <3>6. ContentAt(t, p) # Absent
      BY <3>4, <3>5 DEF ShowsAs
    <3> QED
      BY <3>6 DEF ContentAt
  <2>3. next = [acc EXCEPT !.tree = Without(@, p)]
    BY <2>1, <2>2 DEF ProjectWhiteout
  <2>4. next.tree = Without(t, p)
    BY <1>1, <2>3, ProjectionWithTree
  <2>5. IsTree(Without(t, p))
    BY <1>1, <1>2, WithoutAPath
  <2>6. ShowsAs(Without(t, p), P \cup {p})
    BY <1>1, <1>9, ShownByRemoving
  <2> QED
    BY <2>4, <2>5, <2>6
<1> QED
  BY <1>2, <1>7, <1>8, <1>9 DEF GoodNode, Node

\* The paths of the scan in their order: shorter ones come first.
ListsPaths(paths, list, size) ==
    /\ size \in Nat
    /\ \A i \in 1..size : list[i] \in paths
    /\ \A p \in paths : \E i \in 1..size : list[i] = p
    /\ \A i, j \in 1..size : list[i] = list[j] => i = j
    /\ \A i, j \in 1..size : Len(list[i]) < Len(list[j]) => i < j

\* The paths of the scan are listed in their order.
LEMMA SortedLists ==
    ASSUME NEW paths, paths \subseteq UpperPaths, NEW list, list = Sorted(paths),
           NEW size, size = Cardinality(paths)
    PROVE  ListsPaths(paths, list, size)
<1>1. IsFiniteSet(paths)
  BY IdsSuffice, FS_Subset
<1>2. \A p \in paths : Len(p) \in Nat
  BY UpperPathsArePaths
<1>3. IsOrder(paths, ParentsFirst(paths))
  BY <1>1, <1>2, ParentsFirstIsAnOrder
<1>4. /\ size \in Nat
      /\ \A i \in 1..size : list[i] \in paths
      /\ \A p \in paths : \E i \in 1..size : list[i] = p
      /\ \A i, j \in 1..size : list[i] = list[j] => i = j
      /\ \A i, j \in 1..size : i < j => <<list[i], list[j]>> \in ParentsFirst(paths)
  BY <1>1, <1>3, InOrderLists DEF Sorted
<1>5. \A p, q \in paths : <<p, q>> \in ParentsFirst(paths) => Len(p) <= Len(q)
  <2> SUFFICES ASSUME NEW p \in paths, NEW q \in paths, <<p, q>> \in ParentsFirst(paths)
               PROVE  Len(p) <= Len(q)
    OBVIOUS
  <2>1. Len(p) < Len(q) \/ Len(p) = Len(q)
    BY DEF ParentsFirst
  <2> QED
    BY <1>2, <2>1
<1>6. ASSUME NEW i \in 1..size, NEW j \in 1..size, Len(list[i]) < Len(list[j]) PROVE i < j
  <2>1. Len(list[i]) \in Nat /\ Len(list[j]) \in Nat
    BY <1>2, <1>4
  <2>2. i # j
    BY <1>6, <2>1
  <2>3. ASSUME j < i PROVE FALSE
    <3>1. list[j] \in paths /\ list[i] \in paths /\ <<list[j], list[i]>> \in ParentsFirst(paths)
      BY <1>4, <2>3
    <3>2. Len(list[j]) <= Len(list[i])
      BY <1>5, <3>1
    <3> QED
      BY <1>6, <2>1, <3>2
  <2> QED
    BY <1>4, <2>2, <2>3
<1> QED
  BY <1>4, <1>6 DEF ListsPaths

\* The projection of every path: the target is a tree, has the entries that are
\* kept, and shows at every path what the Upper shows over the base.
LEMMA TargetShows ==
    ASSUME IsTree(base), base \in BaseTrees, Overlays(scan), MaterializedAsScanned, ScannedWell
    PROVE  ProjectedSoFar(Target, 0) /\ Target.tree # Refused /\ ShowsAs(Target.tree, DOMAIN scan)
<1> DEFINE paths == DOMAIN scan
           list == Sorted(paths)
           size == Cardinality(paths)
           all == Cardinality(UpperPaths)
           P(n) == {list[i] : i \in 1..n}
<1>1. IsFiniteSet(paths) /\ size \in Nat /\ all \in Nat /\ size <= all
  BY IdsSuffice, FS_Subset, FS_CardinalityType DEF ScannedWell
<1>2. \A p \in paths : Len(p) \in Nat /\ IsEntryPath(p)
  BY UpperPathsArePaths DEF ScannedWell, IsEntryPath
<1>3. /\ \A i \in 1..size : list[i] \in paths
      /\ \A p \in paths : \E i \in 1..size : list[i] = p
      /\ \A i, j \in 1..size : list[i] = list[j] => i = j
      /\ \A i, j \in 1..size : Len(list[i]) < Len(list[j]) => i < j
  <2>1. paths \subseteq UpperPaths
    BY DEF ScannedWell
  <2>2. list = Sorted(paths) /\ size = Cardinality(paths)
    OBVIOUS
  <2> HIDE DEF paths, list, size
  <2>3. ListsPaths(paths, list, size)
    BY <2>1, <2>2, SortedLists
  <2> QED
    BY <2>3 DEF ListsPaths
<1>4. \E after :
        /\ after[0] = [tree |-> base, used |-> DOMAIN base, touched |-> {}]
        /\ \A n \in 1..size :
              after[n] = Project(after[n - 1], <<Sorted(paths)[n], Resolved(Sorted(paths)[n])>>)
        /\ Target = after[size]
  BY <1>1, TargetUnfolds
<1>5. PICK after :
        /\ after[0] = [tree |-> base, used |-> DOMAIN base, touched |-> {}]
        /\ \A n \in 1..size : after[n] = Project(after[n - 1], <<list[n], Resolved(list[n])>>)
        /\ Target = after[size]
  BY <1>4
<1>6. RoomFor(DOMAIN base, size)
  <2>1. RoomFor(DOMAIN base, all)
    BY IdsSuffice
  <2> DEFINE free == Cardinality(EntryIds \ DOMAIN base)
  <2>2. free \in Nat /\ free >= all
    BY <2>1, EntryIdsAreFinite DEF RoomFor
  <2> HIDE DEF free, all, size
  <2>3. free >= size
    BY <1>1, <2>2
  <2> QED
    BY <2>3 DEF RoomFor, free
<1>7. \A p \in paths : \A q \in Above(p) : q \in paths /\ Len(q) < Len(p)
  <2> SUFFICES ASSUME NEW p \in paths, NEW q \in Above(p) PROVE q \in paths /\ Len(q) < Len(p)
    OBVIOUS
  <2>1. q \in paths
    BY DEF Overlays
  <2>2. p \in Seq(Names)
    BY <1>2 DEF IsEntryPath
  <2> QED
    BY <2>1, <2>2, AboveFacts
<1> HIDE DEF size, paths, list
<1> DEFINE Done(n) == /\ ProjectedSoFar(after[n], size - n)
                      /\ after[n].tree # Refused /\ ShowsAs(after[n].tree, P(n))
           S == {n \in Nat : n <= size => Done(n)}
<1>8. 0 \in S
  <2> DEFINE start == [tree |-> base, used |-> DOMAIN base, touched |-> {}]
  <2>1. IsProjection(start) /\ start.tree = base /\ start.used = DOMAIN base /\ start.touched = {}
    BY DEF IsProjection
  <2>2. KeptEntries \subseteq DOMAIN base
    BY KeptHangTogether
  <2>3. ProjectedWell(base, DOMAIN base, {})
    BY <2>2 DEF ProjectedWell, SameAsBase
  <2>4. base # Refused
    BY RefusedAssumption DEF IsTree
  <2>5. ShowsAs(base, P(0))
    <3>1. P(0) = {}
      OBVIOUS
    <3>2. \A q : ContentAt(base, q) = SeenOver(scan, {}, q)
      BY DEF ContentAt, SeenOver, Through
    <3> HIDE DEF P
    <3> QED
      BY <3>1, <3>2 DEF ShowsAs
  <2> HIDE DEF start, P
  <2>6. ProjectedSoFar(start, size)
    BY <1>6, <2>1, <2>3 DEF ProjectedSoFar
  <2>7. after[0] = start
    BY <1>5 DEF start
  <2>8. size - 0 = size
    BY <1>1
  <2> QED
    BY <2>1, <2>4, <2>5, <2>6, <2>7, <2>8
<1>9. ASSUME NEW n \in Nat, n \in S PROVE n + 1 \in S
  <2> SUFFICES ASSUME n + 1 <= size PROVE Done(n + 1)
    OBVIOUS
  <2> DEFINE m == size - (n + 1)
             p == list[n + 1]
  <2>1. m \in Nat /\ m + 1 = size - n /\ n <= size /\ n + 1 \in 1..size /\ (n + 1) - 1 = n
    BY <1>1
  <2>2. ProjectedSoFar(after[n], m + 1) /\ after[n].tree # Refused /\ ShowsAs(after[n].tree, P(n))
    BY <1>9, <2>1
  <2>3. p \in paths /\ p \in DOMAIN scan /\ IsEntryPath(p)
    BY <1>2, <1>3, <2>1 DEF paths
  <2>4. after[n + 1] = Project(after[n], <<p, Resolved(p)>>)
    BY <1>5, <2>1
  <2>5. 1..n \subseteq 1..size /\ n + 1 \notin 1..n
    BY <1>1, <2>1
  <2>6. P(n) \subseteq paths /\ P(n) \subseteq DOMAIN scan
    BY <1>3, <2>5 DEF paths
  <2>7. NewPath(P(n), p)
    <3>1. p \notin P(n)
      BY <1>3, <2>1, <2>5
    <3>2. ASSUME NEW r \in P(n), p \in Above(r) PROVE FALSE
      <4>1. Len(p) < Len(r)
        BY <1>7, <2>6, <3>2
      <4>2. PICK i \in 1..n : r = list[i]
        BY <3>2
      <4>3. n + 1 < i
        BY <1>3, <2>1, <2>5, <4>1, <4>2
      <4> QED
        BY <4>3
    <3> QED
      BY <2>3, <3>1, <3>2 DEF NewPath
  <2>8. Above(p) \subseteq P(n)
    <3> SUFFICES ASSUME NEW q \in Above(p) PROVE q \in P(n)
      OBVIOUS
    <3>1. q \in paths /\ Len(q) < Len(p)
      BY <1>7, <2>3
    <3>2. PICK i \in 1..size : list[i] = q
      BY <1>3, <3>1
    <3>3. i < n + 1
      BY <1>3, <2>1, <3>1, <3>2
    <3>4. i \in 1..n
      BY <1>1, <3>3
    <3> QED
      BY <3>2, <3>4
  <2>9. P(n + 1) = P(n) \cup {p}
    <3>1. 1..(n + 1) = 1..n \cup {n + 1}
      OBVIOUS
    <3> QED
      BY <3>1
  <2> HIDE DEF m, p, P
  <2>10. after[n + 1].tree # Refused /\ ShowsAs(after[n + 1].tree, P(n) \cup {p})
    BY <2>1, <2>2, <2>3, <2>4, <2>6, <2>7, <2>8, ProjectShows
  <2>11. /\ GoodNode(Resolved(p)) /\ Resolved(p).kind = scan[p].kind
         /\ Resolved(p).opaque = scan[p].opaque
    BY <2>3, ResolvedIsGood
  <2>12. ProjectedSoFar(after[n + 1], m)
    <3>1. ProjectedSoFar(Project(after[n], <<p, Resolved(p)>>), m)
      BY <2>1, <2>2, <2>3, <2>11, ProjectStep
    <3> QED
      BY <2>4, <3>1
  <2> QED
    BY <2>9, <2>10, <2>12 DEF m
<1> HIDE DEF Done
<1>10. size \in S
  <2>1. \A n \in Nat : n \in S
    <3> HIDE DEF S
    <3> QED
      BY <1>8, <1>9, SetInduction
  <2> QED
    BY <1>1, <2>1
<1>11. Done(size)
  BY <1>1, <1>10
<1>12. size - size = 0 /\ after[size] = Target
  BY <1>1, <1>5
<1>13. P(size) = DOMAIN scan
  <2>1. P(size) \subseteq paths /\ paths \subseteq P(size)
    BY <1>3
  <2>2. paths = DOMAIN scan
    BY DEF paths
  <2> HIDE DEF P
  <2> QED
    BY <2>1, <2>2
<1> QED
  BY <1>11, <1>12, <1>13 DEF Done

\* What is seen, as a tree of paths.
SeenPaths(U) == [p \in {q \in AllPaths : SeenOver(U, DOMAIN U, q) # Absent} |-> SeenOver(U, DOMAIN U, p)]

\* A path of an entry is empty for the root alone.
LEMMA RootHasNoPath ==
    ASSUME NEW t, IsTree(t), NEW e \in DOMAIN t
    PROVE  PathOf(t, e) = << >> <=> e = Root
<1>1. CASE e = Root
  BY <1>1, PathOfUnfolds
<1>2. CASE e # Root
  <2>1. PathOf(t, e) = Append(PathOf(t, t[e].parent), t[e].name) /\ t[e].parent \in DOMAIN t
    BY <1>2, PathOfUnfolds, TreeFacts
  <2>2. PathOf(t, t[e].parent) \in Seq(Names \cup {None}) /\ t[e].name \in Names \cup {None}
    BY <1>2, <2>1, PathsAreSequences, TreeFacts
  <2>3. \A s \in Seq(Names \cup {None}) : \A n \in Names \cup {None} : Append(s, n) # << >>
    OBVIOUS
  <2> QED
    BY <1>2, <2>1, <2>2, <2>3
<1> QED
  BY <1>1, <1>2

\* No path the commit works on is that of the root.
LEMMA AllPathsAreOfEntries ==
    ASSUME IsTree(base)
    PROVE  << >> \notin AllPaths /\ \A e \in DOMAIN base \ {Root} : PathOf(base, e) \in AllPaths
<1>1. \A e \in DOMAIN base \ {Root} : PathOf(base, e) # << >>
  BY RootHasNoPath
<1> QED
  BY <1>1, CommitAssumption DEF AllPaths

\* A tree that shows at every path what is seen is what was seen.
LEMMA TreeAsSeen ==
    ASSUME IsTree(base), Overlays(scan), NEW t, IsTree(t), ShowsAs(t, DOMAIN scan)
    PROVE  PathTree(t) = SeenPaths(scan)
<1> DEFINE seen(q) == SeenOver(scan, DOMAIN scan, q)
           mine == {PathOf(t, e) : e \in DOMAIN t \ {Root}}
           theirs == {q \in AllPaths : seen(q) # Absent}
<1>1. \A q : ContentAt(t, q) = seen(q)
  BY DEF ShowsAs
<1>2. ASSUME NEW e \in DOMAIN t \ {Root} PROVE PathOf(t, e) \in theirs
  <2> DEFINE q == PathOf(t, e)
  <2>1. q # << >>
    BY RootHasNoPath
  <2>2. ContentAt(t, q) # Absent
    BY ContentOfEntry
  <2>3. seen(q) # Absent
    BY <1>1, <2>2
  <2> HIDE DEF q
  <2>4. CASE q \in DOMAIN scan
    BY <2>3, <2>4 DEF Overlays, q
  <2>5. CASE q \notin DOMAIN scan
    <3>1. HasPath(base, q)
      BY <2>3, <2>5 DEF SeenOver, Through
    <3>2. EntryAt(base, q) \in DOMAIN base /\ PathOf(base, EntryAt(base, q)) = q
      BY <3>1, EntryAtPath
    <3>3. EntryAt(base, q) # Root
      BY <2>1, <3>2, RootHasNoPath
    <3>4. q \in AllPaths
      BY <3>2, <3>3, AllPathsAreOfEntries
    <3> QED
      BY <2>3, <3>4 DEF q
  <2> QED
    BY <2>4, <2>5
<1>3. ASSUME NEW q \in theirs PROVE q \in mine
  <2>1. ContentAt(t, q) # Absent
    BY <1>1
  <2>2. PICK e \in DOMAIN t : PathOf(t, e) = q
    BY <2>1, ContentOfEntry
  <2>3. q # << >>
    BY AllPathsAreOfEntries
  <2>4. e # Root
    BY <2>2, <2>3, RootHasNoPath
  <2> QED
    BY <2>2, <2>4
<1>4. mine = theirs
  BY <1>2, <1>3
<1>5. ASSUME NEW q \in mine PROVE t[EntryAt(t, q)].content = seen(q)
  <2>1. PICK e \in DOMAIN t : PathOf(t, e) = q
    OBVIOUS
  <2>2. HasPath(t, q)
    BY <2>1, EntryAtPath
  <2> QED
    BY <1>1, <2>2 DEF ContentAt
<1>6. PathTree(t) = [p \in mine |-> t[EntryAt(t, p)].content]
  BY DEF PathTree
<1>7. SeenPaths(scan) = [p \in theirs |-> seen(p)]
  BY DEF SeenPaths
<1> HIDE DEF mine, theirs, seen
<1> QED
  BY <1>4, <1>5, <1>6, <1>7

\* What the Run sees is what shows through the Upper on disk.
LEMMA SeenTreeIsSeenPaths == SeenTree = SeenPaths(upper) /\ \A q : Seen(q) = SeenOver(upper, DOMAIN upper, q)
<1>1. \A q : ShowsThrough(q) <=> Through(upper, DOMAIN upper, q)
  BY DEF ShowsThrough, Through
<1>2. \A q : Seen(q) = SeenOver(upper, DOMAIN upper, q)
  BY <1>1 DEF Seen, SeenOver, Own
<1> QED
  BY <1>2 DEF SeenTree, SeenPaths

\* What is published is what was seen, and keeps the entries it can.
LEMMA PublishesWhatWasSeen ==
    ASSUME IsTree(base), base \in BaseTrees, Overlays(scan), MaterializedAsScanned, ScannedWell,
           NEW next, next = ApplySegment(base, CommitOperations(Target))
    PROVE  /\ Target.tree # Refused /\ ~Unexpected(Target) /\ next # Refused /\ IsTree(next)
           /\ next = Target.tree /\ PathTree(next) = SeenPaths(scan)
           /\ \A e \in KeptEntries : e \in DOMAIN next /\ PathOf(next, e) = PathOf(base, e)
<1> DEFINE target == Target
<1>1. ProjectedSoFar(target, 0) /\ target.tree # Refused /\ ShowsAs(target.tree, DOMAIN scan)
  BY TargetShows
<1>2. next = ApplySegment(base, CommitOperations(target))
  OBVIOUS
<1> HIDE DEF target
<1>3. next = target.tree
  BY <1>1, <1>2, PlanReproducesTheTarget
<1>4. IsTree(next) /\ SameAsBase(next) /\ KeptEntries \subseteq DOMAIN next
  BY <1>1, <1>3 DEF ProjectedSoFar, ProjectedWell
<1>5. PathTree(next) = SeenPaths(scan)
  BY <1>1, <1>3, <1>4, TreeAsSeen
<1>6. KeepsThem(next)
  BY <1>4, ProjectionKeepsThem
<1>7. \A e \in KeptEntries : PathOf(next, e) = PathOf(base, e)
  BY <1>4, <1>6, KeptPaths
<1>8. ~Unexpected(target)
  <2> SUFFICES ASSUME NEW p \in DOMAIN taken PROVE HasPath(target.tree, p)
    BY DEF Unexpected
  <2>1. /\ p \in DOMAIN scan /\ scan[p].kind = "file"
        /\ taken[p] \in Contents /\ taken[p] = scan[p].content
    BY DEF ScannedWell, MaterializedAsScanned
  <2>2. ContentAt(target.tree, p) \in Contents
    BY <1>1, <2>1 DEF ShowsAs, SeenOver, Own
  <2> QED
    BY <2>2, AbsentAssumption DEF ContentAt
<1> QED
  BY <1>1, <1>3, <1>4, <1>5, <1>7, <1>8 DEF target

\* What is created has a name of the target.
LEMMA CreatedNamesAreLeft ==
    ASSUME IsTree(base), NEW target, ProjectedSoFar(target, 0), target.tree # Refused,
           NEW ops, ops = CommitOperations(target)
    PROVE  /\ Len(ops) \in Nat
           /\ \A i \in DOMAIN ops : ops[i].kind = "create" =>
                 \E p \in DOMAIN PathTree(target.tree) : Last(p) = ops[i].name
<1> DEFINE t == target.tree
           removed == Removals(t)
           created == Creations(t)
           updated == Updates(t, target.touched)
           added == DOMAIN t \ DOMAIN base
           new == ByDepth(t, added)
           Named(op) == op.kind = "create" => \E p \in DOMAIN PathTree(t) : Last(p) = op.name
<1>1. IsTree(t) /\ IsSegment(removed) /\ IsSegment(created) /\ IsSegment(updated)
  BY PlanApplies DEF ProjectedSoFar, ProjectedWell
<1>2. \A i \in DOMAIN removed : removed[i].kind = "remove"
  BY DEF Removals, RemoveEntry
<1>3. \A i \in DOMAIN updated : updated[i].kind = "set-file-content"
  BY DEF Updates, SetContent
<1>4. ASSUME NEW x \in added PROVE \E p \in DOMAIN PathTree(t) : Last(p) = t[x].name
  <2>1. x \in DOMAIN t \ {Root}
    BY <1>1, TreeFacts
  <2>2. PathOf(t, x) \in DOMAIN PathTree(t)
    BY <2>1 DEF PathTree
  <2>3. PathOf(t, x) = Append(PathOf(t, t[x].parent), t[x].name) /\ t[x].parent \in DOMAIN t
    BY <1>1, <2>1, PathOfUnfolds, TreeFacts
  <2>4. PathOf(t, t[x].parent) \in Seq(Names \cup {None}) /\ t[x].name \in Names \cup {None}
    BY <1>1, <2>1, <2>3, PathsAreSequences, TreeFacts
  <2>5. Last(PathOf(t, x)) = t[x].name
    BY <2>3, <2>4, LastOfAppend
  <2> QED
    BY <2>2, <2>5
<1>5. \A i \in DOMAIN created : \E x \in added : created[i].name = t[x].name
  <2>1. added \in SUBSET DOMAIN t
    OBVIOUS
  <2>2. created = [i \in DOMAIN new |-> CreateEntry(new[i], t[new[i]].parent, t[new[i]].name, t[new[i]].content)]
    BY DEF Creations
  <2>3. \A i \in DOMAIN new : new[i] \in added
    <3> HIDE DEF added
    <3> QED
      BY <1>1, <2>1, ByDepthLists
  <2> HIDE DEF added, new
  <2> QED
    BY <2>2, <2>3 DEF CreateEntry
<1>6. ops = (removed \o created) \o updated
  BY DEF CommitOperations
<1>7. /\ \A i \in DOMAIN removed : Named(removed[i])
      /\ \A i \in DOMAIN created : Named(created[i])
      /\ \A i \in DOMAIN updated : Named(updated[i])
  BY <1>2, <1>3, <1>4, <1>5
<1> HIDE DEF removed, created, updated, added, new, Named
<1>8. /\ IsSegment(removed \o created)
      /\ \A i \in DOMAIN (removed \o created) : Named((removed \o created)[i])
  BY <1>1, <1>7, JoinedElements
<1> DEFINE before == removed \o created
<1>9. /\ IsSegment(before) /\ \A i \in DOMAIN before : Named(before[i])
      /\ ops = before \o updated
  BY <1>6, <1>8
<1> HIDE DEF before
<1>10. IsSegment(ops) /\ \A i \in DOMAIN ops : Named(ops[i])
  BY <1>1, <1>7, <1>9, JoinedElements
<1> QED
  BY <1>10 DEF Named, IsSegment

-----------------------------------------------------------------------------
(* Commit: the Upper that overlayfs leaves.                                *)

\* What the Run sees, by where it is.
LEMMA SeenInTheUpper ==
    ASSUME Overlays(upper), NEW q
    PROVE  /\ q \in DOMAIN upper => (Seen(q) = None <=> upper[q].kind = "directory")
           /\ q \notin DOMAIN upper /\ Seen(q) # Absent =>
                 ShowsThrough(q) /\ Seen(q) = base[EntryAt(base, q)].content
           /\ Absent # None
<1>1. Absent # None
  BY AbsentAssumption
<1>2. ASSUME q \in DOMAIN upper PROVE Seen(q) = None <=> upper[q].kind = "directory"
  <2>1. GoodNode(upper[q])
    BY <1>2 DEF Overlays
  <2>2. None \notin Contents
    BY TreeAssumption
  <2>3. upper[q].kind \in {"file", "directory", "whiteout"}
    BY <2>1 DEF GoodNode, Node
  <2> QED
    BY <1>1, <1>2, <2>1, <2>2, <2>3 DEF GoodNode, Seen
<1>3. ASSUME q \notin DOMAIN upper, Seen(q) # Absent
      PROVE  ShowsThrough(q) /\ Seen(q) = base[EntryAt(base, q)].content
  BY <1>3 DEF Seen
<1> QED
  BY <1>1, <1>2, <1>3

\* What is seen is in directories that are seen.
LEMMA SeenAbove ==
    ASSUME IsTree(base), Overlays(upper), NEW path, IsEntryPath(path), Seen(path) # Absent
    PROVE  \A q \in Above(path) : Seen(q) = None
<1> SUFFICES ASSUME NEW q \in Above(path) PROVE Seen(q) = None
  OBVIOUS
<1>1. CASE path \in DOMAIN upper
  <2>1. q \in DOMAIN upper /\ upper[q].kind = "directory"
    BY <1>1 DEF Overlays
  <2> QED
    BY <2>1, SeenInTheUpper
<1>2. CASE path \notin DOMAIN upper
  <2>1. ShowsThrough(path)
    BY <1>2, SeenInTheUpper
  <2>2. CASE q \in DOMAIN upper
    <3>1. upper[q].kind = "directory"
      BY <2>1, <2>2 DEF ShowsThrough
    <3> QED
      BY <2>2, <3>1, SeenInTheUpper
  <2>3. CASE q \notin DOMAIN upper
    <3>1. EntryAt(base, path) \in DOMAIN base /\ PathOf(base, EntryAt(base, path)) = path
      BY <2>1, EntryAtPath DEF ShowsThrough
    <3>2. q \in Above(PathOf(base, EntryAt(base, path)))
      BY <3>1
    <3>3. PICK e \in DOMAIN base \ {Root} : PathOf(base, e) = q /\ base[e].content = None
      BY <3>1, <3>2, AboveAreDirectories
    <3>4. EntryAt(base, q) = e /\ HasPath(base, q)
      BY <3>3, EntryAtPath
    <3>5. Above(q) \subseteq Above(path)
      BY AboveFacts DEF IsEntryPath
    <3>6. ShowsThrough(q)
      BY <2>1, <3>4, <3>5 DEF ShowsThrough
    <3> QED
      BY <2>3, <3>3, <3>4, <3>6 DEF Seen
  <2> QED
    BY <2>2, <2>3
<1> QED
  BY <1>1, <1>2

\* A change leaves such an Upper, when the directories above it are seen and it
\* takes with it what is below it.
LEMMA ChangeKeepsOverlay ==
    ASSUME IsTree(base), Overlays(upper), NEW path \in RunPaths, NEW under \in BOOLEAN,
           NEW node, node = None \/ GoodNode(node),
           \A q \in Above(path) : Seen(q) = None,
           \A p \in DOMAIN upper : path \in Above(p) => under,
           node # None /\ node.kind = "whiteout" => ShowsThrough(path),
           Change(path, under, node)
    PROVE  Overlays(upper')
<1> DEFINE up == Above(path) \ DOMAIN upper
           kept == {q \in DOMAIN upper : ~(under /\ IsPrefix(path, q))} \ {path}
           own == IF node = None THEN {} ELSE {path}
<1>1. path \in Seq(Names) /\ path # << >> /\ path \in UpperPaths /\ Above(path) \subseteq UpperPaths
  BY CommitAssumption, UpperPathsArePaths DEF UpperPaths
<1>2. \A p \in DOMAIN upper : p \in Seq(Names) /\ p # << >> /\ p \in AllPaths /\ p \in UpperPaths
  BY UpperPathsArePaths DEF Overlays
<1>3. upper' = [q \in kept \cup up \cup own |->
                  IF q = path THEN node
                  ELSE IF q \in kept THEN upper[q] ELSE Directory(FALSE)]
  BY DEF Change
<1>4. path \notin kept \cup up
  BY <1>1, NotAboveItself
<1>5. kept \subseteq DOMAIN upper /\ up \cap DOMAIN upper = {} /\ up \subseteq Above(path)
  OBVIOUS
\* Nothing that is kept is below the path, ...
<1>6. ASSUME NEW p \in kept PROVE path \notin Above(p)
  <2> SUFFICES ASSUME path \in Above(p) PROVE FALSE
    OBVIOUS
  <2>1. under
    BY <1>5
  <2>2. p \in Seq(Names)
    BY <1>2
  <2>3. IsPrefix(path, p)
    BY <2>2, AboveFacts
  <2> QED
    BY <2>1, <2>3
\* ... so what is above a kept path is kept, ...
<1>7. ASSUME NEW p \in kept, NEW q \in Above(p) PROVE q \in kept /\ upper[q].kind = "directory"
  <2>1. q \in DOMAIN upper /\ upper[q].kind = "directory"
    BY DEF Overlays
  <2>2. p \in Seq(Names) /\ q \in Seq(Names)
    BY <1>2, <2>1
  <2>3. Above(q) \subseteq Above(p)
    BY <2>2, AboveFacts
  <2>4. q # path /\ path \notin Above(q)
    BY <1>6, <2>3
  <2>5. ~IsPrefix(path, q)
    BY <1>1, <2>2, <2>4, PrefixIsAbove
  <2> QED
    BY <2>1, <2>4, <2>5
\* ... and what is above the path is kept or is copied up.
<1>8. ASSUME NEW q \in Above(path)
      PROVE  q # path /\ ((q \in kept /\ upper[q].kind = "directory") \/ q \in up)
  <2>1. q # path
    BY <1>1, NotAboveItself
  <2>2. CASE q \in DOMAIN upper
    <3>1. upper[q].kind = "directory"
      BY <2>2, SeenInTheUpper
    <3>2. q \in Seq(Names) /\ Len(q) \in Nat /\ Len(path) \in Nat /\ Len(q) < Len(path)
      BY <1>1, AboveFacts
    <3>3. ~IsPrefix(path, q)
      <4> SUFFICES ASSUME IsPrefix(path, q) PROVE FALSE
        OBVIOUS
      <4>1. path \in Above(q)
        BY <1>1, <2>1, <3>2, PrefixIsAbove
      <4>2. Len(path) < Len(q)
        BY <3>2, <4>1, AboveFacts
      <4> QED
        BY <3>2, <4>2
    <3> QED
      BY <2>1, <2>2, <3>1, <3>3
  <2>3. CASE q \notin DOMAIN upper
    BY <2>1, <2>3
  <2> QED
    BY <2>2, <2>3
<1>9. ASSUME NEW q \in up PROVE q \in AllPaths /\ q \in UpperPaths
  <2>1. Seen(q) = None /\ q \notin DOMAIN upper
    BY <1>5
  <2>2. HasPath(base, q)
    BY <2>1, SeenInTheUpper DEF ShowsThrough
  <2>3. EntryAt(base, q) \in DOMAIN base /\ PathOf(base, EntryAt(base, q)) = q
    BY <2>2, EntryAtPath
  <2>4. q # << >>
    BY <1>1, <1>5, AboveFacts
  <2>5. EntryAt(base, q) # Root
    BY <2>3, <2>4, RootHasNoPath
  <2>6. q \in AllPaths
    BY <2>3, <2>5, AllPathsAreOfEntries
  <2> QED
    BY <1>1, <1>5, <2>6
<1>10. path \in AllPaths
  BY DEF AllPaths
<1> HIDE DEF kept, up
<1>11. /\ DOMAIN upper' = kept \cup up \cup own
       /\ \A q \in kept : upper'[q] = upper[q]
       /\ \A q \in up : upper'[q] = Directory(FALSE)
       /\ node # None => upper'[path] = node
  BY <1>3, <1>4, <1>5
<1>12. /\ GoodNode(Directory(FALSE)) /\ Directory(FALSE).kind = "directory"
       /\ ~Directory(FALSE).opaque
  BY DEF GoodNode, Directory, Node, Writer
<1>13. \A q \in Above(path) : q \in DOMAIN upper' /\ upper'[q].kind = "directory"
  BY <1>8, <1>11, <1>12
<1>14. DOMAIN upper' \subseteq UpperPaths \cap AllPaths
  BY <1>1, <1>2, <1>5, <1>9, <1>10, <1>11
<1>15. ASSUME NEW p \in DOMAIN upper'
       PROVE  /\ GoodNode(upper'[p])
              /\ \A q \in Above(p) : q \in DOMAIN upper' /\ upper'[q].kind = "directory"
              /\ upper'[p].kind = "whiteout" => Through(upper', DOMAIN upper', p)
  <2>1. CASE p \in kept
    <3>1. GoodNode(upper[p])
      BY <1>5, <2>1 DEF Overlays
    <3>2. \A q \in Above(p) : q \in kept /\ upper[q].kind = "directory" /\ upper'[q] = upper[q]
      BY <1>7, <1>11, <2>1
    <3>3. \A q \in Above(p) : q \in DOMAIN upper' /\ upper'[q].kind = "directory"
      BY <1>11, <3>2
    <3>4. upper'[p] = upper[p]
      BY <1>11, <2>1
    <3>5. ASSUME upper[p].kind = "whiteout" PROVE Through(upper', DOMAIN upper', p)
      <4>1. Through(upper, DOMAIN upper, p)
        BY <1>5, <2>1, <3>5 DEF Overlays
      <4>2. \A q \in Above(p) : upper[q].kind = "directory" /\ ~upper[q].opaque
        BY <1>5, <3>2, <4>1 DEF Through
      <4> QED
        BY <3>2, <4>1, <4>2 DEF Through
    <3> QED
      BY <3>1, <3>3, <3>4, <3>5
  <2>2. CASE p \in up
    <3>1. upper'[p] = Directory(FALSE)
      BY <1>11, <2>2
    <3>2. Above(p) \subseteq Above(path)
      BY <1>1, <1>5, <2>2, AboveFacts
    <3> QED
      BY <1>12, <1>13, <3>1, <3>2
  <2>3. CASE p = path /\ node # None
    <3>1. upper'[p] = node /\ GoodNode(node)
      BY <1>11, <2>3
    <3>2. ASSUME node.kind = "whiteout" PROVE Through(upper', DOMAIN upper', path)
      <4>1. ShowsThrough(path)
        BY <2>3, <3>2
      <4>2. ASSUME NEW q \in Above(path) PROVE upper'[q].kind = "directory" /\ ~upper'[q].opaque
        <5>1. CASE q \in kept
          BY <1>5, <1>11, <4>1, <5>1 DEF ShowsThrough
        <5>2. CASE q \in up
          BY <1>11, <1>12, <5>2
        <5> QED
          BY <1>8, <5>1, <5>2
      <4> QED
        BY <4>1, <4>2 DEF Through, ShowsThrough
    <3> QED
      BY <1>13, <2>3, <3>1, <3>2
  <2> QED
    BY <1>11, <2>1, <2>2, <2>3
<1> QED
  BY <1>14, <1>15 DEF Overlays

\* A node that becomes one a commit may not take stays where it is.
LEMMA SpoilKeepsOverlay ==
    ASSUME Overlays(upper), NEW path, Spoil(path)
    PROVE  Overlays(upper')
<1>1. PICK d \in {"unsupported", "early"} : upper' = [upper EXCEPT ![path].defect = d]
  BY DEF Spoil
<1>2. path \in DOMAIN upper /\ DOMAIN upper' = DOMAIN upper
  BY <1>1 DEF Spoil
<1>3. ASSUME NEW p \in DOMAIN upper
      PROVE  GoodNode(upper'[p]) /\ upper'[p].kind = upper[p].kind /\ upper'[p].opaque = upper[p].opaque
  <2>1. GoodNode(upper[p])
    BY DEF Overlays
  <2>2. CASE p = path
    <3>1. upper'[p] = [upper[p] EXCEPT !.defect = d]
      BY <1>1, <2>2
    <3> QED
      BY <2>1, <3>1 DEF GoodNode, Node
  <2>3. CASE p # path
    BY <1>1, <2>1, <2>3
  <2> QED
    BY <2>2, <2>3
<1>4. \A q : Through(upper, DOMAIN upper, q) => Through(upper', DOMAIN upper', q)
  BY <1>2, <1>3 DEF Through
<1> QED
  BY <1>2, <1>3, <1>4 DEF Overlays

\* Whatever the Run does, overlayfs leaves such an Upper.
LEMMA RunWritesLeaveAnOverlay ==
    ASSUME IsTree(base), Overlays(upper), RunWrites
    PROVE  Overlays(upper')
<1>1. PICK path \in RunPaths :
          \/ \E c \in Contents : WriteFile(path, c)
          \/ CopyUp(path) \/ MakeDirectory(path) \/ Delete(path) \/ Spoil(path)
  BY DEF RunWrites
<1>2. IsEntryPath(path)
  BY CommitAssumption DEF IsEntryPath
<1>3. /\ \A c \in Contents, touched \in BOOLEAN :
            GoodNode(File(c, touched)) /\ File(c, touched).kind = "file"
      /\ \A opaque \in BOOLEAN :
            GoodNode(Directory(opaque)) /\ Directory(opaque).kind = "directory"
      /\ GoodNode(Whiteout)
  BY DEF GoodNode, File, Directory, Whiteout, Node, Writer
<1>4. ASSUME NEW p \in DOMAIN upper, path \in Above(p)
      PROVE  path \in DOMAIN upper /\ Seen(path) = None
  <2>1. path \in DOMAIN upper /\ upper[path].kind = "directory"
    BY <1>4 DEF Overlays
  <2> QED
    BY <2>1, SeenInTheUpper
<1>5. Absent # None /\ Absent \notin Contents /\ None \notin Contents
  BY AbsentAssumption, TreeAssumption
<1>6. ASSUME NEW c \in Contents, WriteFile(path, c) PROVE Overlays(upper')
  <2>1. /\ \A q \in Above(path) : Seen(q) = None
        /\ Seen(path) # None /\ Change(path, FALSE, File(c, TRUE))
    BY <1>6 DEF WriteFile, ParentIsThere
  <2>2. GoodNode(File(c, TRUE)) /\ File(c, TRUE).kind # "whiteout"
    BY <1>3
  <2>3. \A p \in DOMAIN upper : path \in Above(p) => FALSE
    BY <1>4, <2>1
  <2> DEFINE node == File(c, TRUE)
  <2>4. GoodNode(node) /\ node.kind # "whiteout" /\ Change(path, FALSE, node)
    BY <2>1, <2>2
  <2> HIDE DEF node
  <2> QED
    BY <2>1, <2>3, <2>4, ChangeKeepsOverlay
<1>7. ASSUME CopyUp(path) PROVE Overlays(upper')
  <2> DEFINE c == Seen(path)
             node == File(c, FALSE)
  <2>1. path \notin DOMAIN upper /\ c \in Contents /\ Change(path, FALSE, node)
    BY <1>7 DEF CopyUp
  <2>2. Seen(path) # Absent
    BY <1>5, <2>1
  <2>3. \A q \in Above(path) : Seen(q) = None
    BY <1>2, <2>2, SeenAbove
  <2>4. \A p \in DOMAIN upper : path \in Above(p) => FALSE
    BY <1>4, <2>1
  <2>5. GoodNode(node) /\ node.kind # "whiteout"
    <3> HIDE DEF c
    <3> QED
      BY <1>3, <2>1
  <2> HIDE DEF node, c
  <2> QED
    BY <2>1, <2>3, <2>4, <2>5, ChangeKeepsOverlay
<1>8. ASSUME MakeDirectory(path) PROVE Overlays(upper')
  <2> DEFINE opaque == path \in DOMAIN upper
             node == Directory(opaque)
  <2>1. /\ \A q \in Above(path) : Seen(q) = None
        /\ Seen(path) = Absent /\ Change(path, FALSE, node)
    BY <1>8 DEF MakeDirectory, ParentIsThere
  <2>2. \A p \in DOMAIN upper : path \in Above(p) => FALSE
    BY <1>4, <1>5, <2>1
  <2>3. GoodNode(node) /\ node.kind # "whiteout"
    <3>1. opaque \in BOOLEAN
      OBVIOUS
    <3> HIDE DEF opaque
    <3> QED
      BY <1>3, <3>1
  <2> HIDE DEF node
  <2> QED
    BY <2>1, <2>2, <2>3, ChangeKeepsOverlay
<1>9. ASSUME Delete(path) PROVE Overlays(upper')
  <2> DEFINE node == IF ShowsThrough(path) THEN Whiteout ELSE None
  <2>1. Seen(path) # Absent /\ Change(path, TRUE, node)
    BY <1>9 DEF Delete
  <2>2. \A q \in Above(path) : Seen(q) = None
    BY <1>2, <2>1, SeenAbove
  <2>3. /\ node = None \/ GoodNode(node)
        /\ node # None /\ node.kind = "whiteout" => ShowsThrough(path)
    BY <1>3
  <2> HIDE DEF node
  <2> QED
    BY <2>1, <2>2, <2>3, ChangeKeepsOverlay
<1> QED
  BY <1>1, <1>6, <1>7, <1>8, <1>9, SpoilKeepsOverlay

\* What is seen depends on the base and the Upper alone.
LEMMA SeenStays ==
    ASSUME base' = base
    PROVE  /\ Overlays(upper') => Overlays(upper)'
           /\ upper' = upper => (Overlays(upper)' <=> Overlays(upper))
           /\ scan' = scan => (Overlays(scan)' <=> Overlays(scan))
           /\ scan' = upper => (Overlays(scan)' <=> Overlays(upper))
           /\ scan' = scan => SeenPaths(scan)' = SeenPaths(scan)
           /\ scan' = upper => SeenPaths(scan)' = SeenPaths(upper)
<1>1. AllPaths' = AllPaths
  BY DEF AllPaths
<1>2. Overlays(upper') => Overlays(upper)'
  BY <1>1 DEF Overlays, Through
<1>3. upper' = upper => (Overlays(upper)' <=> Overlays(upper))
  BY <1>1 DEF Overlays, Through
<1>4. scan' = scan => (Overlays(scan)' <=> Overlays(scan))
  BY <1>1 DEF Overlays, Through
<1>5. scan' = upper => (Overlays(scan)' <=> Overlays(upper))
  BY <1>1 DEF Overlays, Through
<1>6. scan' = scan => SeenPaths(scan)' = SeenPaths(scan)
  BY <1>1 DEF SeenPaths, SeenOver, Through
<1>7. scan' = upper => SeenPaths(scan)' = SeenPaths(upper)
  BY <1>1 DEF SeenPaths, SeenOver, Through
<1> QED
  BY <1>2, <1>3, <1>4, <1>5, <1>6, <1>7

\* The inductive invariant of the commit: the Upper is one that overlayfs leaves
\* until it is scanned, the scan is, what the Run left is what the scan shows, and
\* what was published is that.
OverlaysHold ==
    /\ phase \in {"running", "stopped"} => Overlays(upper)
    /\ Overlays(scan)
    /\ phase \notin {"running", "stopped"} => left = SeenPaths(scan)
CommitOutcome ==
    EntriesKeepTheirIdentity /\ CommittedTreeIsWhatTheRunLeft /\ RefusedForCause
CommitTreesInductive ==
    /\ WorkspaceCommitTypeOK /\ CommitInductive /\ base \in BaseTrees
    /\ OverlaysHold /\ CommitOutcome

\* What was materialized is content of scanned files.
LEMMA TakenIsContent ==
    ASSUME CommitInductive, Overlays(scan)
    PROVE  \A p \in DOMAIN taken : scan[p].kind = "file" /\ taken[p] \in Contents
<1>1. CASE phase \in {"running", "stopped"}
  <2>1. taken = << >>
    BY <1>1 DEF CommitInductive, UpperIsTheRuns
  <2> QED
    BY <2>1
<1>2. CASE phase \notin {"running", "stopped"}
  <2>1. DOMAIN taken \subseteq ScannedFiles /\ MaterializedAsScanned
    BY <1>2 DEF CommitInductive, ScanIsOfTheRun
  <2> SUFFICES ASSUME NEW p \in DOMAIN taken
               PROVE  scan[p].kind = "file" /\ taken[p] \in Contents
    OBVIOUS
  <2>2. p \in DOMAIN scan /\ scan[p].kind = "file" /\ taken[p] = scan[p].content
    BY <2>1 DEF ScannedFiles, MaterializedAsScanned
  <2>3. GoodNode(scan[p])
    BY <2>2 DEF Overlays
  <2> QED
    BY <2>2, <2>3 DEF GoodNode
<1> QED
  BY <1>1, <1>2

\* Such an Upper is one of nodes.
LEMMA OverlaysHaveNodes ==
    ASSUME NEW U, Overlays(U)
    PROVE  \A p \in DOMAIN U : U[p] \in Node
BY DEF Overlays, GoodNode

\* At first there is no Upper.
LEMMA CommitTreesInitHolds == CommitInit => CommitTreesInductive
<1> SUFFICES ASSUME CommitInit PROVE CommitTreesInductive
  OBVIOUS
<1>1. /\ base \in BaseTrees /\ result = base /\ upper = << >> /\ edits = 0 /\ phase = "running"
      /\ scan = << >> /\ taken = << >> /\ late = FALSE
  BY DEF CommitInit
<1>2. IsTree(base) /\ MaxEdits \in Nat
  BY <1>1, CommitAssumption
<1>3. Overlays(upper) /\ Overlays(scan)
  BY <1>1 DEF Overlays
<1>4. OverlaysHold
  BY <1>1, <1>3 DEF OverlaysHold
<1>5. CommitOutcome
  BY <1>1 DEF CommitOutcome, EntriesKeepTheirIdentity, CommittedTreeIsWhatTheRunLeft,
     RefusedForCause
<1>6. WorkspaceCommitTypeOK
  <2>1. IsTree(base) /\ IsTree(result) /\ edits \in 0..MaxEdits
    BY <1>1, <1>2
  <2>2. DOMAIN upper = {} /\ DOMAIN taken = {}
    BY <1>1
  <2>3. late \in BOOLEAN /\ phase \in {"running", "stopped", "scanned", "published", "unchanged", "failed"}
    BY <1>1
  <2> QED
    BY <2>1, <2>2, <2>3 DEF WorkspaceCommitTypeOK
<1> QED
  BY <1>1, <1>4, <1>5, <1>6, CommitInitHolds DEF CommitTreesInductive

\* Why a commit is refused depends on what was scanned and read.
LEMMA CausesStay ==
    ASSUME UNCHANGED <<base, scan, left, taken>>
    PROVE  /\ Unsupported' <=> Unsupported
           /\ UpperTooLarge' <=> UpperTooLarge
           /\ PathsCross' <=> PathsCross
           /\ TimeBefore1970' <=> TimeBefore1970
           /\ WholeTreeTooLarge' <=> WholeTreeTooLarge
           /\ NameIsOdd' <=> NameIsOdd
           /\ ChangeTooLong' <=> ChangeTooLong
<1>1. Target' = Target
  BY DEF Target, Resolved
<1>2. TimeBefore1970' <=> TimeBefore1970
  BY <1>1 DEF TimeBefore1970, TimesAreValid
<1>3. ChangeTooLong' <=> ChangeTooLong
  BY <1>1 DEF ChangeTooLong, CommitOperations, Removals, Creations, Updates
<1> QED
  BY <1>2, <1>3 DEF Unsupported, UpperTooLarge, PathsCross, WholeTreeTooLarge, NameIsOdd

\* A step that leaves the Upper to the Run, or the scan to the commit, and comes
\* to no end.
LEMMA NoEndYet ==
    ASSUME phase' \in {"running", "stopped", "scanned"}
    PROVE  CommitOutcome'
BY DEF CommitOutcome, EntriesKeepTheirIdentity, CommittedTreeIsWhatTheRunLeft,
   RefusedForCause

\* The Run writes, and stops.
LEMMA RunLeavesTrees ==
    ASSUME CommitTreesInductive, RunWrites \/ Stop
    PROVE  CommitTreesInductive'
<1>1. /\ phase = "running" /\ phase' \in {"running", "stopped"}
      /\ UNCHANGED <<base, result, scan, left, taken, late>>
  BY DEF RunWrites, Stop
<1>2. /\ IsTree(base) /\ IsTree(result) /\ late \in BOOLEAN /\ base \in BaseTrees
      /\ Overlays(upper) /\ Overlays(scan) /\ edits \in 0..MaxEdits
  BY <1>1 DEF CommitTreesInductive, WorkspaceCommitTypeOK, OverlaysHold
<1>3. CommitInductive'
  BY CommitStepHolds DEF CommitTreesInductive, CommitNext
<1>4. Overlays(upper')
  <2>1. CASE RunWrites
    BY <1>2, <2>1, RunWritesLeaveAnOverlay
  <2>2. CASE Stop
    BY <1>2, <2>2 DEF Stop
  <2> QED
    BY <2>1, <2>2
<1>5. edits' \in 0..MaxEdits
  <2>1. MaxEdits \in Nat
    BY CommitAssumption
  <2> QED
    BY <1>2, <2>1 DEF RunWrites, Stop
<1>6. Overlays(upper)' /\ Overlays(scan)'
  BY <1>1, <1>2, <1>4, SeenStays
<1>7. OverlaysHold'
  BY <1>1, <1>6 DEF OverlaysHold
<1>8. CommitOutcome'
  BY <1>1, NoEndYet
<1>9. \A p \in DOMAIN upper' : upper'[p] \in Node
  BY <1>4, OverlaysHaveNodes
<1>10. \A p \in DOMAIN taken' : scan'[p].kind = "file" /\ taken'[p] \in Contents
  BY <1>1 DEF CommitTreesInductive, WorkspaceCommitTypeOK
<1>11. WorkspaceCommitTypeOK'
  BY <1>1, <1>2, <1>5, <1>9, <1>10 DEF WorkspaceCommitTypeOK
<1> QED
  BY <1>1, <1>2, <1>3, <1>7, <1>8, <1>11 DEF CommitTreesInductive

\* The Upper is scanned as the Run left it.
LEMMA ScanLeavesTrees ==
    ASSUME CommitTreesInductive, ScanUpper
    PROVE  CommitTreesInductive'
<1>1. /\ phase = "stopped" /\ phase' \in {"scanned", "failed"} /\ scan' = upper /\ left' = SeenTree
      /\ UNCHANGED <<base, result, upper, edits, taken, late>>
  BY DEF ScanUpper
<1>2. /\ IsTree(base) /\ IsTree(result) /\ late \in BOOLEAN /\ base \in BaseTrees
      /\ Overlays(upper) /\ edits \in 0..MaxEdits
      /\ \A p \in DOMAIN upper : upper[p] \in Node
  BY <1>1 DEF CommitTreesInductive, WorkspaceCommitTypeOK, OverlaysHold
<1>3. CommitInductive'
  BY CommitStepHolds DEF CommitTreesInductive, CommitNext
<1>4. taken' = << >>
  BY <1>1 DEF CommitTreesInductive, CommitInductive, UpperIsTheRuns
<1>5. Overlays(scan)' /\ left' = SeenPaths(scan)'
  <2>1. left' = SeenPaths(upper)
    BY <1>1, SeenTreeIsSeenPaths
  <2> QED
    BY <1>1, <1>2, <2>1, SeenStays
<1>6. OverlaysHold'
  BY <1>1, <1>5 DEF OverlaysHold
<1>7. CommitOutcome'
  <2>1. CASE phase' = "scanned"
    BY <2>1, NoEndYet
  <2>2. CASE phase' = "failed"
    <3>1. ScannerRefuses(upper)
      BY <2>2 DEF ScanUpper
    <3>2. Unsupported' \/ UpperTooLarge' \/ PathsCross'
      BY <1>1, <3>1 DEF ScannerRefuses, Unsupported, UpperTooLarge, PathsCross
    <3> QED
      BY <2>2, <3>2 DEF CommitOutcome, EntriesKeepTheirIdentity, CommittedTreeIsWhatTheRunLeft,
         RefusedForCause
  <2> QED
    BY <1>1, <2>1, <2>2
<1>8. WorkspaceCommitTypeOK'
  BY <1>1, <1>2, <1>4 DEF WorkspaceCommitTypeOK
<1> QED
  BY <1>1, <1>2, <1>3, <1>6, <1>7, <1>8 DEF CommitTreesInductive

\* What the commit has scanned stays, whatever becomes of the Upper.
LEMMA ScanStays ==
    ASSUME CommitTreesInductive, CommitInductive', phase \notin {"running", "stopped"},
           UNCHANGED <<base, edits, scan, left>>, IsTree(result'), late' \in BOOLEAN,
           phase' \in {"scanned", "published", "unchanged", "failed"},
           \A p \in DOMAIN upper' : upper'[p] \in Node,
           CommitOutcome'
    PROVE  CommitTreesInductive'
<1>1. /\ IsTree(base) /\ base \in BaseTrees /\ Overlays(scan) /\ edits \in 0..MaxEdits
      /\ left = SeenPaths(scan)
  BY DEF CommitTreesInductive, WorkspaceCommitTypeOK, OverlaysHold
<1>2. Overlays(scan)' /\ left' = SeenPaths(scan)'
  BY <1>1, SeenStays
<1>3. OverlaysHold'
  BY <1>2 DEF OverlaysHold
<1>4. (\A p \in DOMAIN taken : scan[p].kind = "file" /\ taken[p] \in Contents)'
  <2>1. CommitInductive' /\ Overlays(scan)'
    BY <1>2
  <2> QED
    BY <2>1, TakenIsContent, PTL
<1>5. WorkspaceCommitTypeOK'
  BY <1>1, <1>4 DEF WorkspaceCommitTypeOK
<1> QED
  BY <1>1, <1>3, <1>5 DEF CommitTreesInductive

\* A late write does not reach the scan.
LEMMA LateWriteLeavesTrees ==
    ASSUME CommitTreesInductive, LateWrite
    PROVE  CommitTreesInductive'
<1>1. /\ phase = "scanned" /\ late' = TRUE /\ UNCHANGED <<base, result, edits, phase, scan, left>>
      /\ IsTree(result) /\ \A p \in DOMAIN upper : upper[p] \in Node
  BY DEF LateWrite, CommitTreesInductive, WorkspaceCommitTypeOK
<1>2. PICK path \in DOMAIN upper, c \in Contents : upper' = [upper EXCEPT ![path] = File(c, TRUE)]
  BY DEF LateWrite
<1>3. File(c, TRUE) \in Node
  BY DEF File, Node, Writer
<1>4. \A p \in DOMAIN upper' : upper'[p] \in Node
  BY <1>1, <1>2, <1>3
<1>5. CommitInductive'
  BY CommitStepHolds DEF CommitTreesInductive, CommitNext
<1>6. CommitOutcome'
  BY <1>1, NoEndYet
<1> QED
  BY <1>1, <1>4, <1>5, <1>6, ScanStays

\* Only a file that is not as it was scanned stops the materializer, and then
\* somebody has written it late.
LEMMA OnlyLateWritesFail ==
    ASSUME CommitTreesInductive, phase = "scanned", Fail, NEW p \in ScannedFiles, ~AsScanned(p)
    PROVE  CommitTreesInductive'
<1>1. ScanIsOfTheRun /\ p \in DOMAIN scan
  BY DEF CommitTreesInductive, CommitInductive, ScannedFiles
<1>2. late
  <2> SUFFICES ASSUME ~late PROVE FALSE
    OBVIOUS
  <2>1. p \in DOMAIN upper /\ upper[p] = scan[p]
    BY <1>1 DEF ScanIsOfTheRun
  <2> QED
    BY <2>1 DEF AsScanned
<1>3. /\ phase' = "failed" /\ UNCHANGED <<base, result, upper, edits, scan, left, taken, late>>
      /\ IsTree(result) /\ late \in BOOLEAN /\ \A x \in DOMAIN upper : upper[x] \in Node
  BY DEF Fail, CommitTreesInductive, WorkspaceCommitTypeOK
<1>4. CommitOutcome'
  BY <1>2, <1>3 DEF CommitOutcome, EntriesKeepTheirIdentity, CommittedTreeIsWhatTheRunLeft,
     RefusedForCause
<1>5. CommitInductive'
  BY FailIsSafe DEF CommitTreesInductive
<1> QED
  BY <1>3, <1>4, <1>5, ScanStays

\* The files are read.
LEMMA ReadingLeavesTrees ==
    ASSUME CommitTreesInductive, EndRead \/ \E p \in RunPaths : BeginRead(p)
    PROVE  CommitTreesInductive'
<1>1. /\ phase = "scanned" /\ IsTree(result) /\ late \in BOOLEAN
      /\ \A x \in DOMAIN upper : upper[x] \in Node
      /\ reading # None => reading.path \in ScannedFiles
  BY DEF BeginRead, EndRead, CommitTreesInductive, CommitInductive, ScanIsOfTheRun,
     WorkspaceCommitTypeOK
<1>2. CommitInductive'
  BY CommitStepHolds DEF CommitTreesInductive, CommitNext
<1>3. CASE \E x \in ScannedFiles : ~AsScanned(x) /\ Fail
  BY <1>1, <1>3, OnlyLateWritesFail
<1>4. CASE UNCHANGED <<base, result, upper, edits, phase, scan, left, late>>
  <2>1. CommitOutcome'
    BY <1>1, <1>4, NoEndYet
  <2> QED
    BY <1>1, <1>2, <1>4, <2>1, ScanStays
<1>5. ASSUME NEW p \in RunPaths, BeginRead(p) PROVE CommitTreesInductive'
  BY <1>3, <1>4, <1>5 DEF BeginRead
<1>6. CASE EndRead
  BY <1>1, <1>3, <1>4, <1>6 DEF EndRead
<1> QED
  BY <1>5, <1>6

\* The target is refused for a cause only.
LEMMA RefusalsHaveACause ==
    ASSUME CommitTreesInductive, phase = "scanned",
           ProjectedSoFar(Target, 0), Target.tree # Refused, PathTree(Target.tree) = left,
           \/ ~TimesAreValid(Target.tree) \/ ~ValidTarget(Target.tree)
           \/ ~SegmentTakes(CommitOperations(Target)),
           Fail
    PROVE  CommitTreesInductive'
<1> DEFINE ops == CommitOperations(Target)
<1>1. /\ phase' = "failed" /\ UNCHANGED <<base, result, upper, edits, scan, left, taken, late>>
      /\ IsTree(result) /\ late \in BOOLEAN /\ \A x \in DOMAIN upper : upper[x] \in Node
  BY DEF Fail, CommitTreesInductive, WorkspaceCommitTypeOK
<1>2. TimeBefore1970 \/ WholeTreeTooLarge \/ NameIsOdd \/ ChangeTooLong
  <2>1. CASE ~TimesAreValid(Target.tree)
    BY <2>1 DEF TimeBefore1970
  <2>2. CASE ~ValidTarget(Target.tree)
    BY <2>2 DEF ValidTarget, WholeTreeTooLarge
  <2>3. CASE ~SegmentTakes(ops)
    <3>1. /\ Len(ops) \in Nat /\ MaxOperations \in Nat
          /\ \A i \in DOMAIN ops : ops[i].kind = "create" =>
                \E p \in DOMAIN left : Last(p) = ops[i].name
      <4> DEFINE target == Target
      <4>1. /\ IsTree(base) /\ ProjectedSoFar(target, 0) /\ target.tree # Refused
            /\ ops = CommitOperations(target) /\ PathTree(target.tree) = left
        BY DEF CommitTreesInductive, WorkspaceCommitTypeOK
      <4> HIDE DEF target, ops
      <4> QED
        BY <4>1, CreatedNamesAreLeft, CommitAssumption
    <3> HIDE DEF ops
    <3>2. Len(ops) > MaxOperations \/ NameIsOdd
      BY <2>3, <3>1 DEF SegmentTakes, NameIsOdd
    <3> QED
      BY <3>2 DEF ChangeTooLong, ops
  <2> QED
    BY <2>1, <2>2, <2>3
<1>3. TimeBefore1970' \/ WholeTreeTooLarge' \/ NameIsOdd' \/ ChangeTooLong'
  BY <1>1, <1>2, CausesStay
<1>4. CommitOutcome'
  BY <1>1, <1>3 DEF CommitOutcome, EntriesKeepTheirIdentity, CommittedTreeIsWhatTheRunLeft,
     RefusedForCause
<1>5. CommitInductive'
  BY FailIsSafe DEF CommitTreesInductive
<1> QED
  BY <1>1, <1>4, <1>5, ScanStays

\* The target is published, as the Run left it, or refused for a cause.
LEMMA PublishingLeavesTrees ==
    ASSUME CommitTreesInductive, PublishTarget
    PROVE  CommitTreesInductive'
<1> DEFINE target == Target
           ops == CommitOperations(target)
           next == ApplySegment(base, ops)
<1>1. /\ phase = "scanned" /\ IsTree(base) /\ base \in BaseTrees /\ late \in BOOLEAN
      /\ \A x \in DOMAIN upper : upper[x] \in Node
      /\ Overlays(scan) /\ left = SeenPaths(scan) /\ MaterializedAsScanned /\ CommitInductive
  BY DEF PublishTarget, CommitTreesInductive, CommitInductive, OverlaysHold, WorkspaceCommitTypeOK
<1>2. ScannedWell
  <2>1. \A p \in DOMAIN taken : scan[p].kind = "file" /\ taken[p] \in Contents
    BY <1>1, TakenIsContent
  <2>2. DOMAIN taken \subseteq DOMAIN scan
    BY DEF PublishTarget, ScannedFiles
  <2> QED
    BY <1>1, <2>1, <2>2 DEF Overlays, ScannedWell
<1>3. /\ target.tree # Refused /\ ~Unexpected(target) /\ next # Refused /\ IsTree(next)
      /\ next = target.tree /\ PathTree(next) = SeenPaths(scan)
      /\ \A e \in KeptEntries : e \in DOMAIN next /\ PathOf(next, e) = PathOf(base, e)
  <2>1. next = ApplySegment(base, CommitOperations(Target))
    OBVIOUS
  <2>2. target = Target
    OBVIOUS
  <2> HIDE DEF next, target
  <2> QED
    BY <1>1, <1>2, <2>1, <2>2, PublishesWhatWasSeen
<1>4. CASE /\ Fail
           /\ ~TimesAreValid(target.tree) \/ ~ValidTarget(target.tree) \/ ~SegmentTakes(ops)
  <2> HIDE DEF next
  <2>1. ProjectedSoFar(Target, 0) /\ Target.tree # Refused /\ PathTree(Target.tree) = left
    BY <1>1, <1>2, <1>3, TargetShows
  <2> QED
    BY <1>1, <1>4, <2>1, RefusalsHaveACause
<1>5. CASE /\ result' = next /\ phase' \in {"unchanged", "published"}
           /\ UNCHANGED <<base, upper, edits, scan, left, reading, taken, late>>
  <2> HIDE DEF next, ops, target
  <2>1. CommitInductive'
    BY <1>1, PublishTargetIsSafe
  <2>2. EntriesKeepTheirIdentity'
    <3> SUFFICES ASSUME NEW e \in DOMAIN base \ {Root},
                        Untouched(PathOf(base, e), KindIn(base, e))
                 PROVE  e \in DOMAIN next /\ PathOf(next, e) = PathOf(base, e)
      BY <1>5 DEF EntriesKeepTheirIdentity, Untouched, KindIn
    <3>1. e \in KeptEntries
      BY DEF KeptEntries
    <3> QED
      BY <1>3, <3>1
  <2>3. CommittedTreeIsWhatTheRunLeft'
    BY <1>1, <1>3, <1>5 DEF CommittedTreeIsWhatTheRunLeft
  <2>4. CommitOutcome'
    BY <1>5, <2>2, <2>3 DEF CommitOutcome, RefusedForCause
  <2> QED
    BY <1>1, <1>3, <1>5, <2>1, <2>4, ScanStays
<1> QED
  BY <1>3, <1>4, <1>5 DEF PublishTarget

\* Every step keeps the inductive invariant.
LEMMA CommitTreesStepHolds ==
    CommitTreesInductive /\ [CommitNext]_commitVars => CommitTreesInductive'
<1> SUFFICES ASSUME CommitTreesInductive, [CommitNext]_commitVars PROVE CommitTreesInductive'
  OBVIOUS
<1>1. CASE UNCHANGED commitVars
  <2>1. RefusedForCause' <=> RefusedForCause
    BY <1>1, CausesStay DEF commitVars, RefusedForCause
  <2> QED
    BY <1>1, <2>1 DEF commitVars, CommitTreesInductive, WorkspaceCommitTypeOK, CommitInductive,
       UpperIsTheRuns, ScanIsOfTheRun, ScannedFiles, MaterializedAsScanned, OverlaysHold, Overlays,
       Through, AllPaths, SeenPaths, SeenOver, CommitOutcome, EntriesKeepTheirIdentity, Untouched,
       CommittedTreeIsWhatTheRunLeft
<1> QED
  BY <1>1, RunLeavesTrees, ScanLeavesTrees, LateWriteLeavesTrees, ReadingLeavesTrees,
     PublishingLeavesTrees DEF CommitNext

\* The inductive invariant of the commit, for every tree and Upper.
THEOREM CommitTreesInductiveHolds == CommitSpec => []CommitTreesInductive
BY CommitTreesInitHolds, CommitTreesStepHolds, PTL DEF CommitSpec

\* The published tree is, path by path, what the Run saw when it had stopped
\* (UpperScanner, TargetTreeProjector, planCommitOperations).
THEOREM CommittedTreeIsWhatTheRunLeftHolds == CommitSpec => []CommittedTreeIsWhatTheRunLeft
<1>1. CommitTreesInductive => CommittedTreeIsWhatTheRunLeft
  BY DEF CommitTreesInductive, CommitOutcome
<1> QED
  BY <1>1, CommitTreesInductiveHolds, PTL

\* A commit fails for a cause only: a late write, something in the Upper, or a
\* limit on the whole tree or on the change; nothing else overlayfs leaves is
\* refused by the projection, the plan or the segment.
THEOREM RefusedForCauseHolds == CommitSpec => []RefusedForCause
<1>1. CommitTreesInductive => RefusedForCause
  BY DEF CommitTreesInductive, CommitOutcome
<1> QED
  BY <1>1, CommitTreesInductiveHolds, PTL

-----------------------------------------------------------------------------
(* The two parts in one run.                                               *)

\* A step of the run is one of each part, or leaves its state as it was.
LEMMA TreesRunTheirParts == MCSpec => CommitSpec /\ ExchangeSpec
<1>1. MCInit => CommitInit /\ ExchangeInit
  BY DEF MCInit
<1>2. [MCNext /\ part' = part]_<<commitVars, exchangeVars, part>> => [CommitNext]_commitVars
  BY DEF MCNext
<1>3. [MCNext /\ part' = part]_<<commitVars, exchangeVars, part>> => [ExchangeNext]_exchangeVars
  BY DEF MCNext
<1> QED
  BY <1>1, <1>2, <1>3, PTL DEF MCSpec, CommitSpec, ExchangeSpec

\* The invariant of the run: every tree is one, a commit takes the bytes it
\* scanned, and what the Run did not replace keeps its id (TargetTreeProjector,
\* planCommitOperations, verifyStat).
THEOREM TreesInvariantHolds == MCSpec => []TreesInvariant
<1>1. CommitTreesInductive /\ ExchangeTypeOK => TreesInvariant
  BY DEF CommitTreesInductive, CommitInductive, CommitOutcome, TreesInvariant
<1> QED
  BY <1>1, TreesRunTheirParts, CommitTreesInductiveHolds, ExchangeTypeOKHolds, PTL
=============================================================================
