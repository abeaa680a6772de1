---------------------------- MODULE AccessProofs ----------------------------
(***************************************************************************)
(* Proofs about the registries that let an application at a file, and a    *)
(* page at an application: the file capabilities (FileCapabilities) and    *)
(* the resource sessions (ResourceSessions), both in one behaviour         *)
(* (MCAccess), the launches that open a file with an application           *)
(* (OpenResourceLaunches), and the tickets and session cookies of one that *)
(* runs in a container (BwaBrowserSessions).                               *)
(*                                                                         *)
(* The invariants are not inductive alone.  Of a request they need to know *)
(* that it carries what it stored, that the content it is about to replace *)
(* is the one it was made from unless the revision has moved on since, and *)
(* where the registry keeps it: CapabilitiesInductive, SessionsInductive.  *)
(***************************************************************************)
EXTENDS MCAccess, FiniteSetTheorems, TLAPS

-----------------------------------------------------------------------------
(* File capabilities: the registry.                                        *)

\* What holds of the three maps of the registry.
Registered(inst, hand, trans) ==
    /\ DOMAIN inst \subseteq Windows
    /\ DOMAIN hand \subseteq HandleIds
    /\ DOMAIN trans \subseteq TransferIds
    /\ \A w \in DOMAIN inst : inst[w] \in Nat
    /\ \A h \in DOMAIN hand : hand[h] \in Handle
    /\ \A t \in DOMAIN trans : trans[t] \in Transfer
    /\ \A h \in DOMAIN hand : hand[h].window \in DOMAIN inst
    /\ \A t \in DOMAIN trans : trans[t].window \in DOMAIN inst

\* The inductive invariant, clause by clause; the registry's part depends on its
\* three maps only.
LEMMA CapabilitiesParts ==
    /\ CapabilitiesInductive <=>
          /\ MainFilesTypeOK
          /\ Registered(instances, handles, transfers)
          /\ job \in [TransferIds -> Job \cup {None}]
          /\ ActiveTransferIsServed
          /\ JobsMatchTheRegistry
    /\ CapabilitiesInductive' <=>
          /\ MainFilesTypeOK'
          /\ Registered(instances', handles', transfers')
          /\ job' \in [TransferIds -> Job \cup {None}]
          /\ ActiveTransferIsServed'
          /\ JobsMatchTheRegistry'
BY DEF CapabilitiesInductive, CapabilitiesInvariant, CapabilitiesTypeOK,
   CredentialsBelongToAnOpenWindow, Registered

\* prune removes windows that have expired with all that was issued to them,
\* and nothing of a window that has not.
LEMMA PruneKeepsTheRegistry ==
    ASSUME Registered(instances, handles, transfers), clock \in Nat
    PROVE  /\ Registered(PrunedInstances, PrunedHandles, PrunedTransfers)
           /\ \A t \in DOMAIN PrunedTransfers :
                 t \in DOMAIN transfers /\ PrunedTransfers[t] = transfers[t]
           /\ \A w \in DOMAIN instances :
                 instances[w] > clock => w \in DOMAIN PrunedInstances
<1> DEFINE late == {h \in DOMAIN handles : \/ handles[h].expires <= clock
                                           \/ handles[h].window \in ExpiredWindows}
           gone == {t \in DOMAIN transfers :
                           \/ transfers[t].expires <= clock
                           \/ transfers[t].window \notin DOMAIN PrunedInstances
                           \/ transfers[t].handle \notin DOMAIN PrunedHandles}
<1>1. /\ DOMAIN PrunedInstances = DOMAIN instances \ ExpiredWindows
      /\ \A w \in DOMAIN PrunedInstances : PrunedInstances[w] = instances[w]
  BY DEF PrunedInstances, Drop, Restrict
<1>2. /\ DOMAIN PrunedHandles = DOMAIN handles \ late
      /\ \A h \in DOMAIN PrunedHandles : PrunedHandles[h] = handles[h]
  BY DEF PrunedHandles, Drop, Restrict
<1>3. /\ DOMAIN PrunedTransfers = DOMAIN transfers \ gone
      /\ \A t \in DOMAIN PrunedTransfers : PrunedTransfers[t] = transfers[t]
  BY DEF PrunedTransfers, Drop, Restrict
<1>4. \A w \in DOMAIN instances : instances[w] > clock => w \in DOMAIN PrunedInstances
  <2> SUFFICES ASSUME NEW w \in DOMAIN instances, instances[w] > clock, w \in ExpiredWindows
               PROVE  FALSE
    BY <1>1
  <2> QED  BY DEF ExpiredWindows, Registered
<1>5. \A h \in DOMAIN PrunedHandles : PrunedHandles[h].window \in DOMAIN PrunedInstances
  BY <1>1, <1>2 DEF Registered
<1>6. \A t \in DOMAIN PrunedTransfers : PrunedTransfers[t].window \in DOMAIN PrunedInstances
  BY <1>3
<1> HIDE DEF late, gone
<1> QED  BY <1>1, <1>2, <1>3, <1>4, <1>5, <1>6 DEF Registered

\* closeInstance leaves nothing of the window it closes.
LEMMA CloseKeepsTheRegistry ==
    ASSUME Registered(instances, handles, transfers), NEW w, Close(w)
    PROVE  /\ Registered(instances', handles', transfers')
           /\ \A t \in DOMAIN transfers' :
                 /\ t \in DOMAIN transfers
                 /\ transfers'[t] = transfers[t]
                 /\ transfers[t].window # w
<1>1. /\ DOMAIN instances' = DOMAIN instances \ {w}
      /\ \A v \in DOMAIN instances' : instances'[v] = instances[v]
  BY DEF Close, Drop, Restrict
<1>2. /\ DOMAIN handles' = DOMAIN handles \ {h \in DOMAIN handles : handles[h].window = w}
      /\ \A h \in DOMAIN handles' : handles'[h] = handles[h]
  BY DEF Close, Drop, Restrict
<1>3. /\ DOMAIN transfers' = DOMAIN transfers \ {t \in DOMAIN transfers : transfers[t].window = w}
      /\ \A t \in DOMAIN transfers' : transfers'[t] = transfers[t]
  BY DEF Close, Drop, Restrict
<1> QED  BY <1>1, <1>2, <1>3 DEF Registered

\* A step of the registry that only loses transfers, or leaves them alone, does
\* not disturb the requests that are served.
LEMMA LosingTransfersIsSafe ==
    ASSUME CapabilitiesInductive,
           Registered(instances', handles', transfers'),
           \A t \in DOMAIN transfers' : t \in DOMAIN transfers /\ transfers'[t] = transfers[t],
           UNCHANGED <<clock, content, revision, job>>
    PROVE  CapabilitiesInductive'
<1>1. MainFilesTypeOK' /\ job' \in [TransferIds -> Job \cup {None}]
  BY CapabilitiesParts DEF MainFilesTypeOK
<1>2. ActiveTransferIsServed'
  BY CapabilitiesParts DEF ActiveTransferIsServed, Serving
<1>3. JobsMatchTheRegistry'
  BY CapabilitiesParts DEF JobsMatchTheRegistry, Serving
<1> QED  BY <1>1, <1>2, <1>3, CapabilitiesParts

\* Nothing is issued at first.
LEMMA CapabilitiesInitHolds == CapabilitiesInit => CapabilitiesInductive
<1> SUFFICES ASSUME CapabilitiesInit PROVE CapabilitiesInductive
  OBVIOUS
<1>1. MainFilesTypeOK
  BY FilesAssumption DEF CapabilitiesInit, MainFilesInit, MainFilesTypeOK
<1>2. Registered(instances, handles, transfers)
  BY DEF CapabilitiesInit, Registered
<1>3. job = [t \in TransferIds |-> None]
  BY DEF CapabilitiesInit
<1>4. ActiveTransferIsServed
  BY DEF CapabilitiesInit, ActiveTransferIsServed
<1>5. JobsMatchTheRegistry
  BY <1>3 DEF JobsMatchTheRegistry, Serving
<1> QED  BY <1>1, <1>2, <1>3, <1>4, <1>5, CapabilitiesParts

\* Every call of the registry preserves the invariant.
LEMMA RegistryStepKeepsCapabilities ==
    ASSUME CapabilitiesInductive, RegistryStep
    PROVE  CapabilitiesInductive'
<1>0. Registered(instances, handles, transfers) /\ MainFilesTypeOK /\ clock \in Nat
  BY CapabilitiesParts, FilesAssumption DEF MainFilesTypeOK
<1>P. ASSUME instances' = PrunedInstances, handles' = PrunedHandles,
             transfers' = PrunedTransfers, UNCHANGED <<clock, content, revision, job>>
      PROVE  CapabilitiesInductive'
  BY <1>P, <1>0, PruneKeepsTheRegistry, LosingTransfersIsSafe
<1>1. ASSUME NEW w \in Windows, CreateInstance(w)
      PROVE  CapabilitiesInductive'
  <2>1. clock + InstanceTtl \in Nat
    BY <1>0, CapabilitiesAssumption, FilesAssumption DEF MainFilesTypeOK
  <2>2. Registered(instances', handles', transfers')
    <3>1. Registered(PrunedInstances, PrunedHandles, PrunedTransfers)
      BY <1>0, PruneKeepsTheRegistry
    <3>2. /\ DOMAIN instances' = DOMAIN PrunedInstances \cup {w}
          /\ instances'[w] = clock + InstanceTtl
          /\ \A v \in DOMAIN PrunedInstances : v # w => instances'[v] = PrunedInstances[v]
      BY <1>1 DEF CreateInstance, Bind
    <3>3. handles' = PrunedHandles /\ transfers' = PrunedTransfers
      BY <1>1 DEF CreateInstance
    <3> QED  BY <2>1, <3>1, <3>2, <3>3 DEF Registered
  <2>3. \A t \in DOMAIN transfers' : t \in DOMAIN transfers /\ transfers'[t] = transfers[t]
    BY <1>0, <1>1, PruneKeepsTheRegistry DEF CreateInstance
  <2> QED  BY <1>1, <2>2, <2>3, LosingTransfersIsSafe DEF CreateInstance
<1>2. ASSUME NEW w \in Windows, CloseInstance(w)
      PROVE  CapabilitiesInductive'
  BY <1>0, <1>2, CloseKeepsTheRegistry, LosingTransfersIsSafe DEF CloseInstance
<1>3. ASSUME NEW w \in Windows, NEW h \in HandleIds, NEW f \in Files,
             NEW pending \in BOOLEAN, NEW writable \in BOOLEAN,
             content[f] \in Contents \cup {Unborn}, NewHandle(w, h, f, pending, writable)
      PROVE  CapabilitiesInductive'
  <2> DEFINE new == [window |-> w, file |-> f, pending |-> pending, writable |-> writable,
                     base |-> content[f], expires |-> clock + HandleTtl]
  <2>1. clock + HandleTtl \in Nat
    BY <1>0, CapabilitiesAssumption, FilesAssumption DEF MainFilesTypeOK
  <2>2. new \in Handle /\ new.window = w
    BY <1>3, <2>1 DEF Handle
  <2>3. Registered(PrunedInstances, PrunedHandles, PrunedTransfers)
    BY <1>0, PruneKeepsTheRegistry
  <2>4. w \in DOMAIN PrunedInstances
    BY <1>0, <1>3, PruneKeepsTheRegistry DEF NewHandle, OpenWindow
  <2>5. /\ handles' = Bind(PrunedHandles, h, new)
        /\ instances' = PrunedInstances /\ transfers' = PrunedTransfers
    BY <1>3 DEF NewHandle
  <2> HIDE DEF new
  <2>6. /\ DOMAIN handles' = DOMAIN PrunedHandles \cup {h}
        /\ handles'[h] = new
        /\ \A g \in DOMAIN PrunedHandles : g # h => handles'[g] = PrunedHandles[g]
    BY <2>5 DEF Bind
  <2>7. Registered(instances', handles', transfers')
    BY <2>2, <2>3, <2>4, <2>5, <2>6 DEF Registered
  <2> QED
    BY <1>0, <1>3, <2>5, <2>7, PruneKeepsTheRegistry, LosingTransfersIsSafe DEF NewHandle
<1>4. ASSUME NEW h \in HandleIds, ReleaseHandle(h)
      PROVE  CapabilitiesInductive'
  <2>1. /\ DOMAIN handles' = DOMAIN handles \ {h}
        /\ \A g \in DOMAIN handles' : handles'[g] = handles[g]
    BY <1>4 DEF ReleaseHandle, Drop, Restrict
  <2>2. /\ DOMAIN transfers' = DOMAIN transfers \ {t \in DOMAIN transfers : transfers[t].handle = h}
        /\ \A t \in DOMAIN transfers' : transfers'[t] = transfers[t]
    BY <1>4 DEF ReleaseHandle, Drop, Restrict
  <2>3. UNCHANGED <<clock, content, revision, instances, job>>
    BY <1>4 DEF ReleaseHandle
  <2>4. Registered(instances', handles', transfers')
    BY <1>0, <2>1, <2>2, <2>3 DEF Registered
  <2> QED  BY <2>2, <2>3, <2>4, LosingTransfersIsSafe
<1>5. ASSUME NEW h \in HandleIds, DropExpiredHandle(h)
      PROVE  CapabilitiesInductive'
  <2>1. /\ DOMAIN handles' = DOMAIN handles \ {h}
        /\ \A g \in DOMAIN handles' : handles'[g] = handles[g]
    BY <1>5 DEF DropExpiredHandle, Drop, Restrict
  <2>2. UNCHANGED <<clock, content, revision, instances, transfers, job>>
    BY <1>5 DEF DropExpiredHandle
  <2>3. Registered(instances', handles', transfers')
    BY <1>0, <2>1, <2>2 DEF Registered
  <2> QED  BY <2>2, <2>3, LosingTransfersIsSafe
<1>6. ASSUME NEW h \in HandleIds, NEW t \in TransferIds, NEW m \in {"GET", "PUT"},
             IssueTransfer(h, t, m)
      PROVE  CapabilitiesInductive'
  <2> DEFINE new == [window |-> handles[h].window, handle |-> h, method |-> m,
                     expires |-> clock + TransferTtl, active |-> FALSE]
  <2>1. clock + TransferTtl \in Nat
    BY <1>0, CapabilitiesAssumption, FilesAssumption DEF MainFilesTypeOK
  <2>2. h \in DOMAIN handles /\ OpenWindow(handles[h].window)
    BY <1>6 DEF IssueTransfer, ValidHandle
  <2>3. handles[h].window \in Windows
    BY <1>0, <2>2 DEF Registered, Handle
  <2>4. new \in Transfer /\ new.window = handles[h].window /\ new.active = FALSE
    BY <1>6, <2>1, <2>3 DEF Transfer
  <2>5. Registered(PrunedInstances, PrunedHandles, PrunedTransfers)
    BY <1>0, PruneKeepsTheRegistry
  <2>6. handles[h].window \in DOMAIN PrunedInstances
    BY <1>0, <2>2, PruneKeepsTheRegistry DEF OpenWindow
  <2>7. /\ transfers' = Bind(PrunedTransfers, t, new)
        /\ instances' = PrunedInstances /\ handles' = PrunedHandles
        /\ t \notin DOMAIN transfers /\ job[t] = None
        /\ UNCHANGED <<clock, content, revision, job>>
    BY <1>6 DEF IssueTransfer
  <2> HIDE DEF new
  <2>8. /\ DOMAIN transfers' = DOMAIN PrunedTransfers \cup {t}
        /\ transfers'[t] = new
        /\ \A s \in DOMAIN PrunedTransfers : s # t => transfers'[s] = PrunedTransfers[s]
    BY <2>7 DEF Bind
  <2>9. Registered(instances', handles', transfers')
    BY <2>4, <2>5, <2>6, <2>7, <2>8 DEF Registered
  <2>10. \A s \in DOMAIN transfers' :
            s # t => s \in DOMAIN transfers /\ transfers'[s] = transfers[s]
    BY <1>0, <2>8, PruneKeepsTheRegistry
  <2>11. MainFilesTypeOK' /\ job' \in [TransferIds -> Job \cup {None}]
    BY <2>7, CapabilitiesParts DEF MainFilesTypeOK
  <2>12. ActiveTransferIsServed'
    BY <2>4, <2>7, <2>8, <2>10, CapabilitiesParts DEF ActiveTransferIsServed, Serving
  <2>13. JobsMatchTheRegistry'
    BY <2>7, <2>10, CapabilitiesParts DEF JobsMatchTheRegistry, Serving
  <2> QED  BY <2>9, <2>11, <2>12, <2>13, CapabilitiesParts
<1>7. ASSUME NEW t \in TransferIds, DropExpiredTransfer(t)
      PROVE  CapabilitiesInductive'
  <2>1. UNCHANGED <<clock, content, revision, job>>
    BY <1>7 DEF DropExpiredTransfer
  <2>2. CASE transfers' = Drop(transfers, {t}) /\ UNCHANGED <<instances, handles>>
    <3>1. /\ DOMAIN transfers' = DOMAIN transfers \ {t}
          /\ \A s \in DOMAIN transfers' : transfers'[s] = transfers[s]
      BY <2>2 DEF Drop, Restrict
    <3>2. Registered(instances', handles', transfers')
      BY <1>0, <2>2, <3>1 DEF Registered
    <3> QED  BY <2>1, <3>1, <3>2, LosingTransfersIsSafe
  <2>3. CASE /\ instances' = PrunedInstances /\ handles' = PrunedHandles
             /\ transfers' = PrunedTransfers
    BY <1>P, <2>1, <2>3
  <2> QED  BY <1>7, <2>2, <2>3 DEF DropExpiredTransfer
<1>8. CASE PruneAtLimit
  BY <1>8, <1>P DEF PruneAtLimit
<1>9. ASSUME NEW w \in Windows, NEW h \in HandleIds, NEW f \in Files,
             \/ \E writable \in BOOLEAN : IssueHandle(w, h, f, writable)
             \/ IssueSaveHandle(w, h, f)
      PROVE  CapabilitiesInductive'
  BY <1>3, <1>9 DEF IssueHandle, IssueSaveHandle, Exists
<1> QED
  BY <1>1, <1>2, <1>4, <1>5, <1>6, <1>7, <1>8, <1>9 DEF RegistryStep

-----------------------------------------------------------------------------
(* File capabilities: serving a transfer.                                  *)

\* The fields of every request have their types.
JobOfType ==
    \A t \in TransferIds : Serving(t) =>
        /\ job[t] \in Job
        /\ job[t].window \in Windows /\ job[t].handle \in HandleIds /\ job[t].file \in Files
        /\ job[t].phase \in Phase /\ job[t].loaded \in 0..MaxRevision
        /\ job[t].new \in Contents \cup {None}

\* The fields of a request have their types.
LEMMA ServedJobs ==
    ASSUME CapabilitiesInductive
    PROVE  JobOfType
<1> SUFFICES ASSUME NEW t \in TransferIds, Serving(t)
             PROVE  /\ job[t] \in Job
                    /\ job[t].window \in Windows /\ job[t].handle \in HandleIds
                    /\ job[t].file \in Files
                    /\ job[t].phase \in Phase /\ job[t].loaded \in 0..MaxRevision
                    /\ job[t].new \in Contents \cup {None}
  BY DEF JobOfType
<1>1. job[t] \in Job
  BY CapabilitiesParts DEF Serving
<1> QED  BY <1>1 DEF Job

\* A request that leaves takes its token along: finishTransfer.
LEMMA FinishingIsSafe ==
    ASSUME CapabilitiesInductive, NEW t \in TransferIds, FinishTransfer(t),
           UNCHANGED <<content, revision>>,
           DOMAIN handles' = DOMAIN handles,
           \A h \in DOMAIN handles : handles'[h] \in Handle /\ handles'[h].window = handles[h].window
    PROVE  CapabilitiesInductive'
<1>1. /\ job' = [job EXCEPT ![t] = None] /\ job'[t] = None
      /\ \A s \in TransferIds : s # t => job'[s] = job[s]
      /\ UNCHANGED <<clock, instances>>
  BY CapabilitiesParts DEF FinishTransfer
<1>2. /\ DOMAIN transfers' = DOMAIN transfers \ {t}
      /\ \A s \in DOMAIN transfers' : transfers'[s] = transfers[s]
  BY DEF FinishTransfer, Drop, Restrict
<1>3. MainFilesTypeOK' /\ job' \in [TransferIds -> Job \cup {None}]
  BY <1>1, CapabilitiesParts DEF MainFilesTypeOK
<1>4. Registered(instances', handles', transfers')
  BY <1>1, <1>2, CapabilitiesParts DEF Registered
<1>5. ActiveTransferIsServed'
  BY <1>1, <1>2, CapabilitiesParts DEF ActiveTransferIsServed, Serving, Registered
<1>6. JobsMatchTheRegistry'
  BY <1>1, <1>2, CapabilitiesParts DEF JobsMatchTheRegistry, Serving
<1> QED  BY <1>3, <1>4, <1>5, <1>6, CapabilitiesParts

\* So does one that fails, on whatever path.
LEMMA FailingIsSafe ==
    ASSUME CapabilitiesInductive, NEW t \in TransferIds, FailTransfer(t)
    PROVE  CapabilitiesInductive'
<1>1. UNCHANGED <<content, revision, handles>> /\ FinishTransfer(t)
  BY DEF FailTransfer
<1>2. \A h \in DOMAIN handles : handles[h] \in Handle
  BY CapabilitiesParts DEF Registered
<1> QED  BY <1>1, <1>2, FinishingIsSafe

\* A request goes on to its next step, and nothing else changes.
LEMMA AdvancingIsSafe ==
    ASSUME CapabilitiesInductive, NEW t \in TransferIds, Serving(t), NEW j \in Job,
           job' = [job EXCEPT ![t] = j],
           UNCHANGED <<clock, content, revision, instances, handles, transfers>>,
           j.window = job[t].window,
           j.phase \in {"stored", "loaded", "published"} => j.new \in Contents,
           j.phase = "loaded" =>
              /\ j.loaded <= revision
              /\ j.loaded = revision => content[j.file] = j.base
    PROVE  CapabilitiesInductive'
<1>1. job'[t] = j /\ \A s \in TransferIds : s # t => job'[s] = job[s]
  BY CapabilitiesParts
<1>2. MainFilesTypeOK' /\ job' \in [TransferIds -> Job \cup {None}]
  BY CapabilitiesParts DEF MainFilesTypeOK
<1>3. Registered(instances', handles', transfers')
  BY CapabilitiesParts
<1>4. j # None
  BY NoneIsNoJob
<1>5. ActiveTransferIsServed'
  BY <1>1, <1>4, CapabilitiesParts DEF ActiveTransferIsServed, Serving, Registered
<1>6. JobsMatchTheRegistry'
  BY <1>1, CapabilitiesParts DEF JobsMatchTheRegistry, Serving
<1> QED  BY <1>2, <1>3, <1>5, <1>6, CapabilitiesParts

\* Every step of serving a transfer preserves the invariant.
LEMMA ServingKeepsCapabilities ==
    ASSUME CapabilitiesInductive, NEW t \in TransferIds, ServeTransfer(t)
    PROVE  CapabilitiesInductive'
<1>0. /\ MainFilesTypeOK /\ clock \in Nat /\ revision \in Nat
      /\ Registered(instances, handles, transfers)
      /\ job \in [TransferIds -> Job \cup {None}]
  BY CapabilitiesParts, FilesAssumption DEF MainFilesTypeOK
<1>T. Serving(t) => /\ job[t] \in Job
                    /\ job[t].window \in Windows /\ job[t].handle \in HandleIds
                    /\ job[t].file \in Files
                    /\ job[t].phase \in Phase /\ job[t].loaded \in 0..MaxRevision
                    /\ job[t].new \in Contents \cup {None}
  BY ServedJobs DEF JobOfType
<1>A. ASSUME NEW p \in Phase, Serving(t), AdvanceTransfer(t, p), p \in {"upload", "streaming"}
      PROVE  CapabilitiesInductive'
  <2> DEFINE j == [job[t] EXCEPT !.phase = p]
  <2>1. j \in Job /\ j.window = job[t].window /\ j.phase = p
    BY <1>A, <1>T DEF Job
  <2>2. job' = [job EXCEPT ![t] = j]
    BY <1>A, <1>0 DEF AdvanceTransfer
  <2> HIDE DEF j
  <2> QED  BY <1>A, <2>1, <2>2, AdvancingIsSafe DEF AdvanceTransfer
<1>1. CASE BeginTransfer(t)
  <2> DEFINE x == transfers[t]
             h == handles[x.handle]
             j == [window |-> x.window, handle |-> x.handle, file |-> h.file,
                   pending |-> h.pending, base |-> h.base, put |-> x.method = "PUT",
                   phase |-> IF h.pending THEN "upload" ELSE "check",
                   loaded |-> 0, new |-> None]
  <2>1. t \in DOMAIN transfers /\ x.handle \in DOMAIN handles
    BY <1>1 DEF BeginTransfer, ValidHandle
  <2>2. x \in Transfer /\ h \in Handle
    BY <1>0, <2>1 DEF Registered
  <2>3. /\ x.window \in Windows /\ x.handle \in HandleIds /\ h.file \in Files
        /\ h.pending \in BOOLEAN /\ h.base \in Contents \cup {Unborn}
    BY <2>2 DEF Transfer, Handle
  <2>4. 0 \in 0..MaxRevision /\ (x.method = "PUT") \in BOOLEAN
    BY FilesAssumption
  <2>5. j \in Job /\ j.window = x.window /\ j.phase \in {"upload", "check"}
    BY <2>3, <2>4 DEF Job, Phase
  <2>6. /\ job' = [job EXCEPT ![t] = j]
        /\ transfers' = [transfers EXCEPT ![t].active = TRUE]
        /\ UNCHANGED <<clock, content, revision, instances, handles>>
    BY <1>1 DEF BeginTransfer
  <2> HIDE DEF h, j
  <2>7. /\ DOMAIN transfers' = DOMAIN transfers
        /\ \A s \in DOMAIN transfers : /\ s # t => transfers'[s] = transfers[s]
                                       /\ transfers'[s].window = transfers[s].window
                                       /\ transfers'[s] \in Transfer
    <3>1. DOMAIN transfers' = DOMAIN transfers /\ transfers'[t] = [x EXCEPT !.active = TRUE]
      BY <2>1, <2>6
    <3>2. transfers'[t] \in Transfer /\ transfers'[t].window = x.window
      BY <2>2, <3>1 DEF Transfer
    <3>3. \A s \in DOMAIN transfers : s # t => transfers'[s] = transfers[s]
      BY <2>6
    <3> QED  BY <1>0, <3>1, <3>2, <3>3 DEF Registered
  <2>8. job'[t] = j /\ \A s \in TransferIds : s # t => job'[s] = job[s]
    BY <1>0, <2>6
  <2>9. MainFilesTypeOK' /\ job' \in [TransferIds -> Job \cup {None}]
    BY <1>0, <2>5, <2>6 DEF MainFilesTypeOK
  <2>10. Registered(instances', handles', transfers')
    BY <1>0, <2>6, <2>7 DEF Registered
  <2>11. ActiveTransferIsServed'
    <3>1. j # None
      BY <2>5, NoneIsNoJob
    <3> QED
      BY <1>0, <2>7, <2>8, <3>1, CapabilitiesParts DEF ActiveTransferIsServed, Serving, Registered
  <2>12. JobsMatchTheRegistry'
    <3> SUFFICES ASSUME NEW s \in TransferIds, job'[s] # None
                 PROVE  /\ job'[s].phase \in {"stored", "loaded", "published"}
                              => job'[s].new \in Contents
                        /\ job'[s].phase = "loaded" =>
                              /\ job'[s].loaded <= revision'
                              /\ job'[s].loaded = revision' => content'[job'[s].file] = job'[s].base
                        /\ s \in DOMAIN transfers' => transfers'[s].window = job'[s].window
      BY DEF JobsMatchTheRegistry, Serving
    <3>1. CASE s = t
      BY <3>1, <2>5, <2>7, <2>8
    <3>2. CASE s # t
      BY <3>2, <2>6, <2>7, <2>8, CapabilitiesParts DEF JobsMatchTheRegistry, Serving
    <3> QED  BY <3>1, <3>2
  <2> QED  BY <2>9, <2>10, <2>11, <2>12, CapabilitiesParts
<1>2. CASE CheckCurrentHandle(t)
  <2>1. \/ \E p \in {"upload", "streaming"} : AdvanceTransfer(t, p)
        \/ FailTransfer(t)
    BY <1>2 DEF CheckCurrentHandle
  <2> QED  BY <1>2, <1>A, <2>1, FailingIsSafe DEF CheckCurrentHandle, Phase
<1>3. CASE StoreUpload(t)
  <2>1. ASSUME NEW c \in Contents, job' = [job EXCEPT ![t].phase = "stored", ![t].new = c],
               UNCHANGED <<clock, content, revision, instances, handles, transfers>>
        PROVE  CapabilitiesInductive'
    <3> DEFINE j == [job[t] EXCEPT !.phase = "stored", !.new = c]
    <3>1. Serving(t)
      BY <1>3 DEF StoreUpload
    <3>2. j \in Job /\ j.window = job[t].window /\ j.phase = "stored" /\ j.new = c
      BY <1>T, <3>1 DEF Job, Phase
    <3>3. job' = [job EXCEPT ![t] = j]
      BY <1>0, <2>1
    <3> HIDE DEF j
    <3> QED  BY <2>1, <3>1, <3>2, <3>3, AdvancingIsSafe
  <2> QED  BY <1>3, <2>1, FailingIsSafe DEF StoreUpload
<1>4. CASE StreamBody(t)
  <2>1. FailTransfer(t)
    BY <1>4 DEF StreamBody, FailTransfer
  <2> QED  BY <2>1, FailingIsSafe
<1>5. CASE LoadForTransfer(t)
  <2>1. ASSUME Applies(job[t].file, job[t].base),
               job' = [job EXCEPT ![t].phase = "loaded", ![t].loaded = revision],
               UNCHANGED <<clock, content, revision, instances, handles, transfers>>
        PROVE  CapabilitiesInductive'
    <3> DEFINE j == [job[t] EXCEPT !.phase = "loaded", !.loaded = revision]
    <3>1. Serving(t) /\ job[t].new \in Contents
      BY <1>5, CapabilitiesParts DEF LoadForTransfer, JobsMatchTheRegistry
    <3>2. /\ j \in Job /\ j.window = job[t].window /\ j.phase = "loaded" /\ j.loaded = revision
          /\ j.new = job[t].new /\ j.file = job[t].file /\ j.base = job[t].base
      BY <1>0, <1>T, <3>1 DEF Job, Phase, MainFilesTypeOK
    <3>3. job' = [job EXCEPT ![t] = j]
      BY <1>0, <2>1
    <3> HIDE DEF j
    <3>4. j.loaded <= revision /\ content[j.file] = j.base
      BY <1>0, <2>1, <3>2 DEF Applies
    <3> QED  BY <2>1, <3>1, <3>2, <3>3, <3>4, AdvancingIsSafe
  <2> QED  BY <1>5, <2>1, FailingIsSafe DEF LoadForTransfer
<1>6. CASE PublishFile(t)
  <2>1. ASSUME Publish(job[t].file, job[t].new, job[t].loaded),
               job' = [job EXCEPT ![t].phase = "published"],
               UNCHANGED <<clock, instances, handles, transfers>>
        PROVE  CapabilitiesInductive'
    <3> DEFINE j == [job[t] EXCEPT !.phase = "published"]
    <3>1. Serving(t) /\ job[t].new \in Contents
      BY <1>6, CapabilitiesParts DEF PublishFile, JobsMatchTheRegistry
    <3>2. /\ j \in Job /\ j.window = job[t].window /\ j.phase = "published"
          /\ j.new = job[t].new
      BY <1>T, <3>1 DEF Job, Phase
    <3>3. job' = [job EXCEPT ![t] = j]
      BY <1>0, <2>1
    <3> HIDE DEF j
    <3>4. job'[t] = j /\ j # None /\ \A s \in TransferIds : s # t => job'[s] = job[s]
      BY <1>0, <3>2, <3>3, NoneIsNoJob
    <3>5. /\ content' = [content EXCEPT ![job[t].file] = job[t].new]
          /\ revision' = revision + 1 /\ revision < MaxRevision
      BY <2>1 DEF Publish
    <3>6. MainFilesTypeOK' /\ job' \in [TransferIds -> Job \cup {None}]
      BY <1>0, <1>T, <2>1, <3>1, <3>2, <3>3, <3>5, FilesAssumption DEF MainFilesTypeOK
    <3>7. Registered(instances', handles', transfers')
      BY <1>0, <2>1
    <3>8. ActiveTransferIsServed'
      BY <1>0, <2>1, <3>4, CapabilitiesParts DEF ActiveTransferIsServed, Serving, Registered
    <3>9. JobsMatchTheRegistry'
      <4> SUFFICES ASSUME NEW s \in TransferIds, job'[s] # None
                   PROVE  /\ job'[s].phase \in {"stored", "loaded", "published"}
                                => job'[s].new \in Contents
                          /\ job'[s].phase = "loaded" =>
                                /\ job'[s].loaded <= revision'
                                /\ job'[s].loaded = revision' => content'[job'[s].file] = job'[s].base
                          /\ s \in DOMAIN transfers' => transfers'[s].window = job'[s].window
        BY DEF JobsMatchTheRegistry, Serving
      <4>1. CASE s = t
        BY <4>1, <2>1, <3>1, <3>2, <3>4, CapabilitiesParts DEF JobsMatchTheRegistry
      <4>2. CASE s # t
        <5>1. Serving(s) /\ job'[s] = job[s]
          BY <3>4, <4>2 DEF Serving
        <5>2. job[s].loaded \in Nat
          BY <5>1, ServedJobs, FilesAssumption DEF JobOfType
        <5>3. job[s].phase = "loaded" => job[s].loaded <= revision
          BY <5>1, CapabilitiesParts DEF JobsMatchTheRegistry
        <5>4. /\ job[s].phase = "loaded" => job[s].loaded <= revision'
              /\ job[s].phase = "loaded" => job[s].loaded # revision'
          BY <1>0, <3>5, <5>2, <5>3
        <5> QED  BY <2>1, <5>1, <5>4, CapabilitiesParts DEF JobsMatchTheRegistry
      <4> QED  BY <4>1, <4>2
    <3> QED  BY <3>6, <3>7, <3>8, <3>9, CapabilitiesParts
  <2> QED  BY <1>6, <2>1, FailingIsSafe DEF PublishFile
<1>7. CASE ReadBack(t)
  <2> DEFINE j == job[t]
  <2>0. Serving(t) /\ UNCHANGED <<clock, content, revision>>
    BY <1>7 DEF ReadBack
  <2>T. j.window \in Windows /\ j.handle \in HandleIds /\ j.file \in Files
    BY <1>T, <2>0
  <2>1. ASSUME FinishTransfer(t), StillThere(j.file), j.handle \in DOMAIN handles,
               handles' = [handles EXCEPT ![j.handle].pending = FALSE,
                                          ![j.handle].base = content[j.file]]
        PROVE  CapabilitiesInductive'
    <3>1. handles[j.handle] \in Handle
      BY <1>0, <2>1 DEF Registered
    <3>2. content[j.file] \in Contents
      BY <2>1 DEF StillThere, Exists
    <3>3. /\ DOMAIN handles' = DOMAIN handles
          /\ handles'[j.handle] = [handles[j.handle] EXCEPT !.pending = FALSE,
                                                            !.base = content[j.file]]
          /\ \A h \in DOMAIN handles : h # j.handle => handles'[h] = handles[h]
      BY <2>1
    <3>4. /\ handles'[j.handle] \in Handle
          /\ handles'[j.handle].window = handles[j.handle].window
      BY <3>1, <3>2, <3>3 DEF Handle
    <3>5. \A h \in DOMAIN handles :
             handles'[h] \in Handle /\ handles'[h].window = handles[h].window
      BY <1>0, <3>3, <3>4 DEF Registered
    <3> QED  BY <2>0, <2>1, <3>3, <3>5, FinishingIsSafe
  <2>2. ASSUME FinishTransfer(t), UNCHANGED handles
        PROVE  CapabilitiesInductive'
    BY <2>0, <2>2, FailingIsSafe DEF FailTransfer
  <2>3. ASSUME Close(j.window), job' = [job EXCEPT ![t] = None]
        PROVE  CapabilitiesInductive'
    <3>1. /\ Registered(instances', handles', transfers')
          /\ \A s \in DOMAIN transfers' : /\ s \in DOMAIN transfers
                                          /\ transfers'[s] = transfers[s]
                                          /\ transfers[s].window # j.window
      BY <1>0, <2>3, CloseKeepsTheRegistry
    <3>2. t \notin DOMAIN transfers'
      BY <2>0, <3>1, CapabilitiesParts DEF JobsMatchTheRegistry
    <3>3. job'[t] = None /\ \A s \in TransferIds : s # t => job'[s] = job[s]
      BY <1>0, <2>3
    <3>4. MainFilesTypeOK' /\ job' \in [TransferIds -> Job \cup {None}]
      BY <1>0, <2>0, <2>3 DEF MainFilesTypeOK
    <3>5. ActiveTransferIsServed'
      BY <1>0, <3>1, <3>2, <3>3, CapabilitiesParts DEF ActiveTransferIsServed, Serving, Registered
    <3>6. JobsMatchTheRegistry'
      BY <2>0, <3>1, <3>3, CapabilitiesParts DEF JobsMatchTheRegistry, Serving
    <3> QED  BY <3>1, <3>4, <3>5, <3>6, CapabilitiesParts
  <2>4. \/ FinishTransfer(t) /\ UNCHANGED handles
        \/ Close(j.window) /\ job' = [job EXCEPT ![t] = None]
        \/ /\ FinishTransfer(t) /\ StillThere(j.file) /\ j.handle \in DOMAIN handles
           /\ handles' = [handles EXCEPT ![j.handle].pending = FALSE,
                                         ![j.handle].base = content[j.file]]
    <3> HIDE DEF CapabilitiesInductive
    <3> QED  BY <1>7 DEF ReadBack
  <2> QED  BY <2>1, <2>2, <2>3, <2>4
<1> QED  BY <1>1, <1>2, <1>3, <1>4, <1>5, <1>6, <1>7 DEF ServeTransfer

\* A commit by any other client of the main Workspace moves its revision on.
LEMMA OtherCommitFacts ==
    ASSUME MainFilesTypeOK, OtherCommit
    PROVE  /\ MainFilesTypeOK' /\ revision' = revision + 1 /\ clock' = clock
           /\ revision \in Nat
<1>1. revision \in Nat /\ revision < MaxRevision /\ revision' = revision + 1 /\ clock' = clock
  BY FilesAssumption DEF MainFilesTypeOK, OtherCommit
<1>2. revision' \in 0..MaxRevision
  BY <1>1, FilesAssumption
<1>3. PICK f \in Files, new \in Contents \cup {Gone} : content' = [content EXCEPT ![f] = new]
  BY DEF OtherCommit
<1> QED  BY <1>1, <1>2, <1>3 DEF MainFilesTypeOK

\* The clock does not touch the files.
LEMMA TickFacts ==
    ASSUME MainFilesTypeOK, Tick
    PROVE  MainFilesTypeOK' /\ UNCHANGED <<content, revision>>
BY FilesAssumption DEF MainFilesTypeOK, Tick

\* Neither the clock nor another client disturbs a request: whoever publishes
\* in between, the revision the request loaded is a revision of the past.
LEMMA OthersKeepCapabilities ==
    ASSUME CapabilitiesInductive, Tick \/ OtherCommit, UNCHANGED <<registry, job>>
    PROVE  CapabilitiesInductive'
<1>1. MainFilesTypeOK' /\ (UNCHANGED <<content, revision>> \/ revision' = revision + 1)
  BY CapabilitiesParts, OtherCommitFacts, TickFacts
<1>2. UNCHANGED <<instances, handles, transfers, job>> /\ revision \in Nat
  BY CapabilitiesParts, FilesAssumption DEF registry, MainFilesTypeOK
<1>3. JobsMatchTheRegistry'
  <2> SUFFICES ASSUME NEW t \in TransferIds, Serving(t)
               PROVE  /\ job[t].phase \in {"stored", "loaded", "published"} => job[t].new \in Contents
                      /\ job[t].phase = "loaded" =>
                            /\ job[t].loaded <= revision'
                            /\ job[t].loaded = revision' => content'[job[t].file] = job[t].base
                      /\ t \in DOMAIN transfers => transfers[t].window = job[t].window
    BY <1>2 DEF JobsMatchTheRegistry, Serving
  <2>1. job[t].loaded \in Nat
    BY ServedJobs, FilesAssumption DEF JobOfType
  <2> QED  BY <1>1, <1>2, <2>1, CapabilitiesParts DEF JobsMatchTheRegistry
<1> QED
  BY <1>1, <1>2, <1>3, CapabilitiesParts DEF ActiveTransferIsServed, Serving, Registered

\* A step of somebody else leaves the invariant as it is.
LEMMA StutteringKeepsCapabilities ==
    ASSUME CapabilitiesInductive, UNCHANGED capsVars
    PROVE  CapabilitiesInductive'
<1>1. UNCHANGED <<clock, content, revision, instances, handles, transfers, job>>
  BY DEF capsVars
<1> QED
  BY <1>1, CapabilitiesParts DEF MainFilesTypeOK, Registered, ActiveTransferIsServed,
     JobsMatchTheRegistry, Serving

\* The invariant is inductive.
LEMMA CapabilitiesNextPreserves ==
    CapabilitiesInductive /\ [CapabilitiesNext]_capsVars => CapabilitiesInductive'
<1> SUFFICES ASSUME CapabilitiesInductive, [CapabilitiesNext]_capsVars
             PROVE  CapabilitiesInductive'
  OBVIOUS
<1> QED
  BY RegistryStepKeepsCapabilities, ServingKeepsCapabilities, OthersKeepCapabilities,
     StutteringKeepsCapabilities DEF CapabilitiesNext

\* In every state of the file capabilities, for any number of windows, handles
\* and requests, an entry of the registry belongs to an open window, and one that
\* is marked as in use to a request that will finish it.
THEOREM CapabilitiesInvariantHolds == CapabilitiesSpec => []CapabilitiesInvariant
<1>1. CapabilitiesInductive => CapabilitiesInvariant
  BY DEF CapabilitiesInductive
<1> QED
  BY <1>1, CapabilitiesInitHolds, CapabilitiesNextPreserves, PTL DEF CapabilitiesSpec

\* The step of NoBlindOverwrite.
PublishesOverBase ==
    \A t \in TransferIds :
       (Serving(t) /\ job[t].phase = "loaded" /\ job'[t] # None /\ job'[t].phase = "published")
          => content[job[t].file] = job[t].base

\* The step that publishes is the request's own, and it compares the revision.
LEMMA PublishingReplacesTheBase ==
    ASSUME CapabilitiesInductive, CapabilitiesNext
    PROVE  PublishesOverBase
<1> SUFFICES ASSUME NEW t \in TransferIds, Serving(t), job[t].phase = "loaded",
                    job'[t] # None, job'[t].phase = "published"
             PROVE  content[job[t].file] = job[t].base
  BY DEF PublishesOverBase
<1>0. job \in [TransferIds -> Job \cup {None}]
  BY CapabilitiesParts
<1>1. ASSUME UNCHANGED job PROVE FALSE
  BY <1>1
<1>2. CASE RegistryStep
  <2>1. UNCHANGED job
    BY <1>2 DEF RegistryStep, CreateInstance, CloseInstance, IssueHandle, IssueSaveHandle,
       NewHandle, ReleaseHandle, DropExpiredHandle, IssueTransfer, DropExpiredTransfer, PruneAtLimit
  <2> QED  BY <1>1, <2>1
<1>3. ASSUME NEW s \in TransferIds, ServeTransfer(s), s # t
      PROVE  FALSE
  <2>1. \E j : job' = [job EXCEPT ![s] = j]
    <3>1. ASSUME NEW p, job' = [job EXCEPT ![s].phase = p]
          PROVE  job' = [job EXCEPT ![s] = [job[s] EXCEPT !.phase = p]]
      BY <1>0, <3>1
    <3>2. ASSUME NEW c, job' = [job EXCEPT ![s].phase = "stored", ![s].new = c]
          PROVE  job' = [job EXCEPT ![s] = [job[s] EXCEPT !.phase = "stored", !.new = c]]
      BY <1>0, <3>2
    <3>3. ASSUME NEW c, job' = [job EXCEPT ![s].phase = "loaded", ![s].loaded = c]
          PROVE  job' = [job EXCEPT ![s] = [job[s] EXCEPT !.phase = "loaded", !.loaded = c]]
      BY <1>0, <3>3
    <3> QED
      BY <1>3, <3>1, <3>2, <3>3
      DEF ServeTransfer, BeginTransfer, CheckCurrentHandle, StoreUpload, StreamBody,
          LoadForTransfer, PublishFile, ReadBack, FailTransfer, FinishTransfer, AdvanceTransfer
  <2>2. job'[t] = job[t]
    BY <1>0, <1>3, <2>1
  <2> QED  BY <2>2
<1>4. CASE ServeTransfer(t)
  <2>0. ASSUME job'[t] = None PROVE FALSE
    BY <2>0
  <2>1. ASSUME FinishTransfer(t) PROVE FALSE
    BY <1>0, <2>1, <2>0 DEF FinishTransfer
  <2>2. ~CheckCurrentHandle(t) /\ ~StoreUpload(t) /\ ~StreamBody(t) /\ ~LoadForTransfer(t)
        /\ ~ReadBack(t)
    BY DEF CheckCurrentHandle, StoreUpload, StreamBody, LoadForTransfer, ReadBack
  <2>3. ~BeginTransfer(t)
    <3> SUFFICES ASSUME BeginTransfer(t) PROVE FALSE
      OBVIOUS
    <3> DEFINE j == [window |-> transfers[t].window, handle |-> transfers[t].handle,
                     file |-> handles[transfers[t].handle].file,
                     pending |-> handles[transfers[t].handle].pending,
                     base |-> handles[transfers[t].handle].base,
                     put |-> transfers[t].method = "PUT",
                     phase |-> IF handles[transfers[t].handle].pending THEN "upload" ELSE "check",
                     loaded |-> 0, new |-> None]
    <3>1. job' = [job EXCEPT ![t] = j]
      BY DEF BeginTransfer
    <3>2. j.phase # "published"
      OBVIOUS
    <3> HIDE DEF j
    <3> QED  BY <1>0, <3>1, <3>2
  <2>4. revision = job[t].loaded
    BY <1>4, <2>1, <2>2, <2>3 DEF ServeTransfer, PublishFile, Publish, FailTransfer
  <2> QED  BY <2>4, CapabilitiesParts DEF JobsMatchTheRegistry
<1>5. CASE UNCHANGED <<registry, job>>
  BY <1>1, <1>5
<1> QED  BY <1>2, <1>3, <1>4, <1>5 DEF CapabilitiesNext

\* A save through a file handle replaces exactly the content its handle was
\* issued for, or creates the file it was promised: no update is lost, whoever
\* else writes.
THEOREM NoBlindOverwriteHolds == CapabilitiesSpec => NoBlindOverwrite
<1>1. CapabilitiesInductive /\ [CapabilitiesNext]_capsVars => [PublishesOverBase]_capsVars
  BY PublishingReplacesTheBase
<1> QED
  BY <1>1, CapabilitiesInitHolds, CapabilitiesNextPreserves, PTL
  DEF CapabilitiesSpec, NoBlindOverwrite, PublishesOverBase

-----------------------------------------------------------------------------
(* Resource sessions: the registry.                                        *)

\* What holds of the map of sessions.
SessionsOfType(map) ==
    /\ DOMAIN map \subseteq SessionIds
    /\ Cardinality(DOMAIN map) <= MaxSessions
    /\ \A s \in DOMAIN map : map[s] \in Session

\* The inductive invariant of the sessions, clause by clause.
LEMMA SessionsParts ==
    /\ SessionsInductive <=>
          /\ MainFilesTypeOK
          /\ active \subseteq Apps
          /\ SessionsOfType(sessions)
          /\ use \in [UseIds -> Use \cup {None}]
          /\ ask \in [Apps -> Ask \cup {None}]
          /\ UsesMatchTheSessions
    /\ SessionsInductive' <=>
          /\ MainFilesTypeOK'
          /\ active' \subseteq Apps
          /\ SessionsOfType(sessions')
          /\ use' \in [UseIds -> Use \cup {None}]
          /\ ask' \in [Apps -> Ask \cup {None}]
          /\ UsesMatchTheSessions'
BY DEF SessionsInductive, SessionsTypeOK, SessionsOfType

\* The clock, the revision and the limits are numbers.
LEMMA ClockAndLimits ==
    ASSUME MainFilesTypeOK
    PROVE  /\ clock \in Nat /\ revision \in Nat
           /\ clock + LeaseTtl \in Nat
           /\ MaxSessions \in Nat \ {0} /\ LeaseTtl \in Nat \ {0} /\ MaxRevision \in Nat
BY FilesAssumption, SessionsAssumption DEF MainFilesTypeOK

\* A registry of sessions stays one, within its limit, when sessions leave it.
LEMMA FewerSessions ==
    ASSUME NEW map, SessionsOfType(map), NEW less, DOMAIN less \subseteq DOMAIN map,
           \A s \in DOMAIN less : less[s] \in Session
    PROVE  SessionsOfType(less)
<1>1. IsFiniteSet(DOMAIN map)
  BY SessionsAssumption, FS_Subset DEF SessionsOfType
<1>2. /\ Cardinality(DOMAIN less) <= Cardinality(DOMAIN map) /\ IsFiniteSet(DOMAIN less)
  BY <1>1, FS_Subset
<1>3. Cardinality(DOMAIN less) \in Nat /\ Cardinality(DOMAIN map) \in Nat
  BY <1>1, <1>2, FS_CardinalityType
<1>4. MaxSessions \in Nat
  BY SessionsAssumption
<1>5. Cardinality(DOMAIN less) <= MaxSessions
  BY <1>2, <1>3, <1>4 DEF SessionsOfType
<1> QED  BY <1>5 DEF SessionsOfType

\* In particular when those of a set S leave it.
LEMMA DropKeepsSessions ==
    ASSUME NEW map, SessionsOfType(map), NEW S
    PROVE  /\ SessionsOfType(Drop(map, S))
           /\ DOMAIN Drop(map, S) = DOMAIN map \ S
           /\ \A s \in DOMAIN Drop(map, S) : Drop(map, S)[s] = map[s]
<1>1. /\ DOMAIN Drop(map, S) = DOMAIN map \ S
      /\ \A s \in DOMAIN Drop(map, S) : Drop(map, S)[s] = map[s]
  BY DEF Drop, Restrict
<1>2. \A s \in DOMAIN Drop(map, S) : Drop(map, S)[s] \in Session
  BY <1>1 DEF SessionsOfType
<1> QED  BY <1>1, <1>2, FewerSessions

\* A new lease changes the expiry of its session and nothing else.
LEMMA LeaseKeepsSessions ==
    ASSUME NEW map, SessionsOfType(map), NEW s, MainFilesTypeOK
    PROVE  /\ SessionsOfType(Lease(s, map))
           /\ DOMAIN Lease(s, map) = DOMAIN map
           /\ \A r \in DOMAIN map : Lease(s, map)[r].uses = map[r].uses
           /\ \A r \in DOMAIN map : r # s => Lease(s, map)[r] = map[r]
<1>1. clock + LeaseTtl \in Nat
  BY ClockAndLimits
<1>2. /\ DOMAIN Lease(s, map) = DOMAIN map
      /\ \A r \in DOMAIN map : r # s => Lease(s, map)[r] = map[r]
      /\ s \in DOMAIN map => Lease(s, map)[s] = [map[s] EXCEPT !.expires = clock + LeaseTtl]
  BY DEF Lease
<1>3. ASSUME NEW r \in DOMAIN map
      PROVE  Lease(s, map)[r] \in Session /\ Lease(s, map)[r].uses = map[r].uses
  <2>1. map[r] \in Session
    BY DEF SessionsOfType
  <2>2. CASE r = s
    BY <1>1, <1>2, <2>1, <2>2 DEF Session
  <2>3. CASE r # s
    BY <1>2, <2>1, <2>3
  <2> QED  BY <2>2, <2>3
<1> QED  BY <1>2, <1>3, FewerSessions

\* The fields of a request have their types.
LEMMA UsesOfType ==
    ASSUME SessionsInductive, NEW u \in UseIds, use[u] # None
    PROVE  /\ use[u] \in Use
           /\ use[u].session \in SessionIds /\ use[u].file \in Files
           /\ use[u].loaded \in Nat /\ use[u].new \in Contents \cup {None}
<1>1. use[u] \in Use
  BY SessionsParts
<1> QED  BY <1>1, FilesAssumption DEF Use

\* The requests are left alone, and so is what they need of their sessions.
LEMMA UntouchedUses ==
    ASSUME SessionsInductive, UNCHANGED <<content, revision, use>>,
           \A u \in UseIds : use[u] # None =>
              /\ use[u].session \in DOMAIN sessions =>
                    /\ use[u].session \in DOMAIN sessions'
                    /\ sessions'[use[u].session].uses = sessions[use[u].session].uses
              /\ use[u].session \notin DOMAIN sessions => use[u].session \notin DOMAIN sessions'
    PROVE  UsesMatchTheSessions' /\ use' \in [UseIds -> Use \cup {None}]
BY SessionsParts DEF UsesMatchTheSessions

\* Sessions that serve nothing leave the registry, and no request notices.
LEMMA DroppingIdleSessions ==
    ASSUME SessionsInductive, UNCHANGED <<content, revision, use>>,
           NEW S, \A s \in S \cap DOMAIN sessions : Idle(s), sessions' = Drop(sessions, S)
    PROVE  /\ SessionsOfType(sessions')
           /\ UsesMatchTheSessions' /\ use' \in [UseIds -> Use \cup {None}]
<1>1. /\ SessionsOfType(sessions') /\ DOMAIN sessions' = DOMAIN sessions \ S
      /\ \A s \in DOMAIN sessions \ S : sessions'[s] = sessions[s]
  <2>1. SessionsOfType(sessions')
    BY SessionsParts, DropKeepsSessions
  <2> QED  BY <2>1 DEF Drop, Restrict
<1>2. ASSUME NEW u \in UseIds, use[u] # None, use[u].session \in DOMAIN sessions
      PROVE  use[u].session \notin S
  BY <1>2, SessionsParts DEF UsesMatchTheSessions, Idle
<1> QED  BY <1>1, <1>2, UntouchedUses

\* #abortAndDelete tells every request of the sessions it deletes.
LEMMA AbortingIsSafe ==
    ASSUME SessionsInductive, UNCHANGED <<content, revision>>,
           NEW S \in SUBSET DOMAIN sessions, AbortAndDelete(S)
    PROVE  /\ SessionsOfType(sessions')
           /\ UsesMatchTheSessions' /\ use' \in [UseIds -> Use \cup {None}]
<1>1. /\ SessionsOfType(sessions') /\ DOMAIN sessions' = DOMAIN sessions \ S
      /\ \A s \in DOMAIN sessions \ S : sessions'[s] = sessions[s]
  <2>1. sessions' = Drop(sessions, S)
    BY DEF AbortAndDelete
  <2> QED  BY <2>1, SessionsParts, DropKeepsSessions
<1> DEFINE told(u) == use[u] # None /\ \E s \in S : u \in sessions[s].uses
<1>2. \A u \in UseIds : use'[u] = IF told(u) THEN [use[u] EXCEPT !.aborted = TRUE] ELSE use[u]
  BY DEF AbortAndDelete
<1>3. DOMAIN use' = UseIds /\ use' = [u \in UseIds |-> use'[u]]
  BY DEF AbortAndDelete
<1>4. ASSUME NEW u \in UseIds, use[u] # None
      PROVE  /\ use'[u] \in Use
             /\ told(u) => use'[u].aborted
             /\ ~told(u) => use'[u].aborted = use[u].aborted
             /\ use'[u].session = use[u].session /\ use'[u].phase = use[u].phase
             /\ use'[u].new = use[u].new /\ use'[u].loaded = use[u].loaded
             /\ use'[u].file = use[u].file /\ use'[u].base = use[u].base
  <2>1. use[u] \in Use
    BY <1>4, UsesOfType
  <2>2. CASE told(u)
    <3>1. use'[u] = [use[u] EXCEPT !.aborted = TRUE]
      BY <1>2, <2>2
    <3> HIDE DEF told
    <3> QED  BY <2>1, <2>2, <3>1 DEF Use
  <2>3. CASE ~told(u)
    BY <1>2, <2>1, <2>3
  <2> QED  BY <2>2, <2>3
<1>5. \A u \in UseIds : use[u] = None => use'[u] = None
  BY <1>2
<1>6. use' \in [UseIds -> Use \cup {None}]
  BY <1>3, <1>4, <1>5
<1>7. ASSUME NEW u \in UseIds, use'[u] # None
      PROVE  /\ IF use'[u].session \in DOMAIN sessions'
                THEN u \in sessions'[use'[u].session].uses
                ELSE use'[u].aborted
             /\ use'[u].phase \in {"stored", "loaded", "ready", "published"} => use'[u].new \in Contents
             /\ use'[u].phase \in {"loaded", "ready"} =>
                   /\ use'[u].loaded <= revision'
                   /\ use'[u].loaded = revision' => content'[use'[u].file] = use'[u].base
  <2>1. use[u] # None
    BY <1>5, <1>7
  <2>2. /\ use[u].phase \in {"stored", "loaded", "ready", "published"} => use[u].new \in Contents
        /\ use[u].phase \in {"loaded", "ready"} =>
              /\ use[u].loaded <= revision
              /\ use[u].loaded = revision => content[use[u].file] = use[u].base
        /\ IF use[u].session \in DOMAIN sessions
           THEN u \in sessions[use[u].session].uses
           ELSE use[u].aborted
    BY <2>1, SessionsParts DEF UsesMatchTheSessions
  <2>3. use[u].session \in S => told(u)
    BY <2>1, <2>2
  <2> HIDE DEF told
  <2> QED  BY <1>1, <1>4, <2>1, <2>2, <2>3
<1> QED  BY <1>1, <1>6, <1>7 DEF UsesMatchTheSessions

-----------------------------------------------------------------------------
(* Resource sessions: issuing and revoking.                                *)

\* There are no sessions at first.
LEMMA SessionsInitHolds == SessionsInit => SessionsInductive
<1> SUFFICES ASSUME SessionsInit PROVE SessionsInductive
  OBVIOUS
<1>1. MainFilesTypeOK
  BY FilesAssumption DEF SessionsInit, MainFilesInit, MainFilesTypeOK
<1>2. SessionsOfType(sessions)
  <2>1. DOMAIN sessions = {}
    BY DEF SessionsInit
  <2> QED  BY <2>1, FS_EmptySet, SessionsAssumption DEF SessionsOfType
<1>3. UsesMatchTheSessions
  BY DEF SessionsInit, UsesMatchTheSessions
<1> QED  BY <1>1, <1>2, <1>3, SessionsParts DEF SessionsInit

\* touch, renew and release preserve the invariant.
LEMMA RegistryOfSessionsKeeps ==
    ASSUME SessionsInductive, NEW s \in SessionIds, Renew(s) \/ Release(s)
    PROVE  SessionsInductive'
<1>1. CASE Renew(s)
  <2>0. UNCHANGED <<clock, content, revision, active, use, ask>>
    BY <1>1 DEF Renew
  <2>1. CASE sessions' = Lease(s, sessions)
    <3>1. /\ SessionsOfType(sessions') /\ DOMAIN sessions' = DOMAIN sessions
          /\ \A r \in DOMAIN sessions : sessions'[r].uses = sessions[r].uses
      BY <2>1, SessionsParts, LeaseKeepsSessions
    <3> QED  BY <2>0, <3>1, UntouchedUses, SessionsParts DEF MainFilesTypeOK
  <2>2. CASE Idle(s) /\ sessions' = Drop(sessions, {s})
    <3>1. SessionsOfType(sessions') /\ UsesMatchTheSessions' /\ use' \in [UseIds -> Use \cup {None}]
      BY <2>0, <2>2, DroppingIdleSessions
    <3> QED  BY <2>0, <3>1, SessionsParts DEF MainFilesTypeOK
  <2> QED  BY <1>1, <2>1, <2>2 DEF Renew
<1>2. CASE Release(s)
  <2>1. /\ AbortAndDelete({s}) /\ {s} \in SUBSET DOMAIN sessions
        /\ UNCHANGED <<clock, content, revision, active, ask>>
    BY <1>2 DEF Release
  <2>2. SessionsOfType(sessions') /\ UsesMatchTheSessions' /\ use' \in [UseIds -> Use \cup {None}]
    BY <2>1, AbortingIsSafe
  <2> QED  BY <2>1, <2>2, SessionsParts DEF MainFilesTypeOK
<1> QED  BY <1>1, <1>2

\* An application's wait changes, and nothing else.
LEMMA AskingIsSafe ==
    ASSUME SessionsInductive, UNCHANGED <<clock, content, revision, active, sessions, use>>,
           ask' \in [Apps -> Ask \cup {None}]
    PROVE  SessionsInductive'
BY SessionsParts DEF MainFilesTypeOK, UsesMatchTheSessions

\* As many sessions as there are files can be given one file each.
LEMMA EverySessionHasItsFile ==
    ASSUME NEW ids \in SUBSET SessionIds, NEW files \in SUBSET Files,
           Cardinality(ids) = Cardinality(files)
    PROVE  \E g \in [ids -> files] : \A f \in files : \E s \in ids : g[s] = f
<1>1. IsFiniteSet(ids) /\ IsFiniteSet(files)
  BY SessionsAssumption, FS_Subset
<1>2. PICK g : g \in Bijection(ids, files)
  BY <1>1, FS_SameCardinalityBij DEF ExistsBijection
<1> QED  BY <1>2 DEF Bijection, Surjection

\* Issuing preserves it: fresh sessions for all the files, within the limit, or
\* none at all.
LEMMA IssuingKeeps ==
    ASSUME SessionsInductive, NEW a \in Apps, NEW ids \in SUBSET SessionIds, Issue(a, ids)
    PROVE  SessionsInductive'
<1> DEFINE x == ask[a]
           given == CHOOSE g \in [ids -> x.files] : \A f \in x.files : \E s \in ids : g[s] = f
           room == Cardinality(DOMAIN PrunedSessions) + Cardinality(x.files) <= MaxSessions
           usable == /\ \A f \in x.files : IF x.pending THEN content[f] = Unborn ELSE Exists(f)
                     /\ x.rev \in {None, revision}
<1>0. /\ MainFilesTypeOK /\ SessionsOfType(sessions)
      /\ clock + LeaseTtl \in Nat /\ revision \in 0..MaxRevision /\ 0 \in 0..MaxRevision
      /\ MaxSessions \in Nat
  BY SessionsParts, ClockAndLimits DEF MainFilesTypeOK
<1>1. x \in Ask /\ x.files \in SUBSET Files /\ x.pending \in BOOLEAN /\ x.access \in Access
  <2>1. x \in Ask
    BY SessionsParts DEF Issue
  <2> QED  BY <2>1 DEF Ask
<1>2. UNCHANGED <<clock, content, revision, active, use>> /\ ask' = [ask EXCEPT ![a] = None]
  BY DEF Issue, NoAsk
<1>3. ask' \in [Apps -> Ask \cup {None}]
  BY <1>2, SessionsParts
<1> DEFINE S == {s \in DOMAIN sessions : Expired(s) /\ Idle(s)}
<1>4. PrunedSessions = Drop(sessions, S) /\ \A s \in S : Idle(s)
  BY DEF PrunedSessions
<1>5. /\ SessionsOfType(PrunedSessions) /\ DOMAIN PrunedSessions = DOMAIN sessions \ S
      /\ \A s \in DOMAIN PrunedSessions : PrunedSessions[s] = sessions[s]
  BY <1>0, DropKeepsSessions DEF PrunedSessions
<1>6. ASSUME sessions' = PrunedSessions \/ UNCHANGED sessions
      PROVE  SessionsInductive'
  <2>1. CASE UNCHANGED sessions
    BY <1>2, <1>3, <2>1, AskingIsSafe
  <2>2. CASE sessions' = PrunedSessions
    <3>1. SessionsOfType(sessions') /\ UsesMatchTheSessions' /\ use' \in [UseIds -> Use \cup {None}]
      BY <1>2, <1>4, <2>2, DroppingIdleSessions
    <3> QED  BY <1>2, <1>3, <3>1, SessionsParts DEF MainFilesTypeOK
  <2> QED  BY <1>6, <2>1, <2>2
<1> DEFINE new(s) == [app |-> a, access |-> x.access, file |-> given[s],
                      pending |-> x.pending, base |-> content[given[s]],
                      rev |-> IF x.pending THEN revision ELSE 0,
                      expires |-> clock + LeaseTtl, uses |-> {}]
<1>7. ASSUME usable, room, \A s \in ids : FreshSession(s),
             Cardinality(ids) = Cardinality(x.files),
             sessions' = [s \in DOMAIN PrunedSessions \cup ids |->
                             IF s \in ids THEN new(s) ELSE sessions[s]]
      PROVE  SessionsInductive'
  <2>1. given \in [ids -> x.files]
    BY <1>1, <1>7, EverySessionHasItsFile
  <2>2. ASSUME NEW s \in ids PROVE new(s) \in Session
    <3>1. given[s] \in x.files /\ given[s] \in Files
      BY <1>1, <2>1
    <3>2. content[given[s]] \in Contents \cup {Unborn}
      BY <1>7, <3>1 DEF Exists
    <3> HIDE DEF given
    <3>3. (IF x.pending THEN revision ELSE 0) \in 0..MaxRevision
      BY <1>0
    <3> QED  BY <1>0, <1>1, <3>1, <3>2, <3>3 DEF Session
  <2> HIDE DEF given, new
  <2>3. /\ DOMAIN sessions' = DOMAIN PrunedSessions \cup ids
        /\ \A s \in ids : sessions'[s] = new(s)
        /\ \A s \in DOMAIN PrunedSessions : s \notin ids => sessions'[s] = sessions[s]
    BY <1>7
  <2>4. \A s \in ids : s \notin DOMAIN sessions
                       /\ \A u \in UseIds : use[u] # None => use[u].session # s
    BY <1>7 DEF FreshSession
  <2>5. Cardinality(DOMAIN sessions') <= MaxSessions
    <3>1. IsFiniteSet(ids) /\ IsFiniteSet(DOMAIN PrunedSessions)
      BY <1>5, SessionsAssumption, FS_Subset DEF SessionsOfType
    <3>2. /\ Cardinality(ids) \in Nat /\ Cardinality(DOMAIN PrunedSessions) \in Nat
          /\ Cardinality(DOMAIN PrunedSessions \cap ids) \in Nat
      <4>1. IsFiniteSet(DOMAIN PrunedSessions \cap ids)
        BY <3>1, FS_Subset
      <4> QED  BY <3>1, <4>1, FS_CardinalityType
    <3>3. Cardinality(DOMAIN sessions') =
             Cardinality(DOMAIN PrunedSessions) + Cardinality(ids)
                - Cardinality(DOMAIN PrunedSessions \cap ids)
      BY <2>3, <3>1, FS_Union
    <3> QED  BY <1>0, <1>7, <3>2, <3>3
  <2>6. SessionsOfType(sessions')
    <3>1. \A s \in DOMAIN sessions' : sessions'[s] \in Session
      BY <1>0, <1>5, <2>2, <2>3 DEF SessionsOfType
    <3>2. DOMAIN sessions' \subseteq SessionIds
      BY <1>5, <2>3 DEF SessionsOfType
    <3> QED  BY <2>5, <3>1, <3>2 DEF SessionsOfType
  <2>7. ASSUME NEW u \in UseIds, use[u] # None
        PROVE  /\ use[u].session \in DOMAIN sessions =>
                     /\ use[u].session \in DOMAIN sessions'
                     /\ sessions'[use[u].session].uses = sessions[use[u].session].uses
               /\ use[u].session \notin DOMAIN sessions => use[u].session \notin DOMAIN sessions'
    <3>1. use[u].session \in DOMAIN sessions => use[u].session \notin S
      BY <2>7, SessionsParts DEF UsesMatchTheSessions, Idle
    <3> HIDE DEF S
    <3> QED  BY <1>5, <2>3, <2>4, <2>7, <3>1
  <2>8. UsesMatchTheSessions' /\ use' \in [UseIds -> Use \cup {None}]
    BY <1>2, <2>7, UntouchedUses
  <2> QED  BY <1>2, <1>3, <2>6, <2>8, SessionsParts DEF MainFilesTypeOK
<1>8. \/ sessions' = PrunedSessions \/ UNCHANGED sessions
      \/ /\ usable /\ room /\ \A s \in ids : FreshSession(s)
         /\ Cardinality(ids) = Cardinality(x.files)
         /\ sessions' = [s \in DOMAIN PrunedSessions \cup ids |->
                            IF s \in ids THEN new(s) ELSE sessions[s]]
  <2>1. usable /\ room => /\ \A s \in ids : FreshSession(s)
                          /\ Cardinality(ids) = Cardinality(x.files)
                          /\ sessions' = [s \in DOMAIN PrunedSessions \cup ids |->
                                             IF s \in ids THEN new(s) ELSE sessions[s]]
    BY DEF Issue
  <2>2. ~(usable /\ room) => sessions' = IF usable THEN PrunedSessions ELSE sessions
    BY DEF Issue
  <2> HIDE DEF usable, room, new
  <2> QED  BY <2>1, <2>2
<1> QED  BY <1>6, <1>7, <1>8

\* Every step of an application that asks for sessions, or of the owner who
\* enables, disables or updates it, preserves the invariant.
LEMMA IssuersKeepSessions ==
    ASSUME SessionsInductive, NEW a \in Apps,
           Issuing(a) \/ Enable(a) \/ \E still \in BOOLEAN : Revoke(a, still)
    PROVE  SessionsInductive'
<1>0. /\ MainFilesTypeOK /\ revision \in 0..MaxRevision
      /\ ask \in [Apps -> Ask \cup {None}] /\ active \subseteq Apps
  BY SessionsParts DEF MainFilesTypeOK
<1>1. ASSUME NEW f \in Files, NEW access \in Access, AskForFile(a, f, access)
      PROVE  SessionsInductive'
  <2>1. [files |-> {f}, pending |-> ~Exists(f), access |-> access, rev |-> None,
         checked |-> FALSE] \in Ask
    <3>1. {f} \in (SUBSET Files) \ {{}}
      <4>1. f \in {f} /\ {f} \in SUBSET Files
        OBVIOUS
      <4>2. {f} # {}
        BY <4>1
      <4> QED  BY <4>1, <4>2
    <3>2. (~Exists(f)) \in BOOLEAN
      BY Zenon
    <3> QED  BY <3>1, <3>2 DEF Ask
  <2> QED  BY <1>0, <1>1, <2>1, AskingIsSafe DEF AskForFile
<1>2. ASSUME NEW files \in (SUBSET Files) \ {{}}, NEW access \in Access,
             AskForLaunch(a, files, access)
      PROVE  SessionsInductive'
  <2>1. [files |-> files, pending |-> FALSE, access |-> access, rev |-> revision,
         checked |-> FALSE] \in Ask
    BY <1>0 DEF Ask
  <2> QED  BY <1>0, <1>2, <2>1, AskingIsSafe DEF AskForLaunch
<1>3. CASE CheckAsk(a)
  <2>1. ask' \in [Apps -> Ask \cup {None}]
    <3>1. CASE NoAsk(a)
      BY <1>0, <3>1 DEF NoAsk
    <3>2. CASE ask' = [ask EXCEPT ![a].checked = TRUE,
                                  ![a].rev = IF Cardinality(ask[a].files) > 1 THEN @ ELSE None]
      <4> DEFINE r == IF Cardinality(ask[a].files) > 1 THEN ask[a].rev ELSE None
                 x == [ask[a] EXCEPT !.checked = TRUE, !.rev = r]
      <4>1. ask[a] \in Ask
        BY <1>0, <1>3 DEF CheckAsk
      <4>2. r \in 0..MaxRevision \cup {None}
        BY <4>1 DEF Ask
      <4>3. ask' = [ask EXCEPT ![a] = [ask[a] EXCEPT !.checked = TRUE, !.rev = r]]
        BY <1>0, <3>2
      <4> HIDE DEF r
      <4>4. x \in Ask
        BY <4>1, <4>2 DEF Ask
      <4> QED  BY <1>0, <4>3, <4>4
    <3> QED  BY <1>3, <3>1, <3>2 DEF CheckAsk
  <2>2. CASE UNCHANGED <<sessions, use>>
    BY <1>3, <2>1, <2>2, AskingIsSafe DEF CheckAsk
  <2>3. CASE AbortAndDelete(Owned(a))
    <3>1. Owned(a) \in SUBSET DOMAIN sessions /\ UNCHANGED <<clock, content, revision, active>>
      BY <1>3 DEF Owned, CheckAsk
    <3>2. SessionsOfType(sessions') /\ UsesMatchTheSessions' /\ use' \in [UseIds -> Use \cup {None}]
      BY <2>3, <3>1, AbortingIsSafe
    <3> QED  BY <2>1, <3>1, <3>2, SessionsParts DEF MainFilesTypeOK
  <2> QED  BY <1>3, <2>2, <2>3 DEF CheckAsk
<1>4. CASE Enable(a)
  <2>1. active' \subseteq Apps /\ UNCHANGED <<clock, content, revision, sessions, use, ask>>
    BY <1>0, <1>4 DEF Enable
  <2> QED  BY <2>1, SessionsParts DEF MainFilesTypeOK, UsesMatchTheSessions
<1>5. ASSUME NEW still \in BOOLEAN, Revoke(a, still)
      PROVE  SessionsInductive'
  <2>1. /\ active' \subseteq Apps /\ AbortAndDelete(Owned(a))
        /\ UNCHANGED <<clock, content, revision, ask>>
    BY <1>0, <1>5 DEF Revoke
  <2>2. Owned(a) \in SUBSET DOMAIN sessions
    BY DEF Owned
  <2>3. SessionsOfType(sessions') /\ UsesMatchTheSessions' /\ use' \in [UseIds -> Use \cup {None}]
    BY <2>1, <2>2, AbortingIsSafe
  <2> QED  BY <2>1, <2>3, SessionsParts DEF MainFilesTypeOK
<1> QED  BY <1>1, <1>2, <1>3, <1>4, <1>5, IssuingKeeps DEF Issuing

-----------------------------------------------------------------------------
(* Resource sessions: reading and writing.                                 *)

\* What the requests other than u's need is left as it was.
OthersAsBefore(u) ==
    /\ UNCHANGED <<content, revision>>
    /\ \A v \in UseIds : v # u => use'[v] = use[v]
    /\ DOMAIN sessions' \subseteq DOMAIN sessions
    /\ \A v \in UseIds : v # u /\ use[v] # None /\ use[v].session \in DOMAIN sessions =>
          /\ use[v].session \in DOMAIN sessions'
          /\ v \in sessions[use[v].session].uses => v \in sessions'[use[v].session].uses

\* What UsesMatchTheSessions says of one request.
UseMatches(u) ==
    use[u] # None =>
        /\ IF use[u].session \in DOMAIN sessions
           THEN u \in sessions[use[u].session].uses
           ELSE use[u].aborted
        /\ use[u].phase \in {"stored", "loaded", "ready", "published"} => use[u].new \in Contents
        /\ use[u].phase \in {"loaded", "ready"} =>
              /\ use[u].loaded <= revision
              /\ use[u].loaded = revision => content[use[u].file] = use[u].base

\* A step of one request leaves what holds of the others.
LEMMA OneUseMoves ==
    ASSUME SessionsInductive, NEW u \in UseIds, OthersAsBefore(u), UseMatches(u)'
    PROVE  UsesMatchTheSessions'
<1>1. \A v \in UseIds : v # u => UseMatches(v)'
  BY SessionsParts DEF UsesMatchTheSessions, UseMatches, OthersAsBefore
<1> QED  BY <1>1 DEF UsesMatchTheSessions, UseMatches

\* finishUse preserves the invariant, whether the request succeeded or not and
\* whether or not its session is still there.
LEMMA FinishingKeepsSessions ==
    ASSUME SessionsInductive, NEW u \in UseIds, use[u] # None, NEW ok \in BOOLEAN, NEW map,
           FinishUse(u, ok, map), UNCHANGED <<content, revision>>,
           SessionsOfType(map), DOMAIN map = DOMAIN sessions,
           \A s \in DOMAIN map : map[s].uses = sessions[s].uses
    PROVE  SessionsInductive'
<1> DEFINE s == use[u].session
           left == [map EXCEPT ![s].uses = @ \ {u}]
<1>0. MainFilesTypeOK /\ use \in [UseIds -> Use \cup {None}] /\ s \in SessionIds
  BY SessionsParts, UsesOfType
<1>1. /\ use' = [use EXCEPT ![u] = None] /\ UNCHANGED <<clock, active, ask>>
      /\ use'[u] = None /\ \A v \in UseIds : v # u => use'[v] = use[v]
  BY <1>0 DEF FinishUse
<1>2. /\ DOMAIN left = DOMAIN map
      /\ \A r \in DOMAIN map : r # s => left[r] = map[r]
      /\ s \in DOMAIN map => left[s] = [map[s] EXCEPT !.uses = map[s].uses \ {u}]
  OBVIOUS
<1>3. SessionsOfType(left) /\ (s \in DOMAIN map => left[s].uses = map[s].uses \ {u})
  <2>1. s \in DOMAIN map => left[s] \in Session /\ left[s].uses = map[s].uses \ {u}
    <3> SUFFICES ASSUME s \in DOMAIN map PROVE left[s] \in Session /\ left[s].uses = map[s].uses \ {u}
      OBVIOUS
    <3>1. map[s] \in Session
      BY DEF SessionsOfType
    <3>2. left[s] = [map[s] EXCEPT !.uses = map[s].uses \ {u}]
      BY <1>2
    <3> HIDE DEF left, s
    <3> QED  BY <3>1, <3>2 DEF Session
  <2> HIDE DEF left, s
  <2>2. \A r \in DOMAIN left : left[r] \in Session
    BY <1>2, <2>1 DEF SessionsOfType
  <2> QED  BY <1>2, <2>1, <2>2, FewerSessions
<1>5. \/ sessions' = map /\ s \notin DOMAIN map
      \/ sessions' = Lease(s, left) /\ s \in DOMAIN map
      \/ sessions' = Drop(map, {s}) /\ s \in DOMAIN map /\ left[s].uses = {}
      \/ sessions' = left /\ s \in DOMAIN map
  BY DEF FinishUse
<1> HIDE DEF left
<1>6. ASSUME NEW v \in UseIds, v # u, use[v] # None, use[v].session \in DOMAIN map
      PROVE  v \in map[use[v].session].uses
  BY <1>6, SessionsParts DEF UsesMatchTheSessions
<1>7. CASE sessions' = map /\ s \notin DOMAIN map
  <2>1. OthersAsBefore(u)
    BY <1>1, <1>7 DEF OthersAsBefore
  <2> QED  BY <1>1, <1>0, <1>7, <2>1, OneUseMoves, SessionsParts DEF MainFilesTypeOK, UseMatches
<1>8. CASE (sessions' = left \/ sessions' = Lease(s, left)) /\ s \in DOMAIN map
  <2>1. /\ SessionsOfType(sessions') /\ DOMAIN sessions' = DOMAIN map
        /\ \A r \in DOMAIN map : sessions'[r].uses = left[r].uses
    <3>1. CASE sessions' = left
      BY <1>2, <1>3, <3>1
    <3>2. CASE sessions' = Lease(s, left)
      <4> HIDE DEF s
      <4> QED  BY <1>0, <1>2, <1>3, <3>2, LeaseKeepsSessions
    <3> QED  BY <1>8, <3>1, <3>2
  <2>2. ASSUME NEW v \in UseIds, v # u, use[v] # None, use[v].session \in DOMAIN map
        PROVE  v \in sessions'[use[v].session].uses
    <3>1. v \in map[use[v].session].uses
      BY <1>6, <2>2
    <3>2. CASE use[v].session = s
      BY <1>3, <1>8, <2>1, <2>2, <3>1, <3>2
    <3>3. CASE use[v].session # s
      BY <1>2, <2>1, <2>2, <3>1, <3>3
    <3> QED  BY <3>2, <3>3
  <2>3. OthersAsBefore(u)
    <3> HIDE DEF s
    <3> QED  BY <1>1, <2>1, <2>2 DEF OthersAsBefore
  <2> QED  BY <1>0, <1>1, <2>1, <2>3, OneUseMoves, SessionsParts DEF MainFilesTypeOK, UseMatches
<1>9. CASE sessions' = Drop(map, {s}) /\ s \in DOMAIN map /\ left[s].uses = {}
  <2>1. /\ SessionsOfType(sessions') /\ DOMAIN sessions' = DOMAIN map \ {s}
        /\ \A r \in DOMAIN map \ {s} : sessions'[r] = map[r]
    <3> HIDE DEF s
    <3>1. SessionsOfType(sessions')
      BY <1>9, DropKeepsSessions
    <3> QED  BY <1>9, <3>1 DEF Drop, Restrict
  <2>2. \A v \in UseIds : v # u /\ use[v] # None /\ use[v].session \in DOMAIN map
                            => use[v].session # s
    BY <1>3, <1>6, <1>9
  <2>3. OthersAsBefore(u)
    <3> HIDE DEF s
    <3> QED  BY <1>1, <1>6, <2>1, <2>2 DEF OthersAsBefore
  <2> QED  BY <1>0, <1>1, <2>1, <2>3, OneUseMoves, SessionsParts DEF MainFilesTypeOK, UseMatches
<1> QED  BY <1>5, <1>7, <1>8, <1>9

\* The request of u goes on, and nothing but its record changes.
LEMMA AdvancingKeepsSessions ==
    ASSUME SessionsInductive, NEW u \in UseIds, use[u] # None, NEW j \in Use,
           use' = [use EXCEPT ![u] = j],
           UNCHANGED <<clock, content, revision, active, sessions, ask>>,
           j.session = use[u].session, j.aborted = use[u].aborted,
           j.phase \in {"stored", "loaded", "ready", "published"} => j.new \in Contents,
           j.phase \in {"loaded", "ready"} =>
              /\ j.loaded <= revision
              /\ j.loaded = revision => content[j.file] = j.base
    PROVE  SessionsInductive'
<1>1. use'[u] = j /\ (\A v \in UseIds : v # u => use'[v] = use[v])
      /\ use' \in [UseIds -> Use \cup {None}]
  BY SessionsParts
<1>2. OthersAsBefore(u)
  BY <1>1 DEF OthersAsBefore
<1>3. IF use[u].session \in DOMAIN sessions
      THEN u \in sessions[use[u].session].uses
      ELSE use[u].aborted
  BY SessionsParts DEF UsesMatchTheSessions
<1>4. UseMatches(u)'
  BY <1>1, <1>3 DEF UseMatches
<1> QED  BY <1>1, <1>2, <1>4, OneUseMoves, SessionsParts DEF MainFilesTypeOK

\* Every step of a request for a session's content preserves the invariant.
LEMMA ServingKeepsSessions ==
    ASSUME SessionsInductive, NEW u \in UseIds, ServeUse(u)
    PROVE  SessionsInductive'
<1>0. /\ MainFilesTypeOK /\ clock \in Nat /\ revision \in Nat /\ revision \in 0..MaxRevision
      /\ SessionsOfType(sessions) /\ use \in [UseIds -> Use \cup {None}]
  BY SessionsParts, ClockAndLimits DEF MainFilesTypeOK
<1>T. use[u] # None => use[u] \in Use
  BY UsesOfType
<1>M. use[u] # None => UseMatches(u)
  BY SessionsParts DEF UsesMatchTheSessions, UseMatches
<1>F. ASSUME use[u] # None, FailUse(u)
      PROVE  SessionsInductive'
  BY <1>0, <1>F, FinishingKeepsSessions DEF FailUse
<1>A. ASSUME NEW p \in {"upload", "ready", "published"}, use[u] # None,
             use' = [use EXCEPT ![u].phase = p],
             UNCHANGED <<clock, content, revision, active, sessions, ask>>,
             p \in {"ready", "published"} => use[u].phase = "loaded"
      PROVE  SessionsInductive'
  <2> DEFINE j == [use[u] EXCEPT !.phase = p]
  <2>1. /\ j \in Use /\ j.session = use[u].session /\ j.aborted = use[u].aborted /\ j.phase = p
        /\ j.new = use[u].new /\ j.loaded = use[u].loaded /\ j.file = use[u].file
        /\ j.base = use[u].base
    BY <1>A, <1>T DEF Use
  <2>2. use' = [use EXCEPT ![u] = j]
    BY <1>A, <1>0
  <2> HIDE DEF j
  <2>3. /\ j.phase \in {"stored", "loaded", "ready", "published"} => j.new \in Contents
        /\ j.phase \in {"loaded", "ready"} =>
              /\ j.loaded <= revision
              /\ j.loaded = revision => content[j.file] = j.base
    BY <1>A, <1>M, <2>1 DEF UseMatches
  <2> QED  BY <1>A, <2>1, <2>2, <2>3, AdvancingKeepsSessions
<1>1. ASSUME NEW s \in SessionIds, NEW put \in BOOLEAN, BeginUse(u, s, put)
      PROVE  SessionsInductive'
  <2> DEFINE j == [session |-> s, app |-> sessions[s].app, put |-> put, file |-> sessions[s].file,
                   pending |-> sessions[s].pending, base |-> sessions[s].base,
                   rev |-> sessions[s].rev, aborted |-> FALSE, loaded |-> 0, new |-> None,
                   phase |-> IF ~put THEN "streaming"
                             ELSE IF sessions[s].pending THEN "upload" ELSE "check"]
  <2>1. use[u] = None /\ s \in DOMAIN sessions
    BY <1>1 DEF BeginUse
  <2>2. /\ sessions[s] \in Session /\ 0 \in 0..MaxRevision
    BY <1>0, <2>1, FilesAssumption DEF SessionsOfType
  <2>3. j \in Use /\ j.session = s /\ j.phase \in {"streaming", "upload", "check"}
    BY <2>2 DEF Session, Use
  <2>4. /\ use' = [use EXCEPT ![u] = j]
        /\ sessions' = [sessions EXCEPT ![s].uses = sessions[s].uses \cup {u}]
        /\ UNCHANGED <<clock, content, revision, active, ask>>
    BY <1>1 DEF BeginUse
  <2> HIDE DEF j
  <2>5. /\ DOMAIN sessions' = DOMAIN sessions
        /\ sessions'[s] = [sessions[s] EXCEPT !.uses = sessions[s].uses \cup {u}]
        /\ \A r \in DOMAIN sessions : r # s => sessions'[r] = sessions[r]
    BY <2>1, <2>4
  <2>6. sessions'[s] \in Session /\ sessions'[s].uses = sessions[s].uses \cup {u}
    BY <2>2, <2>5 DEF Session
  <2>7. SessionsOfType(sessions')
    BY <1>0, <2>5, <2>6 DEF SessionsOfType
  <2>8. use'[u] = j /\ (\A v \in UseIds : v # u => use'[v] = use[v])
        /\ use' \in [UseIds -> Use \cup {None}]
    BY <1>0, <2>3, <2>4
  <2>9. OthersAsBefore(u)
    BY <2>4, <2>5, <2>6, <2>8 DEF OthersAsBefore
  <2>10. UseMatches(u)'
    BY <2>1, <2>3, <2>5, <2>6, <2>8 DEF UseMatches
  <2> QED  BY <2>4, <2>7, <2>8, <2>9, <2>10, OneUseMoves, SessionsParts DEF MainFilesTypeOK
<1>2. CASE StreamContent(u)
  BY <1>0, <1>2, <1>F, FinishingKeepsSessions DEF StreamContent, At
<1>3. CASE CheckCurrentSession(u)
  BY <1>3, <1>A, <1>F DEF CheckCurrentSession, AdvanceUse, At
<1>4. CASE StoreSave(u)
  <2>1. ASSUME NEW c \in Contents, use' = [use EXCEPT ![u].phase = "stored", ![u].new = c],
               UNCHANGED <<clock, content, revision, active, sessions, ask>>
        PROVE  SessionsInductive'
    <3> DEFINE j == [use[u] EXCEPT !.phase = "stored", !.new = c]
    <3>1. use[u] # None
      BY <1>4 DEF StoreSave, At
    <3>2. /\ j \in Use /\ j.session = use[u].session /\ j.aborted = use[u].aborted
          /\ j.phase = "stored" /\ j.new = c
      BY <1>T, <3>1 DEF Use
    <3>3. use' = [use EXCEPT ![u] = j]
      BY <1>0, <2>1
    <3> HIDE DEF j
    <3> QED  BY <2>1, <3>1, <3>2, <3>3, AdvancingKeepsSessions
  <2> QED  BY <1>4, <1>F, <2>1 DEF StoreSave, At
<1>5. CASE LoadForSave(u)
  <2>1. ASSUME Applies(use[u].file, use[u].base),
               use' = [use EXCEPT ![u].phase = "loaded", ![u].loaded = revision],
               UNCHANGED <<clock, content, revision, active, sessions, ask>>
        PROVE  SessionsInductive'
    <3> DEFINE j == [use[u] EXCEPT !.phase = "loaded", !.loaded = revision]
    <3>1. use[u] # None /\ use[u].new \in Contents
      BY <1>5, <1>M DEF LoadForSave, At, UseMatches
    <3>2. /\ j \in Use /\ j.session = use[u].session /\ j.aborted = use[u].aborted
          /\ j.phase = "loaded" /\ j.loaded = revision /\ j.new = use[u].new
          /\ j.file = use[u].file /\ j.base = use[u].base
      BY <1>0, <1>T, <3>1 DEF Use
    <3>3. use' = [use EXCEPT ![u] = j]
      BY <1>0, <2>1
    <3> HIDE DEF j
    <3>4. j.loaded <= revision /\ content[j.file] = j.base
      BY <1>0, <2>1, <3>2 DEF Applies
    <3> QED  BY <2>1, <3>1, <3>2, <3>3, <3>4, AdvancingKeepsSessions
  <2> QED  BY <1>5, <1>F, <2>1 DEF LoadForSave, At
<1>6. CASE BeforePublish(u)
  BY <1>6, <1>A, <1>F DEF BeforePublish, AdvanceUse, At
<1>7. CASE PublishSave(u)
  <2>1. ASSUME Publish(use[u].file, use[u].new, use[u].loaded),
               use' = [use EXCEPT ![u].phase = "published"],
               UNCHANGED <<clock, active, sessions, ask>>
        PROVE  SessionsInductive'
    <3> DEFINE j == [use[u] EXCEPT !.phase = "published"]
    <3>1. use[u] # None /\ use[u].new \in Contents
      BY <1>7, <1>M DEF PublishSave, At, UseMatches
    <3>2. /\ j \in Use /\ j.session = use[u].session /\ j.aborted = use[u].aborted
          /\ j.phase = "published" /\ j.new = use[u].new
      BY <1>T, <3>1 DEF Use
    <3>3. use' = [use EXCEPT ![u] = j]
      BY <1>0, <2>1
    <3> HIDE DEF j
    <3>4. use'[u] = j /\ (\A v \in UseIds : v # u => use'[v] = use[v])
          /\ use' \in [UseIds -> Use \cup {None}]
      BY <1>0, <3>2, <3>3
    <3>5. /\ content' = [content EXCEPT ![use[u].file] = use[u].new]
          /\ revision' = revision + 1 /\ revision < MaxRevision
      BY <2>1 DEF Publish
    <3>6. MainFilesTypeOK'
      <4>1. revision' \in 0..MaxRevision
        BY <1>0, <3>5, FilesAssumption
      <4> QED  BY <1>0, <2>1, <3>1, <3>5, <4>1 DEF MainFilesTypeOK
    <3>7. UsesMatchTheSessions'
      <4> SUFFICES ASSUME NEW v \in UseIds PROVE UseMatches(v)'
        BY DEF UsesMatchTheSessions, UseMatches
      <4>1. CASE v = u
        BY <1>M, <2>1, <3>1, <3>2, <3>4, <4>1 DEF UseMatches
      <4>2. CASE v # u
        <5> SUFFICES ASSUME use[v] # None PROVE UseMatches(v)'
          BY <3>4, <4>2 DEF UseMatches
        <5>1. UseMatches(v) /\ use[v].loaded \in Nat /\ use'[v] = use[v]
          BY <3>4, <4>2, UsesOfType, SessionsParts DEF UsesMatchTheSessions, UseMatches
        <5>2. use[v].loaded <= revision => /\ use[v].loaded <= revision'
                                           /\ use[v].loaded # revision'
          BY <1>0, <3>5, <5>1
        <5> QED  BY <2>1, <5>1, <5>2 DEF UseMatches
      <4> QED  BY <4>1, <4>2
    <3> QED  BY <2>1, <3>4, <3>6, <3>7, SessionsParts
  <2> QED  BY <1>7, <1>F, <2>1 DEF PublishSave, At
<1>8. CASE AdvanceAfterSave(u)
  <2> DEFINE s == use[u].session
             f == use[u].file
             map == [sessions EXCEPT ![s].base = content[f], ![s].rev = 0, ![s].pending = FALSE]
  <2>1. use[u] # None
    BY <1>8 DEF AdvanceAfterSave, At
  <2>2. ASSUME StillThere(f), s \in DOMAIN sessions, FinishUse(u, TRUE, map),
               UNCHANGED <<content, revision>>
        PROVE  SessionsInductive'
    <3>1. sessions[s] \in Session /\ content[f] \in Contents /\ 0 \in 0..MaxRevision
      BY <1>0, <2>2, FilesAssumption DEF SessionsOfType, StillThere, Exists
    <3>2. /\ DOMAIN map = DOMAIN sessions
          /\ map[s] = [sessions[s] EXCEPT !.base = content[f], !.rev = 0, !.pending = FALSE]
          /\ \A r \in DOMAIN sessions : r # s => map[r] = sessions[r]
      BY <2>2
    <3> HIDE DEF map, s, f
    <3>3. map[s] \in Session /\ map[s].uses = sessions[s].uses
      BY <3>1, <3>2 DEF Session
    <3>4. \A r \in DOMAIN map : map[r].uses = sessions[r].uses
      BY <3>2, <3>3
    <3>5. SessionsOfType(map)
      BY <1>0, <3>2, <3>3 DEF SessionsOfType
    <3> QED  BY <2>1, <2>2, <3>2, <3>4, <3>5, FinishingKeepsSessions
  <2>3. \/ FailUse(u)
        \/ /\ StillThere(f) /\ s \in DOMAIN sessions /\ FinishUse(u, TRUE, map)
           /\ UNCHANGED <<content, revision>>
    BY <1>8 DEF AdvanceAfterSave
  <2> QED  BY <1>F, <2>1, <2>2, <2>3
<1> QED  BY <1>1, <1>2, <1>3, <1>4, <1>5, <1>6, <1>7, <1>8 DEF ServeUse

\* Neither the clock nor another client disturbs it.
LEMMA OthersKeepSessions ==
    ASSUME SessionsInductive, Tick \/ OtherCommit, UNCHANGED <<active, sessions, use, ask>>
    PROVE  SessionsInductive'
<1>1. MainFilesTypeOK' /\ (UNCHANGED <<content, revision>> \/ revision' = revision + 1)
      /\ revision \in Nat
  BY SessionsParts, ClockAndLimits, OtherCommitFacts, TickFacts
<1>2. UsesMatchTheSessions'
  <2> SUFFICES ASSUME NEW u \in UseIds, use[u] # None PROVE UseMatches(u)'
    BY DEF UsesMatchTheSessions, UseMatches
  <2>1. UseMatches(u) /\ use[u].loaded \in Nat
    BY UsesOfType, SessionsParts DEF UsesMatchTheSessions, UseMatches
  <2> QED  BY <1>1, <2>1 DEF UseMatches
<1> QED  BY <1>1, <1>2, SessionsParts

\* The invariant is inductive.
LEMMA SessionsNextPreserves ==
    SessionsInductive /\ [SessionsNext]_sessionVars => SessionsInductive'
<1> SUFFICES ASSUME SessionsInductive, [SessionsNext]_sessionVars
             PROVE  SessionsInductive'
  OBVIOUS
<1>1. CASE UNCHANGED sessionVars
  <2>1. UNCHANGED <<clock, content, revision, active, sessions, use, ask>>
    BY <1>1 DEF sessionVars
  <2> QED  BY <2>1, SessionsParts DEF MainFilesTypeOK, UsesMatchTheSessions
<1> QED
  BY <1>1, RegistryOfSessionsKeeps, IssuersKeepSessions, ServingKeepsSessions, OthersKeepSessions
  DEF SessionsNext

\* In every state of the resource sessions their number is within its limit, and
\* each request that runs is tracked by its session or was told to stop: removing
\* a session never leaves a request behind that goes on reading or saving.
THEOREM SessionsInvariantHolds == SessionsSpec => []SessionsInvariant
<1>1. SessionsInductive => SessionsInvariant
  BY DEF SessionsInductive, SessionsInvariant, UsesMatchTheSessions, RequestIsTrackedOrAborted
<1> QED
  BY <1>1, SessionsInitHolds, SessionsNextPreserves, PTL DEF SessionsSpec

-----------------------------------------------------------------------------
(* Resource sessions: what a step may do.                                  *)

\* The step of ExpiredLeaseIsNotRevived.
RevivedByItsRequest ==
    \A s \in DOMAIN sessions :
       (Expired(s) /\ s \in DOMAIN sessions' /\ sessions'[s].expires > sessions[s].expires)
          => \E u \in sessions[s].uses : use'[u] = None

\* No session expires later than it does.
LEMMA NothingIsNewer ==
    ASSUME SessionsInductive, NEW s \in DOMAIN sessions
    PROVE  ~(sessions[s].expires > sessions[s].expires)
BY SessionsParts DEF SessionsOfType, Session

\* A step that leaves the expiry of every session alone revives none.
LEMMA KeptLeases ==
    ASSUME SessionsInductive,
           \A s \in DOMAIN sessions : s \in DOMAIN sessions' =>
              sessions'[s].expires = sessions[s].expires
    PROVE  RevivedByItsRequest
BY NothingIsNewer DEF RevivedByItsRequest

\* finishUse renews the lease of the session its request was in, and no other.
LEMMA FinishingRevives ==
    ASSUME SessionsInductive, NEW u \in UseIds, use[u] # None, NEW ok \in BOOLEAN, NEW map,
           FinishUse(u, ok, map), DOMAIN map = DOMAIN sessions,
           \A s \in DOMAIN map : map[s].expires = sessions[s].expires
    PROVE  RevivedByItsRequest
<1> DEFINE r == use[u].session
           left == [map EXCEPT ![r].uses = @ \ {u}]
<1>1. use'[u] = None
  BY SessionsParts DEF FinishUse
<1>2. r \in DOMAIN sessions => u \in sessions[r].uses
  BY SessionsParts DEF UsesMatchTheSessions
<1>3. \/ sessions' = map
      \/ sessions' = Lease(r, left)
      \/ sessions' = Drop(map, {r})
      \/ sessions' = left
  BY DEF FinishUse
<1>4. \A s \in DOMAIN map : s # r =>
         /\ left[s] = map[s]
         /\ Lease(r, left)[s] = map[s]
  BY DEF Lease
<1>5. DOMAIN left = DOMAIN map /\ \A s \in DOMAIN Drop(map, {r}) : Drop(map, {r})[s] = map[s]
  BY DEF Drop, Restrict
<1> HIDE DEF r, left
<1> SUFFICES ASSUME NEW s \in DOMAIN sessions, s \in DOMAIN sessions', s # r
             PROVE  sessions'[s].expires = sessions[s].expires
  BY <1>1, <1>2, NothingIsNewer DEF RevivedByItsRequest
<1>6. sessions'[s] = map[s]
  <2>1. CASE sessions' = Drop(map, {r})
    BY <2>1 DEF Drop, Restrict
  <2> QED  BY <1>3, <1>4, <2>1
<1> QED  BY <1>6

\* Only a request that ends renews a lease that has run out.
LEMMA LeasesAreOnlyRenewedInTime ==
    ASSUME SessionsInductive, SessionsNext
    PROVE  RevivedByItsRequest
<1>D. ASSUME NEW S, sessions' = Drop(sessions, S) PROVE RevivedByItsRequest
  <2>1. \A s \in DOMAIN sessions : s \in DOMAIN sessions' => sessions'[s] = sessions[s]
    BY <1>D DEF Drop, Restrict
  <2> QED  BY <2>1, KeptLeases
<1>U. ASSUME UNCHANGED sessions PROVE RevivedByItsRequest
  BY <1>U, KeptLeases
<1>R. ASSUME NEW S, AbortAndDelete(S) PROVE RevivedByItsRequest
  BY <1>R, <1>D DEF AbortAndDelete
<1>1. ASSUME NEW s \in SessionIds, Renew(s) PROVE RevivedByItsRequest
  <2>1. CASE sessions' = Lease(s, sessions) /\ ~Expired(s)
    <3>1. \A r \in DOMAIN sessions : r # s => sessions'[r] = sessions[r]
      BY <2>1 DEF Lease
    <3> QED  BY <2>1, <3>1, NothingIsNewer DEF RevivedByItsRequest
  <2> QED  BY <1>1, <1>D, <2>1 DEF Renew
<1>2. ASSUME NEW s \in SessionIds, Release(s) PROVE RevivedByItsRequest
  BY <1>2, <1>R DEF Release
<1>3. ASSUME NEW a \in Apps, Issuing(a) PROVE RevivedByItsRequest
  <2>1. ASSUME NEW ids \in SUBSET SessionIds, Issue(a, ids) PROVE RevivedByItsRequest
    <3>1. CASE sessions' = PrunedSessions
      BY <3>1, <1>D DEF PrunedSessions
    <3> DEFINE x == ask[a]
               given == CHOOSE g \in [ids -> x.files] : \A f \in x.files : \E s \in ids : g[s] = f
               fresh(s) == [app |-> a, access |-> x.access, file |-> given[s],
                            pending |-> x.pending, base |-> content[given[s]],
                            rev |-> IF x.pending THEN revision ELSE 0,
                            expires |-> clock + LeaseTtl, uses |-> {}]
    <3>3. \/ sessions' = PrunedSessions \/ UNCHANGED sessions
          \/ /\ \A s \in ids : FreshSession(s)
             /\ sessions' = [s \in DOMAIN PrunedSessions \cup ids |->
                                IF s \in ids THEN fresh(s) ELSE sessions[s]]
      BY <2>1 DEF Issue
    <3> HIDE DEF fresh, x, given
    <3>4. CASE /\ \A s \in ids : FreshSession(s)
               /\ sessions' = [s \in DOMAIN PrunedSessions \cup ids |->
                                  IF s \in ids THEN fresh(s) ELSE sessions[s]]
      <4>1. \A s \in DOMAIN sessions : s \in DOMAIN sessions' => sessions'[s] = sessions[s]
        BY <3>4 DEF FreshSession
      <4> QED  BY <4>1, KeptLeases
    <3> QED  BY <1>U, <3>1, <3>3, <3>4
  <2>2. CASE CheckAsk(a)
    BY <2>2, <1>R, <1>U DEF CheckAsk
  <2>3. CASE \E f \in Files, access \in Access : AskForFile(a, f, access)
    BY <2>3, <1>U DEF AskForFile
  <2>4. CASE \E files \in (SUBSET Files) \ {{}}, access \in Access : AskForLaunch(a, files, access)
    BY <2>4, <1>U DEF AskForLaunch
  <2> QED  BY <1>3, <2>1, <2>2, <2>3, <2>4 DEF Issuing
<1>4. ASSUME NEW a \in Apps, Enable(a) \/ \E still \in BOOLEAN : Revoke(a, still)
      PROVE  RevivedByItsRequest
  BY <1>4, <1>R, <1>U DEF Enable, Revoke
<1>5. ASSUME NEW u \in UseIds, ServeUse(u) PROVE RevivedByItsRequest
  <2>F. ASSUME use[u] # None, FailUse(u) PROVE RevivedByItsRequest
    BY <2>F, FinishingRevives DEF FailUse
  <2>1. ASSUME NEW s \in SessionIds, NEW put \in BOOLEAN, BeginUse(u, s, put)
        PROVE  RevivedByItsRequest
    <3>1. sessions' = [sessions EXCEPT ![s].uses = @ \cup {u}]
      BY <2>1 DEF BeginUse
    <3>2. \A r \in DOMAIN sessions : sessions'[r].expires = sessions[r].expires
      <4>1. s \in DOMAIN sessions /\ sessions[s] \in Session
        BY <2>1, SessionsParts DEF BeginUse, SessionsOfType
      <4>2. sessions'[s] = [sessions[s] EXCEPT !.uses = sessions[s].uses \cup {u}]
        BY <3>1, <4>1
      <4>3. sessions'[s].expires = sessions[s].expires
        BY <4>1, <4>2 DEF Session
      <4> QED  BY <3>1, <4>3
    <3> QED  BY <3>2, KeptLeases
  <2>2. CASE StreamContent(u)
    BY <2>2, <2>F, FinishingRevives DEF StreamContent, At
  <2>3. CASE CheckCurrentSession(u) \/ StoreSave(u) \/ LoadForSave(u) \/ BeforePublish(u)
             \/ PublishSave(u)
    BY <2>3, <2>F, <1>U
    DEF CheckCurrentSession, StoreSave, LoadForSave, BeforePublish, PublishSave, AdvanceUse, At
  <2>4. CASE AdvanceAfterSave(u)
    <3> DEFINE s == use[u].session
               f == use[u].file
               map == [sessions EXCEPT ![s].base = content[f], ![s].rev = 0, ![s].pending = FALSE]
    <3>1. use[u] # None /\ (FailUse(u) \/ (FinishUse(u, TRUE, map) /\ s \in DOMAIN sessions))
      BY <2>4 DEF AdvanceAfterSave, At
    <3>2. s \in DOMAIN sessions =>
             /\ DOMAIN map = DOMAIN sessions
             /\ map[s] = [sessions[s] EXCEPT !.base = content[f], !.rev = 0, !.pending = FALSE]
             /\ \A r \in DOMAIN sessions : r # s => map[r] = sessions[r]
      OBVIOUS
    <3>3. s \in DOMAIN sessions => sessions[s] \in Session
      BY SessionsParts DEF SessionsOfType
    <3> HIDE DEF map, s, f
    <3>4. s \in DOMAIN sessions => map[s].expires = sessions[s].expires
      BY <3>2, <3>3 DEF Session
    <3>5. s \in DOMAIN sessions => \A r \in DOMAIN map : map[r].expires = sessions[r].expires
      BY <3>2, <3>4
    <3> QED  BY <2>F, <3>1, <3>2, <3>5, FinishingRevives
  <2> QED  BY <1>5, <2>1, <2>2, <2>3, <2>4 DEF ServeUse
<1>6. CASE (Tick \/ OtherCommit) /\ UNCHANGED <<active, sessions, use, ask>>
  BY <1>6, <1>U
<1> QED  BY <1>1, <1>2, <1>3, <1>4, <1>5, <1>6 DEF SessionsNext

\* A lease that has run out is never revived by a renewal or a look at the
\* metadata, only by a request that began in time.
THEOREM ExpiredLeaseIsNotRevivedHolds == SessionsSpec => ExpiredLeaseIsNotRevived
<1>1. SessionsInductive /\ [SessionsNext]_sessionVars => [RevivedByItsRequest]_sessionVars
  BY LeasesAreOnlyRenewedInTime
<1> QED
  BY <1>1, SessionsInitHolds, SessionsNextPreserves, PTL
  DEF SessionsSpec, ExpiredLeaseIsNotRevived, RevivedByItsRequest

\* The step of SaveReplacesItsBase.
SavesOverBase ==
    \A u \in UseIds : (At(u, "ready") /\ use'[u] # None /\ use'[u].phase = "published")
        => content[use[u].file] = use[u].base

\* The step that saves is the request's own, and it compares the revision.
LEMMA SavingReplacesTheBase ==
    ASSUME SessionsInductive, SessionsNext
    PROVE  SavesOverBase
<1> SUFFICES ASSUME NEW u \in UseIds, use[u] # None, use[u].phase = "ready",
                    use'[u] # None, use'[u].phase = "published"
             PROVE  content[use[u].file] = use[u].base
  BY DEF SavesOverBase, At
<1>0. use \in [UseIds -> Use \cup {None}] /\ use[u] \in Use
  BY SessionsParts, UsesOfType
<1>1. ASSUME use'[u] = use[u] PROVE FALSE
  BY <1>1
<1>2. ASSUME NEW S, AbortAndDelete(S) PROVE FALSE
  <2>1. use'[u] = use[u] \/ use'[u] = [use[u] EXCEPT !.aborted = TRUE]
    BY <1>2 DEF AbortAndDelete
  <2>2. use'[u].phase = use[u].phase
    BY <1>0, <2>1 DEF Use
  <2> QED  BY <2>2
<1>3. ASSUME NEW s \in SessionIds, Renew(s) \/ Release(s) PROVE FALSE
  BY <1>1, <1>2, <1>3 DEF Renew, Release
<1>4. ASSUME NEW a \in Apps, Issuing(a) \/ Enable(a) \/ \E still \in BOOLEAN : Revoke(a, still)
      PROVE  FALSE
  <2>1. CASE Enable(a) \/ \E still \in BOOLEAN : Revoke(a, still)
    BY <1>1, <1>2, <2>1 DEF Enable, Revoke
  <2>2. CASE CheckAsk(a)
    BY <1>1, <1>2, <2>2 DEF CheckAsk
  <2>3. CASE \E ids \in SUBSET SessionIds : Issue(a, ids)
    BY <1>1, <2>3 DEF Issue
  <2>4. CASE \/ \E f \in Files, access \in Access : AskForFile(a, f, access)
             \/ \E files \in (SUBSET Files) \ {{}}, access \in Access : AskForLaunch(a, files, access)
    BY <1>1, <2>4 DEF AskForFile, AskForLaunch
  <2> QED  BY <1>4, <2>1, <2>2, <2>3, <2>4 DEF Issuing
<1>F. ASSUME NEW v \in UseIds, NEW ok, NEW map, FinishUse(v, ok, map) PROVE FALSE
  <2>1. use' = [use EXCEPT ![v] = None]
    BY <1>F DEF FinishUse
  <2> QED  BY <1>0, <1>1, <2>1
<1>5. ASSUME NEW v \in UseIds, ServeUse(v), v # u PROVE FALSE
  <2>1. use'[u] = use[u]
    BY <1>0, <1>5, <1>F
    DEF ServeUse, BeginUse, StreamContent, CheckCurrentSession, StoreSave, LoadForSave,
        BeforePublish, PublishSave, AdvanceAfterSave, FailUse, AdvanceUse
  <2> QED  BY <1>1, <2>1
<1>6. CASE ServeUse(u)
  <2>1. ~FailUse(u)
    BY <1>F DEF FailUse
  <2>2. \A s \in SessionIds, put \in BOOLEAN : ~BeginUse(u, s, put)
    BY DEF BeginUse
  <2>3. PublishSave(u)
    BY <1>6, <2>2 DEF ServeUse, StreamContent, CheckCurrentSession, StoreSave, LoadForSave,
       BeforePublish, AdvanceAfterSave, At
  <2>4. revision = use[u].loaded
    BY <2>1, <2>3 DEF PublishSave, Publish
  <2> QED  BY <2>4, SessionsParts DEF UsesMatchTheSessions
<1>7. CASE UNCHANGED <<active, sessions, use, ask>>
  BY <1>1, <1>7
<1> QED  BY <1>3, <1>4, <1>5, <1>6, <1>7 DEF SessionsNext

\* A save of a resource session replaces the content its request found in the
\* session, and a save target only ever creates its file.
THEOREM SaveReplacesItsBaseHolds == SessionsSpec => SaveReplacesItsBase
<1>1. SessionsInductive /\ [SessionsNext]_sessionVars => [SavesOverBase]_sessionVars
  BY SavingReplacesTheBase
<1> QED
  BY <1>1, SessionsInitHolds, SessionsNextPreserves, PTL
  DEF SessionsSpec, SaveReplacesItsBase, SavesOverBase

-----------------------------------------------------------------------------
(* The registries together.                                                *)

\* A behaviour is one of a single registry; nothing is requested of the others.
AccessInductive ==
    /\ part = "capabilities" => CapabilitiesInductive
    /\ part # "capabilities" => \A t \in TransferIds : job[t] = None
    /\ part = "sessions" => SessionsInductive
    /\ part # "sessions" => \A u \in UseIds : use[u] = None

\* The next-state relation of AccessSpec.
AccessStep == AccessNext /\ part' = part

\* The registries start empty.
LEMMA AccessInitHolds == AccessInit => AccessInductive
<1> SUFFICES ASSUME AccessInit PROVE AccessInductive
  OBVIOUS
<1>1. CapabilitiesInductive /\ SessionsInductive
  BY CapabilitiesInitHolds, SessionsInitHolds DEF AccessInit
<1> QED  BY <1>1 DEF AccessInit, AccessInductive, CapabilitiesInit, SessionsInit

\* A step is one of the registry whose behaviour this is.
LEMMA AccessNextPreserves == AccessInductive /\ [AccessStep]_accessVars => AccessInductive'
<1> SUFFICES ASSUME AccessInductive, [AccessStep]_accessVars
             PROVE  AccessInductive'
  OBVIOUS
<1>1. part' = part
  BY DEF AccessStep, accessVars
<1>2. CASE part = "capabilities"
  <2>1. [CapabilitiesNext]_capsVars /\ UNCHANGED use
    BY <1>2 DEF AccessStep, AccessNext, accessVars, mainFiles, capabilityState, sessionState, capsVars
  <2> QED  BY <1>1, <1>2, <2>1, CapabilitiesNextPreserves DEF AccessInductive
<1>3. CASE part = "sessions"
  <2>1. [SessionsNext]_sessionVars /\ UNCHANGED job
    BY <1>3 DEF AccessStep, AccessNext, accessVars, mainFiles, capabilityState, sessionState, sessionVars
  <2> QED  BY <1>1, <1>3, <2>1, SessionsNextPreserves DEF AccessInductive
<1>4. CASE part # "capabilities" /\ part # "sessions"
  <2>1. UNCHANGED <<job, use>>
    BY <1>4 DEF AccessStep, AccessNext, accessVars, capabilityState, sessionState
  <2> QED  BY <1>1, <1>4, <2>1 DEF AccessInductive
<1> QED  BY <1>2, <1>3, <1>4

\* Every save, of either kind, replaces its base.
LEMMA AccessStepsReplaceTheBase ==
    ASSUME AccessInductive, [AccessStep]_accessVars
    PROVE  [PublishesOverBase]_capsVars /\ [SavesOverBase]_sessionVars
<1>1. CASE part = "capabilities"
  <2>1. [CapabilitiesNext]_capsVars /\ \A u \in UseIds : use[u] = None
    BY <1>1 DEF AccessInductive, AccessStep, AccessNext, accessVars, mainFiles,
       capabilityState, capsVars
  <2> QED
    BY <1>1, <2>1, PublishingReplacesTheBase DEF AccessInductive, SavesOverBase, At
<1>2. CASE part = "sessions"
  <2>1. [SessionsNext]_sessionVars /\ \A t \in TransferIds : job[t] = None
    BY <1>2 DEF AccessInductive, AccessStep, AccessNext, accessVars, mainFiles,
       sessionState, sessionVars
  <2> QED
    BY <1>2, <2>1, SavingReplacesTheBase DEF AccessInductive, PublishesOverBase, Serving
<1>3. CASE part # "capabilities" /\ part # "sessions"
  BY <1>3 DEF AccessInductive, PublishesOverBase, SavesOverBase, Serving, At
<1> QED  BY <1>1, <1>2, <1>3

\* Whichever of the two ways a file is saved, through a file handle or a resource
\* session, and whoever writes it in between, the save replaces exactly the
\* content its request found in the handle or the session when it began, or
\* fails.  Whether the client has seen that content is another question.
THEOREM SavesReplaceTheirBaseHolds == AccessSpec => SavesReplaceTheirBase
<1>1. AccessInductive /\ [AccessStep]_accessVars =>
         [PublishesOverBase]_capsVars /\ [SavesOverBase]_sessionVars
  BY AccessStepsReplaceTheBase
<1>2. AccessSpec <=> AccessInit /\ [][AccessStep]_accessVars
  BY DEF AccessSpec, AccessStep
<1>3. AccessSpec => [][PublishesOverBase]_capsVars /\ [][SavesOverBase]_sessionVars
  BY <1>1, <1>2, AccessInitHolds, AccessNextPreserves, PTL
<1> QED
  BY <1>3 DEF SavesReplaceTheirBase, NoBlindOverwrite, SaveReplacesItsBase,
     PublishesOverBase, SavesOverBase

-----------------------------------------------------------------------------
(* Limits on the number of launches, tickets and cookies.                  *)

\* A map with fewer keys than a limit stays within it when it loses keys, and
\* has room for one more if it had room.
LEMMA MapsWithinLimits ==
    ASSUME NEW Keys, IsFiniteSet(Keys), NEW keys \in SUBSET Keys, NEW limit \in Nat,
           Cardinality(keys) <= limit
    PROVE  /\ \A less \in SUBSET keys : Cardinality(less) <= limit
           /\ \A less \in SUBSET keys : \A k \in Keys :
                 Cardinality(less) < limit => Cardinality(less \cup {k}) <= limit
<1>1. IsFiniteSet(keys)
  BY FS_Subset
<1>2. ASSUME NEW less \in SUBSET keys PROVE Cardinality(less) <= limit
  <2>1. Cardinality(less) <= Cardinality(keys) /\ IsFiniteSet(less)
    BY <1>1, FS_Subset
  <2>2. Cardinality(less) \in Nat /\ Cardinality(keys) \in Nat
    BY <1>1, <2>1, FS_CardinalityType
  <2> QED  BY <2>1, <2>2
<1>3. ASSUME NEW less \in SUBSET keys, NEW k \in Keys, Cardinality(less) < limit
      PROVE  Cardinality(less \cup {k}) <= limit
  <2>1. IsFiniteSet(less)
    BY <1>1, FS_Subset
  <2>2. Cardinality(less) \in Nat
    BY <2>1, FS_CardinalityType
  <2>3. Cardinality(less \cup {k}) \in {Cardinality(less), Cardinality(less) + 1}
    BY <2>1, FS_AddElement
  <2> QED  BY <1>3, <2>2, <2>3
<1> QED  BY <1>2, <1>3

-----------------------------------------------------------------------------
(* Open-resource launches.                                                 *)

\* What holds of the two maps of the registry of launches.
LaunchMaps(ls, by) ==
    /\ DOMAIN ls \subseteq LaunchIds /\ DOMAIN by \subseteq TargetApps
    /\ \A l \in DOMAIN ls : ls[l] \in Launch
    /\ Cardinality(DOMAIN ls) <= MaxLaunches
    /\ \A l \in DOMAIN ls : ls[l].target \in DOMAIN by /\ by[ls[l].target] = l
    /\ \A a \in DOMAIN by : by[a] \in DOMAIN ls /\ ls[by[a]].target = a

\* The inductive invariant of the launches, clause by clause.
LEMMA LaunchesParts ==
    /\ LaunchesInductive <=>
          /\ MainFilesTypeOK /\ offers \in [TargetApps -> SUBSET Actions]
          /\ page \in Page \cup {None} /\ claims \in [LaunchIds -> Claim \cup {None}]
          /\ handed \subseteq LaunchIds \X TargetApps
          /\ LaunchMaps(launches, byTargetApp)
          /\ HandedOverOnce /\ ClaimsAreTaken
    /\ LaunchesInductive' <=>
          /\ MainFilesTypeOK' /\ offers' \in [TargetApps -> SUBSET Actions]
          /\ page' \in Page \cup {None} /\ claims' \in [LaunchIds -> Claim \cup {None}]
          /\ handed' \subseteq LaunchIds \X TargetApps
          /\ LaunchMaps(launches', byTargetApp')
          /\ HandedOverOnce' /\ ClaimsAreTaken'
BY DEF LaunchesInductive, LaunchesInvariant, LaunchesTypeOK, BusyMeansPending, LaunchMaps

\* A set of launches leaves both maps together: #delete.
LEMMA ForgettingKeepsTheMaps ==
    ASSUME LaunchMaps(launches, byTargetApp), NEW L
    PROVE  LaunchMaps(Drop(launches, L),
                      Drop(byTargetApp, {a \in DOMAIN byTargetApp : byTargetApp[a] \in L}))
<1> DEFINE ls == Drop(launches, L)
           by == Drop(byTargetApp, {a \in DOMAIN byTargetApp : byTargetApp[a] \in L})
<1>1. /\ DOMAIN ls = DOMAIN launches \ L
      /\ \A l \in DOMAIN launches \ L : ls[l] = launches[l]
      /\ DOMAIN by = {a \in DOMAIN byTargetApp : byTargetApp[a] \notin L}
      /\ \A a \in DOMAIN byTargetApp : byTargetApp[a] \notin L => by[a] = byTargetApp[a]
  BY DEF Drop, Restrict
<1> HIDE DEF ls, by
<1>2. Cardinality(DOMAIN ls) <= MaxLaunches
  <2>1. DOMAIN ls \in SUBSET DOMAIN launches /\ DOMAIN launches \in SUBSET LaunchIds
    BY <1>1 DEF LaunchMaps
  <2> QED  BY <2>1, MapsWithinLimits, LaunchesAssumption DEF LaunchMaps
<1>3. \A l \in DOMAIN ls : ls[l].target \in DOMAIN by /\ by[ls[l].target] = l
  BY <1>1 DEF LaunchMaps
<1>4. \A a \in DOMAIN by : by[a] \in DOMAIN ls /\ ls[by[a]].target = a
  BY <1>1 DEF LaunchMaps
<1>5. LaunchMaps(ls, by)
  BY <1>1, <1>2, <1>3, <1>4 DEF LaunchMaps
<1> QED  BY <1>5 DEF ls, by

\* The registry is empty at first.
LEMMA LaunchesInitHolds == LaunchesInit => LaunchesInductive
<1> SUFFICES ASSUME LaunchesInit PROVE LaunchesInductive
  OBVIOUS
<1>1. MainFilesTypeOK
  BY FilesAssumption DEF LaunchesInit, MainFilesInit, MainFilesTypeOK
<1>2. LaunchMaps(launches, byTargetApp)
  <2>1. DOMAIN launches = {} /\ DOMAIN byTargetApp = {}
    BY DEF LaunchesInit
  <2> QED  BY <2>1, FS_EmptySet, LaunchesAssumption DEF LaunchMaps
<1>3. HandedOverOnce /\ ClaimsAreTaken
  BY DEF LaunchesInit, HandedOverOnce, ClaimsAreTaken
<1> QED  BY <1>1, <1>2, <1>3, LaunchesParts DEF LaunchesInit

\* Launches leave the registry, and claims and what was handed over stay.
LEMMA ForgettingIsSafe ==
    ASSUME LaunchesInductive, NEW L, ForgetLaunches(L)
    PROVE  /\ LaunchMaps(launches', byTargetApp')
           /\ DOMAIN launches' = DOMAIN launches \ L
<1> DEFINE B == {a \in DOMAIN byTargetApp :
                     byTargetApp[a] \in L /\ launches[byTargetApp[a]].target = a}
<1>1. LaunchMaps(launches, byTargetApp)
  BY LaunchesParts
<1>2. B = {a \in DOMAIN byTargetApp : byTargetApp[a] \in L}
  BY <1>1 DEF LaunchMaps
<1>3. launches' = Drop(launches, L) /\ byTargetApp' = Drop(byTargetApp, B)
  BY DEF ForgetLaunches
<1>4. DOMAIN launches' = DOMAIN launches \ L
  BY <1>3 DEF Drop, Restrict
<1> HIDE DEF B
<1>5. /\ launches' = Drop(launches, L)
      /\ byTargetApp' = Drop(byTargetApp, {a \in DOMAIN byTargetApp : byTargetApp[a] \in L})
  BY <1>2, <1>3
<1> QED  BY <1>1, <1>4, <1>5, ForgettingKeepsTheMaps

\* Fewer launches disturb neither a claim nor what was handed over.
LEMMA LosingLaunchesIsSafe ==
    ASSUME LaunchesInductive, LaunchMaps(launches', byTargetApp'),
           DOMAIN launches' \subseteq DOMAIN launches,
           UNCHANGED <<clock, content, revision, claims, handed>>,
           offers' \in [TargetApps -> SUBSET Actions], page' \in Page \cup {None}
    PROVE  LaunchesInductive'
<1>1. HandedOverOnce' /\ ClaimsAreTaken'
  BY LaunchesParts DEF HandedOverOnce, ClaimsAreTaken
<1> QED  BY <1>1, LaunchesParts DEF MainFilesTypeOK

\* The page's request and the creation of a launch preserve the invariant.
LEMMA CreatingKeepsLaunches ==
    ASSUME LaunchesInductive, NEW l \in LaunchIds, CreateLaunch(l)
    PROVE  LaunchesInductive'
<1> DEFINE kept == Drop(launches, ExpiredLaunches)
           targets == Drop(byTargetApp, {b \in DOMAIN byTargetApp : byTargetApp[b] \in ExpiredLaunches})
           new == [target |-> page.target, action |-> page.action,
                   rev |-> page.rev, expires |-> clock + LaunchTtl]
<1>0. LaunchMaps(launches, byTargetApp) /\ MainFilesTypeOK /\ clock + LaunchTtl \in Nat
      /\ MaxLaunches \in Nat
  BY LaunchesParts, LaunchesAssumption, FilesAssumption DEF MainFilesTypeOK
<1>1. /\ page \in Page /\ page' = None
      /\ UNCHANGED <<clock, content, revision, offers, claims, handed>>
  BY LaunchesParts DEF CreateLaunch, OutsideLaunches
<1>2. /\ DOMAIN kept = DOMAIN launches \ ExpiredLaunches
      /\ \A m \in DOMAIN launches \ ExpiredLaunches : kept[m] = launches[m]
      /\ DOMAIN targets = {a \in DOMAIN byTargetApp : byTargetApp[a] \notin ExpiredLaunches}
      /\ \A a \in DOMAIN byTargetApp :
            byTargetApp[a] \notin ExpiredLaunches => targets[a] = byTargetApp[a]
  BY DEF Drop, Restrict
<1>3. \/ UNCHANGED <<launches, byTargetApp>>
      \/ launches' = kept /\ byTargetApp' = targets
      \/ /\ page.target \notin DOMAIN targets /\ Room(kept) /\ UnusedLaunch(l)
         /\ launches' = Bind(kept, l, new) /\ byTargetApp' = Bind(targets, page.target, l)
  BY DEF CreateLaunch
<1>4. new \in Launch /\ new.target = page.target /\ page.target \in TargetApps
  BY <1>0, <1>1 DEF Page, Launch
<1>5. LaunchMaps(kept, targets)
  BY <1>0, ForgettingKeepsTheMaps
<1> HIDE DEF kept, targets, new
<1>6. CASE UNCHANGED <<launches, byTargetApp>>
  BY <1>0, <1>1, <1>6, LosingLaunchesIsSafe, LaunchesParts
<1>7. CASE launches' = kept /\ byTargetApp' = targets
  BY <1>1, <1>2, <1>5, <1>7, LosingLaunchesIsSafe, LaunchesParts
<1>8. CASE /\ page.target \notin DOMAIN targets /\ Room(kept) /\ UnusedLaunch(l)
           /\ launches' = Bind(kept, l, new) /\ byTargetApp' = Bind(targets, page.target, l)
  <2>1. /\ DOMAIN launches' = DOMAIN kept \cup {l} /\ launches'[l] = new
        /\ \A m \in DOMAIN kept : m # l => launches'[m] = kept[m]
    BY <1>8 DEF Bind
  <2>2. /\ DOMAIN byTargetApp' = DOMAIN targets \cup {page.target}
        /\ byTargetApp'[page.target] = l
        /\ \A a \in DOMAIN targets : a # page.target => byTargetApp'[a] = targets[a]
    BY <1>8 DEF Bind
  <2>3. /\ l \notin DOMAIN launches /\ claims[l] = None
        /\ \A a \in TargetApps : <<l, a>> \notin handed
    BY <1>8 DEF UnusedLaunch
  <2>4. l \notin DOMAIN kept
    BY <1>2, <2>3
  <2>5. Cardinality(DOMAIN launches') <= MaxLaunches
    <3>1. Cardinality(DOMAIN kept) <= MaxLaunches /\ DOMAIN kept \in SUBSET LaunchIds
      BY <1>5 DEF LaunchMaps
    <3>2. Cardinality(DOMAIN kept) < MaxLaunches
      BY <1>8 DEF Room
    <3> QED  BY <1>0, <2>1, <3>1, <3>2, MapsWithinLimits, LaunchesAssumption
  <2>6. \A m \in DOMAIN launches' :
           launches'[m].target \in DOMAIN byTargetApp' /\ byTargetApp'[launches'[m].target] = m
    <3> SUFFICES ASSUME NEW m \in DOMAIN launches'
                 PROVE  /\ launches'[m].target \in DOMAIN byTargetApp'
                        /\ byTargetApp'[launches'[m].target] = m
      OBVIOUS
    <3>1. CASE m = l
      BY <1>4, <2>1, <2>2, <3>1
    <3>2. CASE m # l
      <4>1. /\ m \in DOMAIN kept /\ launches'[m] = kept[m]
            /\ kept[m].target \in DOMAIN targets /\ targets[kept[m].target] = m
        BY <1>5, <2>1, <3>2 DEF LaunchMaps
      <4> QED  BY <1>8, <2>2, <4>1
    <3> QED  BY <3>1, <3>2
  <2>7. \A a \in DOMAIN byTargetApp' :
           byTargetApp'[a] \in DOMAIN launches' /\ launches'[byTargetApp'[a]].target = a
    <3> SUFFICES ASSUME NEW a \in DOMAIN byTargetApp'
                 PROVE  /\ byTargetApp'[a] \in DOMAIN launches'
                        /\ launches'[byTargetApp'[a]].target = a
      OBVIOUS
    <3>1. CASE a = page.target
      BY <1>4, <2>1, <2>2, <3>1
    <3>2. CASE a # page.target
      <4>1. /\ a \in DOMAIN targets /\ byTargetApp'[a] = targets[a]
            /\ targets[a] \in DOMAIN kept /\ kept[targets[a]].target = a
        BY <1>5, <2>2, <3>2 DEF LaunchMaps
      <4> QED  BY <2>1, <2>4, <4>1
    <3> QED  BY <3>1, <3>2
  <2>8. LaunchMaps(launches', byTargetApp')
    <3>1. DOMAIN launches' \subseteq LaunchIds /\ DOMAIN byTargetApp' \subseteq TargetApps
      BY <1>4, <1>5, <2>1, <2>2 DEF LaunchMaps
    <3>2. \A m \in DOMAIN launches' : launches'[m] \in Launch
      BY <1>4, <1>5, <2>1 DEF LaunchMaps
    <3> QED  BY <2>5, <2>6, <2>7, <3>1, <3>2 DEF LaunchMaps
  <2>9. \A m \in LaunchIds : m # l /\ m \notin DOMAIN launches => m \notin DOMAIN launches'
    BY <1>2, <2>1
  <2>10. HandedOverOnce'
    BY <1>1, <2>3, <2>9, LaunchesParts DEF HandedOverOnce
  <2>11. ClaimsAreTaken'
    BY <1>1, <2>3, <2>9, LaunchesParts DEF ClaimsAreTaken
  <2> QED  BY <1>1, <2>8, <2>10, <2>11, LaunchesParts DEF MainFilesTypeOK
<1> QED  BY <1>3, <1>6, <1>7, <1>8

\* A claim takes its launch out of the registry, so that no other finds it.
LEMMA ClaimingKeepsLaunches ==
    ASSUME LaunchesInductive, NEW l \in LaunchIds, NEW a \in TargetApps, ClaimLaunch(l, a)
    PROVE  LaunchesInductive'
<1> DEFINE new == [target |-> a, action |-> launches[l].action,
                   rev |-> launches[l].rev, checked |-> FALSE]
<1>1. /\ l \in DOMAIN launches /\ ForgetLaunches({l})
      /\ claims' = claims \/ claims' = [claims EXCEPT ![l] = new]
      /\ UNCHANGED <<clock, content, revision, offers, page, handed>>
  BY DEF ClaimLaunch, OutsideLaunches
<1>2. LaunchMaps(launches', byTargetApp') /\ DOMAIN launches' = DOMAIN launches \ {l}
  BY <1>1, ForgettingIsSafe
<1>3. launches[l] \in Launch
  BY <1>1, LaunchesParts DEF LaunchMaps
<1>4. new \in Claim
  BY <1>3 DEF Launch, Claim
<1> HIDE DEF new
<1>5. claims' \in [LaunchIds -> Claim \cup {None}] /\ \A m \in LaunchIds : m # l => claims'[m] = claims[m]
  BY <1>1, <1>4, LaunchesParts
<1>6. \A b \in TargetApps : <<l, b>> \notin handed
  BY <1>1, LaunchesParts DEF HandedOverOnce
<1>7. HandedOverOnce'
  BY <1>1, <1>2, LaunchesParts DEF HandedOverOnce
<1>8. ClaimsAreTaken'
  <2> SUFFICES ASSUME NEW m \in LaunchIds, claims'[m] # None
               PROVE  m \notin DOMAIN launches' /\ \A b \in TargetApps : <<m, b>> \notin handed
    BY <1>1 DEF ClaimsAreTaken
  <2>1. CASE m = l
    BY <1>2, <1>6, <2>1
  <2>2. CASE m # l
    BY <1>2, <1>5, <2>2, LaunchesParts DEF ClaimsAreTaken
  <2> QED  BY <2>1, <2>2
<1> QED  BY <1>1, <1>2, <1>5, <1>7, <1>8, LaunchesParts DEF MainFilesTypeOK

\* A claim that is validated and handed over is gone after that.
LEMMA HandingOverKeepsLaunches ==
    ASSUME LaunchesInductive, NEW l \in LaunchIds, CheckClaim(l) \/ HandOver(l)
    PROVE  LaunchesInductive'
<1>1. CASE CheckClaim(l)
  <2> DEFINE c == IF claims[l].rev = revision THEN [claims[l] EXCEPT !.checked = TRUE] ELSE None
  <2>1. /\ claims[l] # None /\ claims' = [claims EXCEPT ![l] = c]
        /\ UNCHANGED <<clock, content, revision, offers, launches, byTargetApp, page, handed>>
    BY <1>1 DEF CheckClaim, OutsideLaunches
  <2>2. claims[l] \in Claim
    BY <2>1, LaunchesParts
  <2>3. c \in Claim \cup {None}
    BY <2>2 DEF Claim
  <2> HIDE DEF c
  <2>4. /\ claims' \in [LaunchIds -> Claim \cup {None}]
        /\ \A m \in LaunchIds : claims'[m] # None => claims[m] # None
    BY <2>1, <2>3, LaunchesParts
  <2>5. HandedOverOnce' /\ ClaimsAreTaken'
    BY <2>1, <2>4, LaunchesParts DEF HandedOverOnce, ClaimsAreTaken
  <2> QED  BY <2>1, <2>4, <2>5, LaunchesParts DEF MainFilesTypeOK
<1>2. CASE HandOver(l)
  <2> DEFINE a == claims[l].target
  <2>1. /\ claims[l] # None /\ claims' = [claims EXCEPT ![l] = None]
        /\ handed' = handed \cup {<<l, a>>} \/ handed' = handed
        /\ UNCHANGED <<clock, content, revision, offers, launches, byTargetApp, page>>
    BY <1>2 DEF HandOver, OutsideLaunches
  <2>2. a \in TargetApps
    BY <2>1, LaunchesParts DEF Claim
  <2>3. l \notin DOMAIN launches /\ \A b \in TargetApps : <<l, b>> \notin handed
    BY <2>1, LaunchesParts DEF ClaimsAreTaken
  <2> HIDE DEF a
  <2>4. /\ claims' \in [LaunchIds -> Claim \cup {None}]
        /\ \A m \in LaunchIds : claims'[m] # None => m # l /\ claims[m] # None
    BY <2>1, LaunchesParts
  <2>5. handed' \subseteq LaunchIds \X TargetApps
    BY <2>1, <2>2, LaunchesParts
  <2>6. \A m \in LaunchIds, b \in TargetApps :
           <<m, b>> \in handed' => (<<m, b>> \in handed /\ m # l) \/ (m = l /\ b = a)
    BY <2>1, <2>3
  <2>7. HandedOverOnce'
    BY <2>1, <2>3, <2>6, LaunchesParts DEF HandedOverOnce
  <2>8. ClaimsAreTaken'
    BY <2>1, <2>4, <2>6, LaunchesParts DEF ClaimsAreTaken
  <2> QED  BY <2>1, <2>4, <2>5, <2>7, <2>8, LaunchesParts DEF MainFilesTypeOK
<1> QED  BY <1>1, <1>2

\* The page's requests, and a window that closes or an application that changes.
LEMMA PagesAndAppsKeepLaunches ==
    ASSUME LaunchesInductive,
           Resolve \/ CheckTarget \/ \E a \in TargetApps : CloseWindow(a) \/ ChangeApp(a)
    PROVE  LaunchesInductive'
<1>0. revision \in 0..MaxRevision /\ offers \in [TargetApps -> SUBSET Actions]
      /\ LaunchMaps(launches, byTargetApp)
  BY LaunchesParts DEF MainFilesTypeOK
<1>1. CASE Resolve
  <2>1. PICK action \in Actions : \E a \in Candidates(EffectiveAction(action)) :
           page' = [action |-> EffectiveAction(action), target |-> a, rev |-> revision,
                    checked |-> FALSE]
    BY <1>1 DEF Resolve
  <2>2. EffectiveAction(action) \in Actions
    BY DEF EffectiveAction, Actions
  <2>3. PICK a \in TargetApps :
           page' = [action |-> EffectiveAction(action), target |-> a, rev |-> revision,
                    checked |-> FALSE]
    BY <2>1 DEF Candidates
  <2>4. page' \in Page
    BY <1>0, <2>2, <2>3 DEF Page
  <2>5. UNCHANGED <<clock, content, revision, offers, launches, byTargetApp, claims, handed>>
    BY <1>1 DEF Resolve, OutsideLaunches
  <2> QED  BY <1>0, <2>4, <2>5, LosingLaunchesIsSafe
<1>2. CASE CheckTarget
  <2>1. page' = [page EXCEPT !.checked = TRUE] \/ page' = None
    BY <1>2 DEF CheckTarget
  <2>2. page \in Page
    BY <1>2, LaunchesParts DEF CheckTarget
  <2>3. page' \in Page \cup {None}
    BY <2>1, <2>2 DEF Page
  <2>4. UNCHANGED <<clock, content, revision, offers, launches, byTargetApp, claims, handed>>
    BY <1>2 DEF CheckTarget, OutsideLaunches
  <2> QED  BY <1>0, <2>3, <2>4, LosingLaunchesIsSafe
<1>3. ASSUME NEW a \in TargetApps, CancelTarget(a)
      PROVE  LaunchMaps(launches', byTargetApp') /\ DOMAIN launches' \subseteq DOMAIN launches
  BY <1>0, <1>3, ForgettingIsSafe DEF CancelTarget
<1>4. ASSUME NEW a \in TargetApps, CloseWindow(a)
      PROVE  LaunchesInductive'
  <2>1. CancelTarget(a) /\ UNCHANGED <<clock, content, revision, offers, page, claims, handed>>
    BY <1>4 DEF CloseWindow, OutsideLaunches
  <2> QED  BY <1>3, <2>1, LosingLaunchesIsSafe, LaunchesParts
<1>5. ASSUME NEW a \in TargetApps, ChangeApp(a)
      PROVE  LaunchesInductive'
  <2>1. CancelTarget(a) /\ UNCHANGED <<clock, content, revision, page, claims, handed>>
    BY <1>5 DEF ChangeApp, OutsideLaunches
  <2>2. offers' \in [TargetApps -> SUBSET Actions]
    BY <1>0, <1>5 DEF ChangeApp, Actions
  <2> QED  BY <1>3, <2>1, <2>2, LosingLaunchesIsSafe, LaunchesParts
<1> QED  BY <1>1, <1>2, <1>4, <1>5

\* The invariant of the launches is inductive.
LEMMA LaunchesNextPreserves ==
    LaunchesInductive /\ [LaunchesNext]_launchVars => LaunchesInductive'
<1> SUFFICES ASSUME LaunchesInductive, [LaunchesNext]_launchVars
             PROVE  LaunchesInductive'
  OBVIOUS
<1>1. ASSUME MainFilesTypeOK', UNCHANGED <<offers, launches, byTargetApp, page, claims, handed>>
      PROVE  LaunchesInductive'
  BY <1>1, LaunchesParts DEF HandedOverOnce, ClaimsAreTaken
<1>2. CASE (Tick \/ Revise) /\ UNCHANGED <<offers, launches, byTargetApp, page, claims, handed>>
  <2>1. MainFilesTypeOK'
    BY <1>2, LaunchesParts, FilesAssumption DEF MainFilesTypeOK, Tick, Revise
  <2> QED  BY <1>1, <1>2, <2>1
<1>3. CASE UNCHANGED launchVars
  BY <1>1, <1>3, LaunchesParts DEF launchVars, MainFilesTypeOK
<1> QED
  BY <1>2, <1>3, CreatingKeepsLaunches, ClaimingKeepsLaunches, HandingOverKeepsLaunches,
     PagesAndAppsKeepLaunches DEF LaunchesNext

\* In every state of the launches the two maps of the registry agree, so that a
\* target is busy exactly while a launch for it is pending, and a launch is
\* handed to one window only, however many claim it.
THEOREM LaunchesInvariantHolds == LaunchesSpec => []LaunchesInvariant
<1>1. LaunchesInductive => LaunchesInvariant
  BY DEF LaunchesInductive
<1> QED
  BY <1>1, LaunchesInitHolds, LaunchesNextPreserves, PTL DEF LaunchesSpec

-----------------------------------------------------------------------------
(* Browser sessions.                                                       *)

\* What holds of the maps of tickets and of sessions.
TicketsOfType(ts) ==
    /\ DOMAIN ts \subseteq TicketIds
    /\ Cardinality(DOMAIN ts) <= MaxTickets
    /\ \A t \in DOMAIN ts : ts[t] \in [instance : Instances, expires : Nat]

CookiesOfType(cs) ==
    /\ DOMAIN cs \subseteq SessionKeys
    /\ Cardinality(DOMAIN cs) <= MaxBrowserSessions
    /\ \A s \in DOMAIN cs : cs[s] \in [instance : Instances, touched : Nat, ticket : TicketIds]

\* What is not a map.
SystemOfType ==
    /\ time \in 0..MaxTime
    /\ \A i \in {present, running, enabled, removing, forgotten} : i \subseteq Instances
    /\ proxied \in Instances \cup {NoRequest}

\* The inductive invariant of the browser sessions, clause by clause.
LEMMA BrowserSessionsParts ==
    /\ BrowserSessionsInductive <=>
          /\ SystemOfType /\ TicketsOfType(tickets) /\ CookiesOfType(cookies)
          /\ OneSessionPerTicket /\ DeletedInstanceIsRevoked
    /\ BrowserSessionsInductive' <=>
          /\ SystemOfType' /\ TicketsOfType(tickets') /\ CookiesOfType(cookies')
          /\ OneSessionPerTicket' /\ DeletedInstanceIsRevoked'
BY DEF BrowserSessionsInductive, BrowserSessionsInvariant, BrowserSessionsTypeOK, SystemOfType,
   TicketsOfType, CookiesOfType

\* Credentials only get fewer.
FewerTickets(ts) == DOMAIN ts \subseteq DOMAIN tickets /\ \A t \in DOMAIN ts : ts[t] = tickets[t]
FewerCookies(cs) == DOMAIN cs \subseteq DOMAIN cookies /\ \A s \in DOMAIN cs : cs[s] = cookies[s]

\* Taking credentials away keeps what holds of them.
LEMMA FewerCredentials ==
    ASSUME BrowserSessionsInductive, NEW ts, FewerTickets(ts), NEW cs, FewerCookies(cs)
    PROVE  TicketsOfType(ts) /\ CookiesOfType(cs)
<1>1. Cardinality(DOMAIN ts) <= MaxTickets
  <2>1. DOMAIN ts \in SUBSET DOMAIN tickets /\ DOMAIN tickets \in SUBSET TicketIds
    BY BrowserSessionsParts DEF TicketsOfType, FewerTickets
  <2>2. Cardinality(DOMAIN tickets) <= MaxTickets
    BY BrowserSessionsParts DEF TicketsOfType
  <2> QED  BY <2>1, <2>2, MapsWithinLimits, BrowserSessionsAssumption
<1>2. Cardinality(DOMAIN cs) <= MaxBrowserSessions
  <2>1. DOMAIN cs \in SUBSET DOMAIN cookies /\ DOMAIN cookies \in SUBSET SessionKeys
    BY BrowserSessionsParts DEF CookiesOfType, FewerCookies
  <2>2. Cardinality(DOMAIN cookies) <= MaxBrowserSessions
    BY BrowserSessionsParts DEF CookiesOfType
  <2> QED  BY <2>1, <2>2, MapsWithinLimits, BrowserSessionsAssumption
<1>3. TicketsOfType(ts)
  BY <1>1, BrowserSessionsParts DEF TicketsOfType, FewerTickets
<1>4. CookiesOfType(cs)
  BY <1>2, BrowserSessionsParts DEF CookiesOfType, FewerCookies
<1> QED  BY <1>3, <1>4

\* prune only takes credentials away.
LEMMA PruneTakesAway ==
    /\ FewerTickets(LiveTickets) /\ FewerCookies(LiveSessions)
    /\ FewerTickets(tickets) /\ FewerCookies(cookies)
    /\ \A keys : FewerTickets(Without(tickets, keys)) /\ FewerCookies(Without(cookies, keys))
BY DEF FewerTickets, FewerCookies, LiveTickets, LiveSessions, Without, Restrict

\* A step that only takes credentials away, where the Instances that are there,
\* being deleted or left behind become no fewer.
LEMMA TakingAwayIsSafe ==
    ASSUME BrowserSessionsInductive, SystemOfType',
           FewerTickets(tickets'), FewerCookies(cookies'),
           present \cup removing \cup forgotten \subseteq present' \cup removing' \cup forgotten'
    PROVE  BrowserSessionsInductive'
<1>1. TicketsOfType(tickets') /\ CookiesOfType(cookies')
  BY FewerCredentials
<1>2. OneSessionPerTicket'
  BY BrowserSessionsParts DEF OneSessionPerTicket, FewerTickets, FewerCookies
<1>3. DeletedInstanceIsRevoked'
  BY BrowserSessionsParts DEF DeletedInstanceIsRevoked, FewerTickets, FewerCookies
<1> QED  BY <1>1, <1>2, <1>3, BrowserSessionsParts

\* Nothing is issued at first.
LEMMA BrowserSessionsInitHolds == BrowserSessionsInit => BrowserSessionsInductive
<1> SUFFICES ASSUME BrowserSessionsInit PROVE BrowserSessionsInductive
  OBVIOUS
<1>1. DOMAIN tickets = {} /\ DOMAIN cookies = {}
  BY DEF BrowserSessionsInit
<1>2. SystemOfType
  BY BrowserSessionsAssumption DEF BrowserSessionsInit, SystemOfType
<1>3. TicketsOfType(tickets) /\ CookiesOfType(cookies)
  BY <1>1, FS_EmptySet, BrowserSessionsAssumption DEF TicketsOfType, CookiesOfType
<1>4. OneSessionPerTicket /\ DeletedInstanceIsRevoked
  BY <1>1 DEF OneSessionPerTicket, DeletedInstanceIsRevoked
<1> QED  BY <1>2, <1>3, <1>4, BrowserSessionsParts

\* A page is given a ticket that no session came from.
LEMMA OpeningKeeps ==
    ASSUME BrowserSessionsInductive, NEW i \in Instances, NEW t \in TicketIds, OpenInstance(i, t)
    PROVE  BrowserSessionsInductive'
<1> DEFINE new == [instance |-> i, expires |-> time + TicketTtl]
<1>1. /\ i \in present /\ cookies' = LiveSessions
      /\ UNCHANGED <<time, present, running, enabled, removing, forgotten, proxied>>
  BY DEF OpenInstance, browserState
<1>2. SystemOfType'
  BY <1>1, BrowserSessionsParts DEF SystemOfType
<1>3. CASE tickets' = LiveTickets
  BY <1>1, <1>2, <1>3, PruneTakesAway, TakingAwayIsSafe
<1>4. CASE /\ Cardinality(DOMAIN LiveTickets) < MaxTickets /\ FreshTicket(t)
           /\ tickets' = With(LiveTickets, t, new)
  <2>1. time + TicketTtl \in Nat
    BY BrowserSessionsParts, BrowserSessionsAssumption DEF SystemOfType
  <2>2. new \in [instance : Instances, expires : Nat] /\ new.instance = i
    BY <2>1
  <2> HIDE DEF new
  <2>3. FewerTickets(LiveTickets) /\ FewerCookies(cookies')
    BY <1>1, PruneTakesAway
  <2>4. TicketsOfType(LiveTickets) /\ CookiesOfType(cookies')
    BY <2>3, FewerCredentials
  <2>5. /\ DOMAIN tickets' = DOMAIN LiveTickets \cup {t} /\ tickets'[t] = new
        /\ \A u \in DOMAIN LiveTickets : u # t => tickets'[u] = LiveTickets[u]
    BY <1>4 DEF With
  <2>6. Cardinality(DOMAIN tickets') <= MaxTickets
    <3>1. DOMAIN LiveTickets \in SUBSET TicketIds /\ Cardinality(DOMAIN LiveTickets) <= MaxTickets
      BY <2>4 DEF TicketsOfType
    <3> QED  BY <1>4, <2>5, <3>1, MapsWithinLimits, BrowserSessionsAssumption
  <2>7. TicketsOfType(tickets')
    BY <2>2, <2>4, <2>5, <2>6 DEF TicketsOfType
  <2>8. \A u \in DOMAIN tickets' : u # t => u \in DOMAIN tickets /\ tickets'[u] = tickets[u]
    BY <2>3, <2>5 DEF FewerTickets
  <2>9. \A s \in DOMAIN cookies : cookies[s].ticket # t
    BY <1>4 DEF FreshTicket
  <2>10. OneSessionPerTicket'
    BY <2>3, <2>8, <2>9, BrowserSessionsParts DEF OneSessionPerTicket, FewerCookies
  <2>11. DeletedInstanceIsRevoked'
    <3> SUFFICES ASSUME NEW k \in Instances \ (present \cup removing \cup forgotten)
                 PROVE  /\ \A u \in DOMAIN tickets' : tickets'[u].instance # k
                        /\ \A s \in DOMAIN cookies' : cookies'[s].instance # k
      BY <1>1 DEF DeletedInstanceIsRevoked
    <3>1. k # i
      BY <1>1
    <3> QED
      BY <2>2, <2>3, <2>5, <2>8, <3>1, BrowserSessionsParts
      DEF DeletedInstanceIsRevoked, FewerCookies
  <2> QED  BY <1>2, <2>4, <2>7, <2>10, <2>11, BrowserSessionsParts
<1> QED  BY <1>3, <1>4 DEF OpenInstance

\* A ticket is consumed, for a session or for nothing.
LEMMA ConsumingKeeps ==
    ASSUME BrowserSessionsInductive, NEW i \in Instances, NEW t \in TicketIds,
           NEW s \in SessionKeys, ConsumeBootstrap(i, t, s)
    PROVE  BrowserSessionsInductive'
<1> DEFINE new == [instance |-> i, touched |-> time, ticket |-> t]
<1>1. /\ i \in present /\ t \in DOMAIN tickets /\ tickets' = Without(LiveTickets, {t})
      /\ UNCHANGED <<time, present, running, enabled, removing, forgotten, proxied>>
  BY DEF ConsumeBootstrap, browserState, Served
<1>2. SystemOfType'
  BY <1>1, BrowserSessionsParts DEF SystemOfType
<1>3. FewerTickets(tickets') /\ t \notin DOMAIN tickets'
  BY <1>1 DEF FewerTickets, LiveTickets, Without, Restrict
<1>4. CASE cookies' = LiveSessions
  BY <1>1, <1>2, <1>3, <1>4, PruneTakesAway, TakingAwayIsSafe
<1>5. CASE /\ Cardinality(DOMAIN LiveSessions) < MaxBrowserSessions /\ s \notin DOMAIN cookies
           /\ cookies' = With(LiveSessions, s, new)
  <2>1. time \in Nat
    BY BrowserSessionsParts, BrowserSessionsAssumption DEF SystemOfType
  <2>2. /\ new \in [instance : Instances, touched : Nat, ticket : TicketIds]
        /\ new.instance = i /\ new.ticket = t
    BY <2>1
  <2> HIDE DEF new
  <2>3. FewerCookies(LiveSessions)
    BY PruneTakesAway
  <2>4. TicketsOfType(tickets') /\ CookiesOfType(LiveSessions)
    BY <1>3, <2>3, FewerCredentials
  <2>5. /\ DOMAIN cookies' = DOMAIN LiveSessions \cup {s} /\ cookies'[s] = new
        /\ \A r \in DOMAIN LiveSessions : r # s => cookies'[r] = LiveSessions[r]
    BY <1>5 DEF With
  <2>6. Cardinality(DOMAIN cookies') <= MaxBrowserSessions
    <3>1. /\ DOMAIN LiveSessions \in SUBSET SessionKeys
          /\ Cardinality(DOMAIN LiveSessions) <= MaxBrowserSessions
      BY <2>4 DEF CookiesOfType
    <3> QED  BY <1>5, <2>5, <3>1, MapsWithinLimits, BrowserSessionsAssumption
  <2>7. CookiesOfType(cookies')
    BY <2>2, <2>4, <2>5, <2>6 DEF CookiesOfType
  <2>8. \A r \in DOMAIN cookies' : r # s => r \in DOMAIN cookies /\ cookies'[r] = cookies[r]
    BY <2>3, <2>5 DEF FewerCookies
  <2>9. \A r \in DOMAIN cookies : cookies[r].ticket # t
    BY <1>1, BrowserSessionsParts DEF OneSessionPerTicket
  <2>10. OneSessionPerTicket'
    <3>1. ASSUME NEW r \in DOMAIN cookies', NEW q \in DOMAIN cookies',
                 cookies'[r].ticket = cookies'[q].ticket
          PROVE  r = q
      BY <2>2, <2>5, <2>8, <2>9, <3>1, BrowserSessionsParts DEF OneSessionPerTicket
    <3>2. ASSUME NEW r \in DOMAIN cookies' PROVE cookies'[r].ticket \notin DOMAIN tickets'
      BY <1>3, <2>2, <2>5, <2>8, BrowserSessionsParts DEF OneSessionPerTicket, FewerTickets
    <3> QED  BY <3>1, <3>2 DEF OneSessionPerTicket
  <2>11. DeletedInstanceIsRevoked'
    <3> SUFFICES ASSUME NEW k \in Instances \ (present \cup removing \cup forgotten)
                 PROVE  /\ \A u \in DOMAIN tickets' : tickets'[u].instance # k
                        /\ \A r \in DOMAIN cookies' : cookies'[r].instance # k
      BY <1>1 DEF DeletedInstanceIsRevoked
    <3>1. k # i
      BY <1>1
    <3> QED
      BY <1>3, <2>2, <2>5, <2>8, <3>1, BrowserSessionsParts
      DEF DeletedInstanceIsRevoked, FewerTickets
  <2> QED  BY <1>2, <2>4, <2>7, <2>10, <2>11, BrowserSessionsParts
<1> QED  BY <1>4, <1>5 DEF ConsumeBootstrap

\* A request with a cookie makes its session younger, or drops it.
LEMMA AuthorizingKeeps ==
    ASSUME BrowserSessionsInductive, NEW i \in Instances, NEW s \in SessionKeys, Authorize(i, s)
    PROVE  BrowserSessionsInductive'
<1>1. /\ s \in DOMAIN cookies
      /\ UNCHANGED <<time, present, running, enabled, removing, forgotten, tickets>>
      /\ proxied' \in {i, NoRequest, proxied}
  BY DEF Authorize, browserState
<1>2. SystemOfType'
  BY <1>1, BrowserSessionsParts DEF SystemOfType
<1>3. CASE cookies' = Without(cookies, {s})
  BY <1>1, <1>2, <1>3, PruneTakesAway, TakingAwayIsSafe
<1>4. CASE cookies' = [cookies EXCEPT ![s].touched = time]
  <2>1. time \in Nat /\ cookies[s] \in [instance : Instances, touched : Nat, ticket : TicketIds]
    BY <1>1, BrowserSessionsParts, BrowserSessionsAssumption DEF SystemOfType, CookiesOfType
  <2>2. /\ DOMAIN cookies' = DOMAIN cookies
        /\ cookies'[s] = [cookies[s] EXCEPT !.touched = time]
        /\ \A r \in DOMAIN cookies : r # s => cookies'[r] = cookies[r]
    BY <1>1, <1>4
  <2>3. /\ cookies'[s] \in [instance : Instances, touched : Nat, ticket : TicketIds]
        /\ cookies'[s].instance = cookies[s].instance /\ cookies'[s].ticket = cookies[s].ticket
    BY <2>1, <2>2
  <2>4. \A r \in DOMAIN cookies : /\ cookies'[r].instance = cookies[r].instance
                                  /\ cookies'[r].ticket = cookies[r].ticket
    BY <2>2, <2>3
  <2>5. CookiesOfType(cookies') /\ TicketsOfType(tickets')
    BY <1>1, <2>2, <2>3, BrowserSessionsParts DEF CookiesOfType
  <2>6. OneSessionPerTicket'
    BY <1>1, <2>2, <2>4, BrowserSessionsParts DEF OneSessionPerTicket
  <2>7. DeletedInstanceIsRevoked'
    BY <1>1, <2>2, <2>4, BrowserSessionsParts DEF DeletedInstanceIsRevoked
  <2> QED  BY <1>2, <2>5, <2>6, <2>7, BrowserSessionsParts
<1> QED  BY <1>3, <1>4 DEF Authorize

\* The end of deleteInstance takes what leads into the Instance, or leaves it
\* behind.
LEMMA FinishingDeleteKeeps ==
    ASSUME BrowserSessionsInductive, NEW i \in Instances, FinishDelete(i)
    PROVE  BrowserSessionsInductive'
<1>1. /\ removing' = removing \ {i} /\ UNCHANGED <<time, present, running, enabled, proxied>>
  BY DEF FinishDelete
<1>2. CASE forgotten' = forgotten \cup {i} /\ UNCHANGED <<tickets, cookies>>
  <2>1. SystemOfType'
    BY <1>1, <1>2, BrowserSessionsParts DEF SystemOfType
  <2> QED  BY <1>1, <1>2, <2>1, PruneTakesAway, TakingAwayIsSafe
<1>3. CASE RevokeInstance(i) /\ UNCHANGED forgotten
  <2>1. SystemOfType'
    BY <1>1, <1>3, BrowserSessionsParts DEF SystemOfType
  <2>2. FewerTickets(tickets') /\ FewerCookies(cookies')
    BY <1>3, PruneTakesAway DEF RevokeInstance
  <2>3. TicketsOfType(tickets') /\ CookiesOfType(cookies')
    BY <2>2, FewerCredentials
  <2>4. OneSessionPerTicket'
    BY <2>2, BrowserSessionsParts DEF OneSessionPerTicket, FewerTickets, FewerCookies
  <2>5. /\ \A t \in DOMAIN tickets' : tickets'[t].instance # i
        /\ \A s \in DOMAIN cookies' : cookies'[s].instance # i
    BY <1>3 DEF RevokeInstance, Without, Restrict
  <2>6. DeletedInstanceIsRevoked'
    <3> SUFFICES ASSUME NEW k \in Instances \ (present \cup (removing \ {i}) \cup forgotten)
                 PROVE  /\ \A u \in DOMAIN tickets' : tickets'[u].instance # k
                        /\ \A r \in DOMAIN cookies' : cookies'[r].instance # k
      BY <1>1, <1>3 DEF DeletedInstanceIsRevoked
    <3>1. CASE k = i
      BY <2>5, <3>1
    <3>2. CASE k # i
      BY <2>2, <3>2, BrowserSessionsParts
      DEF DeletedInstanceIsRevoked, FewerTickets, FewerCookies
    <3> QED  BY <3>1, <3>2
  <2> QED  BY <2>1, <2>3, <2>4, <2>6, BrowserSessionsParts
<1> QED  BY <1>2, <1>3 DEF FinishDelete

\* Starting, stopping, enabling, deleting, the proxy and the clock leave the
\* tickets and sessions alone.
LEMMA OthersKeepBrowserSessions ==
    ASSUME BrowserSessionsInductive,
           \/ \E i \in Instances : StartOrStop(i) \/ SetEnabled(i) \/ DeleteInstance(i)
           \/ ProxyRequest \/ PassTime \/ UNCHANGED browserVars
    PROVE  BrowserSessionsInductive'
<1>1. UNCHANGED <<tickets, cookies>>
  BY DEF StartOrStop, SetEnabled, DeleteInstance, ProxyRequest, PassTime, browserVars
<1>2. present \cup removing \cup forgotten \subseteq present' \cup removing' \cup forgotten'
  BY DEF StartOrStop, SetEnabled, DeleteInstance, ProxyRequest, PassTime, browserVars, browserState
<1>3. SystemOfType
  BY BrowserSessionsParts
<1>4. SystemOfType'
  <2>1. CASE PassTime
    BY <1>3, <2>1, BrowserSessionsAssumption DEF SystemOfType, PassTime
  <2>2. CASE \E i \in Instances : StartOrStop(i) \/ SetEnabled(i) \/ DeleteInstance(i)
    BY <1>3, <2>2 DEF SystemOfType, StartOrStop, SetEnabled, DeleteInstance
  <2>3. CASE ProxyRequest \/ UNCHANGED browserVars
    BY <1>3, <2>3 DEF SystemOfType, ProxyRequest, browserVars, browserState
  <2> QED  BY <2>1, <2>2, <2>3
<1> QED  BY <1>1, <1>2, <1>4, PruneTakesAway, TakingAwayIsSafe

\* The invariant of the browser sessions is inductive.
LEMMA BrowserSessionsNextPreserves ==
    BrowserSessionsInductive /\ [BrowserSessionsNext]_browserVars => BrowserSessionsInductive'
BY OpeningKeeps, ConsumingKeeps, AuthorizingKeeps, FinishingDeleteKeeps, OthersKeepBrowserSessions
DEF BrowserSessionsNext

\* In every state of the browser sessions, within their limits, a ticket has
\* opened at most one session and cannot open another, and nothing leads into an
\* Instance that is deleted, but what a deletion that failed left behind.
THEOREM BrowserSessionsInvariantHolds == BrowserSessionsSpec => []BrowserSessionsInvariant
<1>1. BrowserSessionsInductive => BrowserSessionsInvariant
  BY DEF BrowserSessionsInductive
<1> QED
  BY <1>1, BrowserSessionsInitHolds, BrowserSessionsNextPreserves, PTL DEF BrowserSessionsSpec
=============================================================================
