--------------------------- MODULE RefStoreProofs ---------------------------
(***************************************************************************)
(* The invariants of the ref store, proved for every value of the          *)
(* constants.  TypeOK and the seven safety invariants are proved together, *)
(* as InductiveInvariant: each operation relies on all of them.  The two   *)
(* parts added to make the conjunction inductive are RowsAreConsistent,    *)
(* the foreign keys of the schema, and VersionsAreConsistent, which says   *)
(* that a head determines its version and that heads grow.                 *)
(*                                                                         *)
(* The order is bottom up: what the helpers that write a row preserve, one *)
(* lemma per operation of the store, then the theorems.                    *)
(***************************************************************************)
EXTENDS RefStore, TLAPS

\* Names for plain conditions on one row, expanded everywhere.
USE DEF RefIds, NoFid, RefExists, Current, InstanceExists, OpenStates, IsUnresolved,
        InstancesOf

-----------------------------------------------------------------------------
\* The helpers that write a row.

\* The head compareAndSwap writes (sqliteRefStore.ts:425-501) is a row, a version and a file
\* system of the right kinds.
LEMMA AdvanceRefTypes ==
    ASSUME TypeOK, NEW ref \in RefIds, NEW seen \in Version,
           BuildHead, AdvanceRef(ref, seen)
    PROVE  /\ refs' \in [RefIds -> RefRow]
           /\ published' \in [RefIds -> SUBSET Version]
           /\ lastFid' \in Fid
<1> DEFINE row == [head |-> NewHead, base |-> seen.head, revision |-> seen.revision + 1]
           next == [head |-> NewHead, revision |-> seen.revision + 1]
<1>1. row \in RefRow /\ next \in Version /\ NewHead \in Fid
  BY DEF TypeOK, Version, RefRow, Fid, NewHead
<1>2. /\ refs' = [refs EXCEPT ![ref] = row]
      /\ published' = [published EXCEPT ![ref] = @ \cup {next}]
      /\ lastFid' = NewHead
  BY DEF AdvanceRef, BuildHead, NewHead
<1> QED
  BY <1>1, <1>2 DEF TypeOK

\* Advancing a ref keeps its versions in order: the new head is younger than every head any ref
\* ever had, and its row is the newest entry of the ref's history.
LEMMA AdvanceRefKeepsVersions ==
    ASSUME TypeOK, VersionsAreConsistent, NEW ref \in RefIds, RefExists(ref),
           NEW seen, BuildHead, AdvanceRef(ref, seen)
    PROVE  VersionsAreConsistent'
<1> DEFINE row == [head |-> NewHead, base |-> seen.head, revision |-> seen.revision + 1]
           next == [head |-> NewHead, revision |-> seen.revision + 1]
<1>1. /\ refs' = [refs EXCEPT ![ref] = row]
      /\ published' = [published EXCEPT ![ref] = @ \cup {next}]
      /\ lastFid' = lastFid + 1 /\ lastFid' <= MaxFid /\ NewHead = lastFid + 1
      /\ seen = Current(ref)
  BY BoundIsPositive DEF AdvanceRef, BuildHead, NewHead, TypeOK, Fid
<1>2. seen \in published[ref] /\ seen \in Version /\ lastFid \in Nat
  BY <1>1 DEF VersionsAreConsistent, TypeOK, Fid
<1>3. \A v \in published[ref] : v \in Version /\ v.head <= lastFid /\ v.revision < v.head
  BY DEF VersionsAreConsistent, TypeOK
<1>4. ASSUME NEW other \in RefIds
      PROVE  IF RefExists(other)' THEN Current(other)' \in published'[other]
                                  ELSE refs'[other] = NoRef /\ published'[other] = {}
  <2>1. CASE other = ref
    BY <1>1, <1>2, <2>1 DEF TypeOK
  <2>2. CASE other # ref
    BY <1>1, <2>2 DEF VersionsAreConsistent, TypeOK
  <2> QED
    BY <2>1, <2>2
<1>5. ASSUME NEW other \in RefIds, NEW v \in published'[other]
      PROVE  /\ v.head <= lastFid' /\ v.revision < v.head
             /\ v.head = refs'[other].head => v = Current(other)'
  <2>1. CASE other = ref
    <3>1. refs'[ref] = row /\ published'[ref] = published[ref] \cup {next}
      BY <1>1 DEF TypeOK
    <3>2. CASE v = next
      BY <1>1, <1>2, <1>3, <2>1, <3>1, <3>2 DEF Version, Fid
    <3>3. CASE v \in published[ref]
      BY <1>1, <1>2, <1>3, <2>1, <3>1, <3>3 DEF Version, Fid
    <3> QED
      BY <2>1, <3>1, <3>2, <3>3
  <2>2. CASE other # ref
    <3>1. refs'[other] = refs[other] /\ published'[other] = published[other]
      BY <1>1, <2>2 DEF TypeOK
    <3>2. v \in Version
      BY <3>1 DEF TypeOK
    <3> QED
      BY <1>1, <1>2, <3>1, <3>2 DEF VersionsAreConsistent, Version, Fid
  <2> QED
    BY <2>1, <2>2
<1> QED
  BY <1>1, <1>4, <1>5 DEF VersionsAreConsistent

\* What createWorkspace (sqliteRefStore.ts:604-659) inserts has the right types, for a fork and
\* for an empty Workspace.
LEMMA NewWorkspaceTypes ==
    ASSUME TypeOK, NEW w \in Workspaces, NEW source \in RefIds, NEW seenHead,
           NEW fork \in BOOLEAN, NewWorkspace(w, source, seenHead, fork)
    PROVE  /\ refs' \in [RefIds -> RefRow]
           /\ published' \in [RefIds -> SUBSET Version]
           /\ lastFid' \in Fid
           /\ leases' \in [Workspaces -> Runs \cup {None}]
<1>1. leases' \in [Workspaces -> Runs \cup {None}]
  BY DEF TypeOK, NewWorkspace
<1>2. CASE fork
  <2>1. Current(source) \in Version
    BY DEF TypeOK, RefRow, Version, Fid, NewWorkspace
  <2> QED
    BY <1>1, <1>2, <2>1 DEF TypeOK, NewWorkspace
<1>3. CASE ~fork
  <2>1. [NoRef EXCEPT !.head = NewHead] \in RefRow /\ NewHead \in Fid
        /\ [head |-> NewHead, revision |-> 0] \in Version
    BY DEF TypeOK, RefRow, NoRef, NewHead, Fid, Version
  <2>2. /\ refs' = [refs EXCEPT ![w] = [NoRef EXCEPT !.head = NewHead]]
        /\ published' = [published EXCEPT ![w] = {[head |-> NewHead, revision |-> 0]}]
        /\ lastFid' = NewHead
    BY <1>3 DEF NewWorkspace, BuildHead
  <2> QED
    BY <1>1, <2>1, <2>2 DEF TypeOK
<1> QED
  BY <1>2, <1>3

\* A new Workspace starts a history of one version, shared with its source when it is a fork,
\* and every other ref keeps its own.
LEMMA NewWorkspaceKeepsVersions ==
    ASSUME TypeOK, VersionsAreConsistent, NEW w \in Workspaces, NEW source \in RefIds,
           NEW seenHead, NEW fork \in BOOLEAN, NewWorkspace(w, source, seenHead, fork)
    PROVE  VersionsAreConsistent'
<1>1. PICK version \in Version :
        /\ published' = [published EXCEPT ![w] = {version}]
        /\ Current(w)' = version
        /\ version.head <= lastFid' /\ version.revision < version.head
        /\ lastFid <= lastFid' /\ lastFid' <= MaxFid
        /\ lastFid \in Nat /\ lastFid' \in Nat
        /\ \A other \in RefIds : other # w => refs'[other] = refs[other]
  <2>1. CASE fork
    <3>1. Current(source) \in Version /\ Current(source) \in published[source]
      BY DEF TypeOK, RefRow, Version, Fid, NewWorkspace, VersionsAreConsistent
    <3>2. /\ refs' = [refs EXCEPT ![w] = refs[source]]
          /\ published' = [published EXCEPT ![w] = {Current(source)}]
          /\ lastFid' = lastFid
      BY <2>1 DEF NewWorkspace
    <3>3. Current(w)' = Current(source)
      BY <3>2 DEF TypeOK
    <3>4. Current(source).head <= lastFid /\ Current(source).revision < Current(source).head
          /\ lastFid <= MaxFid /\ lastFid \in Nat
      BY <3>1 DEF VersionsAreConsistent, TypeOK, Fid
    <3>5. \A other \in RefIds : other # w => refs'[other] = refs[other]
      BY <3>2 DEF TypeOK
    <3> DEFINE version == Current(source)
    <3>6. /\ version \in Version
          /\ published' = [published EXCEPT ![w] = {version}]
          /\ Current(w)' = version
          /\ version.head <= lastFid' /\ version.revision < version.head
          /\ lastFid <= lastFid' /\ lastFid' <= MaxFid
          /\ lastFid \in Nat /\ lastFid' \in Nat
      BY <3>1, <3>2, <3>3, <3>4
    <3> HIDE DEF version
    <3> QED
      BY <3>5, <3>6
  <2>2. CASE ~fork
    <3> DEFINE version == [head |-> NewHead, revision |-> 0]
    <3>1. /\ refs' = [refs EXCEPT ![w] = [NoRef EXCEPT !.head = NewHead]]
          /\ published' = [published EXCEPT ![w] = {version}]
          /\ lastFid' = lastFid + 1 /\ lastFid' <= MaxFid /\ NewHead = lastFid + 1
          /\ lastFid \in Nat /\ lastFid # 0
      BY <2>2, BoundIsPositive DEF NewWorkspace, BuildHead, NewHead, TypeOK, Fid
    <3>2. version \in Version /\ version.revision < version.head /\ version.head <= lastFid'
      BY <3>1 DEF Version, Fid
    <3>3. Current(w)' = version
      BY <3>1 DEF TypeOK, NoRef
    <3>4. \A other \in RefIds : other # w => refs'[other] = refs[other]
      BY <3>1 DEF TypeOK
    <3>5. lastFid <= lastFid' /\ lastFid' \in Nat
      BY <3>1
    <3>6. /\ published' = [published EXCEPT ![w] = {version}]
          /\ lastFid' <= MaxFid /\ lastFid \in Nat
      BY <3>1
    <3> HIDE DEF version
    <3> QED
      BY <3>2, <3>3, <3>4, <3>5, <3>6
  <2> QED
    BY <2>1, <2>2
<1>2. ASSUME NEW other \in RefIds
      PROVE  IF RefExists(other)' THEN Current(other)' \in published'[other]
                                  ELSE refs'[other] = NoRef /\ published'[other] = {}
  <2>1. CASE other = w
    <3>1. refs'[w].head # NoFid /\ published'[w] = {version}
      BY <1>1 DEF TypeOK, Version, Fid
    <3> QED
      BY <1>1, <2>1, <3>1
  <2>2. CASE other # w
    BY <1>1, <2>2 DEF VersionsAreConsistent, TypeOK
  <2> QED
    BY <2>1, <2>2
<1>3. ASSUME NEW other \in RefIds, NEW v \in published'[other]
      PROVE  /\ v.head <= lastFid' /\ v.revision < v.head
             /\ v.head = refs'[other].head => v = Current(other)'
  <2>1. CASE other = w
    BY <1>1, <2>1 DEF TypeOK
  <2>2. CASE other # w
    <3>1. v \in published[other] /\ v \in Version /\ refs'[other] = refs[other]
      BY <1>1, <2>2 DEF TypeOK
    <3> QED
      BY <1>1, <3>1 DEF VersionsAreConsistent, Version, Fid
  <2> QED
    BY <2>1, <2>2
<1> QED
  BY <1>1, <1>2, <1>3 DEF VersionsAreConsistent

\* Advancing a ref deletes none: a row written by compareAndSwap always has a head.
LEMMA AdvanceRefKeepsRefs ==
    ASSUME TypeOK, NEW ref \in RefIds, NEW seen, BuildHead, AdvanceRef(ref, seen)
    PROVE  \A other \in RefIds : RefExists(other) => RefExists(other)'
<1>1. refs' = [refs EXCEPT ![ref] = [head |-> NewHead, base |-> seen.head,
                                     revision |-> seen.revision + 1]]
  BY DEF AdvanceRef
<1>2. NewHead # 0
  BY DEF TypeOK, Fid, NewHead
<1> QED
  BY <1>1, <1>2 DEF TypeOK

\* createWorkspace inserts one ref and one lease row, and touches no other ref.
LEMMA NewWorkspaceKeepsRefs ==
    ASSUME TypeOK, NEW w \in Workspaces, NEW source \in RefIds, NEW seenHead,
           NEW fork \in BOOLEAN, NewWorkspace(w, source, seenHead, fork)
    PROVE  /\ RefExists(w)'
           /\ \A other \in RefIds : other # w => refs'[other] = refs[other]
           /\ leases' = [leases EXCEPT ![w] = None]
<1>1. NewHead # 0
  BY DEF TypeOK, Fid, NewHead
<1>2. CASE fork
  BY <1>2 DEF TypeOK, NewWorkspace
<1>3. CASE ~fork
  BY <1>1, <1>3 DEF TypeOK, NewWorkspace, NoRef
<1> QED
  BY <1>2, <1>3

\* A row of the runs table stays one when its state, or its state and its output, are set.
LEMMA RunUpdateTypes ==
    ASSUME runs \in [Runs -> RunRow], NEW r \in Runs, NEW s \in RunState, NEW head \in Nat
    PROVE  /\ [runs EXCEPT ![r].state = s] \in [Runs -> RunRow]
           /\ [runs EXCEPT ![r].state = s, ![r].outputHead = head] \in [Runs -> RunRow]
  BY DEF RunRow

\* The Instance row and the default Instance that createBwaInstance (sqliteRefStore.ts:1369-1409)
\* writes have the right types.
LEMMA NewInstanceTypes ==
    ASSUME TypeOK, NEW i \in Instances, NEW a \in Applications, NEW w \in Workspaces,
           NewInstance(i, a, w)
    PROVE  /\ applications' \in [Applications -> ApplicationRow]
           /\ instances' \in [Instances -> InstanceRow]
<1>1. PICK d \in Instances :
        applications' = [applications EXCEPT ![a].default = d]
  <2>1. applications[a].default \in Instances \/ applications[a].default = None
    BY DEF TypeOK, ApplicationRow
  <2> QED
    BY <2>1, NamesAreDistinct DEF NewInstance, TypeOK, ApplicationRow
<1>2. applications' \in [Applications -> ApplicationRow]
  BY <1>1 DEF TypeOK, ApplicationRow
<1>3. instances' \in [Instances -> InstanceRow]
  BY DEF TypeOK, InstanceRow, NewInstance
<1> QED
  BY <1>2, <1>3

\* What a new Instance changes, row by row: its own row, and the default of its Application when
\* it had none.
LEMMA NewInstanceRows ==
    ASSUME TypeOK, NEW i \in Instances, NEW a \in Applications, NEW w \in Workspaces,
           NewInstance(i, a, w)
    PROVE  /\ ~InstanceExists(i) /\ applications[a].digest # None
           /\ \A j \in Instances : instances[j].workspace # w
           /\ instances'[i] = [application |-> a, workspace |-> w, desired |-> "STOPPED"]
           /\ \A j \in Instances : j # i => instances'[j] = instances[j]
           /\ \A b \in Applications : applications'[b].digest = applications[b].digest
           /\ \A b \in Applications : b # a => applications'[b] = applications[b]
           /\ applications'[a].default = IF applications[a].default = None
                                           THEN i ELSE applications[a].default
  BY DEF TypeOK, ApplicationRow, InstanceRow, NewInstance

-----------------------------------------------------------------------------
\* The operations on refs and Workspaces.

\* compareAndSwap on the main ref preserves the invariant: no Run is bound to that ref.
LEMMA CompareAndSwapPreserves ==
    ASSUME InductiveInvariant, NEW seen \in published[Main], CompareAndSwap(Main, seen)
    PROVE  InductiveInvariant'
<1>1. TypeOK'
  <2>1. seen \in Version /\ Main \in RefIds
    BY DEF InductiveInvariant, TypeOK
  <2> QED
    BY <2>1, AdvanceRefTypes DEF InductiveInvariant, TypeOK, CompareAndSwap
<1>2. RowsAreConsistent'
  BY NamesAreDistinct
    DEF InductiveInvariant, TypeOK, RefRow, RunRow, RunState, InstanceRow, ApplicationRow,
        RowsAreConsistent, CompareAndSwap, AdvanceRef, BuildHead, NewHead, NoRun, NoInstance,
        NoRef
<1>3. VersionsAreConsistent'
  BY AdvanceRefKeepsVersions DEF InductiveInvariant, CompareAndSwap
<1>4. UnresolvedRunPinsHead'
  BY NamesAreDistinct
    DEF InductiveInvariant, TypeOK, RunRow, RunState, RefRow, UnresolvedRunPinsHead,
        RowsAreConsistent, CompareAndSwap, AdvanceRef, BuildHead, NewHead, NoRun, NoInstance,
        NoRef
<1>5. CommittedOutputFollowsInput'
  BY NamesAreDistinct
    DEF InductiveInvariant, TypeOK, RunRow, RunState, Version, Fid, CommittedOutputFollowsInput,
        VersionsAreConsistent, RowsAreConsistent, CompareAndSwap, AdvanceRef, BuildHead, NewHead,
        NoRun, NoInstance, NoRef
<1>6. /\ LeaseHeldByTheOpenRun'
      /\ NoConflict'
      /\ OneUnresolvedRunPerWorkspace'
      /\ UnresolvedRunIsBound'
      /\ DefaultIsAnInstance'
  BY DEF InductiveInvariant, LeaseHeldByTheOpenRun, NoConflict, OneUnresolvedRunPerWorkspace,
     UnresolvedRunIsBound, DefaultIsAnInstance, CompareAndSwap, AdvanceRef, BuildHead, NewHead
<1> QED
  BY <1>1, <1>2, <1>3, <1>4, <1>5, <1>6 DEF InductiveInvariant

\* compareAndSwapGuarded on a Workspace preserves the invariant: the write is refused while a
\* lease or an unresolved Run is there, so no Run's input moves.
LEMMA CompareAndSwapGuardedPreserves ==
    ASSUME InductiveInvariant, NEW w \in Workspaces, NEW seen \in published[w],
           NEW guard \in published[Main], CompareAndSwapGuarded(w, seen, guard)
    PROVE  InductiveInvariant'
<1>1. TypeOK'
  <2>1. seen \in Version /\ w \in RefIds
    BY DEF InductiveInvariant, TypeOK
  <2> QED
    BY <2>1, AdvanceRefTypes DEF InductiveInvariant, TypeOK, CompareAndSwapGuarded
<1>2. RowsAreConsistent'
  <2>1. \A ref \in RefIds : RefExists(ref) => RefExists(ref)'
    BY AdvanceRefKeepsRefs DEF InductiveInvariant, CompareAndSwapGuarded
  <2> QED
    BY <2>1 DEF InductiveInvariant, RowsAreConsistent, CompareAndSwapGuarded
<1>3. VersionsAreConsistent'
  BY AdvanceRefKeepsVersions
     DEF InductiveInvariant, CompareAndSwapGuarded, WritableWorkspace
<1>4. UnresolvedRunPinsHead'
  BY NamesAreDistinct
    DEF InductiveInvariant, TypeOK, RunRow, RunState, RefRow, UnresolvedRunPinsHead,
        RowsAreConsistent, LeaseHeldByTheOpenRun, NoConflict, CompareAndSwapGuarded,
        WritableWorkspace, RunsOf, AdvanceRef, BuildHead, NewHead, NoRun, NoInstance, NoRef
<1>5. CommittedOutputFollowsInput'
  BY NamesAreDistinct
    DEF InductiveInvariant, TypeOK, RunRow, RunState, Version, Fid, CommittedOutputFollowsInput,
        VersionsAreConsistent, RowsAreConsistent, CompareAndSwapGuarded, WritableWorkspace,
        RunsOf, AdvanceRef, BuildHead, NewHead, NoRun, NoInstance, NoRef
<1>6. /\ LeaseHeldByTheOpenRun'
      /\ NoConflict'
      /\ OneUnresolvedRunPerWorkspace'
      /\ UnresolvedRunIsBound'
      /\ DefaultIsAnInstance'
  BY DEF InductiveInvariant, LeaseHeldByTheOpenRun, NoConflict, OneUnresolvedRunPerWorkspace,
     UnresolvedRunIsBound, DefaultIsAnInstance, CompareAndSwapGuarded, WritableWorkspace, RunsOf,
     AdvanceRef, BuildHead, NewHead
<1> QED
  BY <1>1, <1>2, <1>3, <1>4, <1>5, <1>6 DEF InductiveInvariant

\* createWorkspace preserves the invariant: the id is new, so no Run and no Instance refers to it.
LEMMA CreateWorkspacePreserves ==
    ASSUME InductiveInvariant, NEW w \in Workspaces, NEW source \in RefIds,
           NEW seen \in published[source], CreateWorkspace(w, source, seen.head)
    PROVE  InductiveInvariant'
<1>1. TypeOK'
  BY NewWorkspaceTypes DEF InductiveInvariant, TypeOK, CreateWorkspace
<1>2. RowsAreConsistent'
  BY NamesAreDistinct
    DEF InductiveInvariant, TypeOK, RefRow, RunRow, RunState, InstanceRow, ApplicationRow,
        RowsAreConsistent, CreateWorkspace, NewWorkspace, BuildHead, NewHead, NoRun, NoInstance,
        NoRef
<1>3. VersionsAreConsistent'
  BY NewWorkspaceKeepsVersions DEF InductiveInvariant, CreateWorkspace
<1>4. LeaseHeldByTheOpenRun'
  BY NamesAreDistinct
    DEF InductiveInvariant, TypeOK, RunRow, RunState, LeaseHeldByTheOpenRun, RowsAreConsistent,
        CreateWorkspace, NewWorkspace, BuildHead, NewHead, NoRun, NoInstance, NoRef
<1>5. UnresolvedRunPinsHead'
  BY NamesAreDistinct
    DEF InductiveInvariant, TypeOK, RunRow, RunState, RefRow, UnresolvedRunPinsHead,
        LeaseHeldByTheOpenRun, RowsAreConsistent, CreateWorkspace, NewWorkspace, BuildHead,
        NewHead, NoRun, NoInstance, NoRef
<1>6. CommittedOutputFollowsInput'
  BY NamesAreDistinct
    DEF InductiveInvariant, TypeOK, RunRow, RunState, Version, Fid, CommittedOutputFollowsInput,
        VersionsAreConsistent, RowsAreConsistent, CreateWorkspace, NewWorkspace, BuildHead,
        NewHead, NoRun, NoInstance, NoRef
<1>7. /\ NoConflict'
      /\ OneUnresolvedRunPerWorkspace'
      /\ UnresolvedRunIsBound'
      /\ DefaultIsAnInstance'
  BY DEF InductiveInvariant, NoConflict, OneUnresolvedRunPerWorkspace, UnresolvedRunIsBound,
     DefaultIsAnInstance, CreateWorkspace, NewWorkspace, BuildHead, NewHead
<1> QED
  BY <1>1, <1>2, <1>3, <1>4, <1>5, <1>6, <1>7 DEF InductiveInvariant

\* createWorkspaceWithBwaInstance preserves the invariant: both rows appear in one transaction,
\* so the Instance never refers to a missing Workspace.
LEMMA CreateWorkspaceWithBwaInstancePreserves ==
    ASSUME InductiveInvariant, NEW w \in Workspaces, NEW source \in RefIds,
           NEW seen \in published[source],
           NEW fork \in BOOLEAN, NEW i \in Instances, NEW a \in Applications,
           CreateWorkspaceWithBwaInstance(w, source, seen.head, fork, i, a)
    PROVE  InductiveInvariant'
<1>1. TypeOK'
  <2>1. /\ refs' \in [RefIds -> RefRow]
        /\ published' \in [RefIds -> SUBSET Version]
        /\ lastFid' \in Fid
        /\ leases' \in [Workspaces -> Runs \cup {None}]
    BY NewWorkspaceTypes DEF InductiveInvariant, CreateWorkspaceWithBwaInstance
  <2>2. /\ applications' \in [Applications -> ApplicationRow]
        /\ instances' \in [Instances -> InstanceRow]
    BY NewInstanceTypes DEF InductiveInvariant, CreateWorkspaceWithBwaInstance
  <2>3. runs' \in [Runs -> RunRow]
    BY DEF InductiveInvariant, TypeOK, CreateWorkspaceWithBwaInstance
  <2> QED
    BY <2>1, <2>2, <2>3 DEF TypeOK, RunRow
<1>2. RowsAreConsistent'
  <2>1. /\ RefExists(w)'
        /\ \A other \in RefIds : RefExists(other) => RefExists(other)'
    BY NewWorkspaceKeepsRefs DEF InductiveInvariant, CreateWorkspaceWithBwaInstance
  <2>2. NewInstance(i, a, w) /\ runs' = runs
    BY DEF CreateWorkspaceWithBwaInstance
  <2>3. \A j \in Instances : InstanceExists(j) =>
           instances[j].application \in Applications
    BY DEF InductiveInvariant, TypeOK, InstanceRow
  <2>4. /\ instances'[i] = [application |-> a, workspace |-> w, desired |-> "STOPPED"]
        /\ \A j \in Instances : j # i => instances'[j] = instances[j]
        /\ \A j \in Instances : instances[j].workspace # w
        /\ \A b \in Applications : applications'[b].digest = applications[b].digest
        /\ applications[a].digest # None
    BY <2>2, NewInstanceRows DEF InductiveInvariant
  <2>5. \A j, k \in Instances :
           /\ InstanceExists(j)' /\ InstanceExists(k)'
           /\ instances'[j].workspace = instances'[k].workspace
           => j = k
    BY <2>4 DEF InductiveInvariant, RowsAreConsistent
  <2>6. ASSUME NEW j \in Instances, InstanceExists(j)'
        PROVE  /\ instances'[j].workspace \in Workspaces
               /\ refs'[instances'[j].workspace].head # NoFid
               /\ applications'[instances'[j].application].digest # None
    <3>1. CASE j = i
      BY <2>1, <2>4, <3>1
    <3>2. CASE j # i
      BY <2>1, <2>3, <2>4, <2>6, <3>2 DEF InductiveInvariant, RowsAreConsistent
    <3> QED
      BY <3>1, <3>2
  <2>7. \A j \in Instances : ~InstanceExists(j)' => instances'[j] = NoInstance
    BY <2>4, NamesAreDistinct DEF InductiveInvariant, RowsAreConsistent
  <2> QED
    BY <2>1, <2>2, <2>5, <2>6, <2>7 DEF InductiveInvariant, RowsAreConsistent
<1>3. VersionsAreConsistent'
  BY NewWorkspaceKeepsVersions
     DEF InductiveInvariant, CreateWorkspaceWithBwaInstance
<1>4. LeaseHeldByTheOpenRun'
  BY NamesAreDistinct
    DEF InductiveInvariant, RunState, LeaseHeldByTheOpenRun, RowsAreConsistent,
        CreateWorkspaceWithBwaInstance, NewWorkspace
<1>5. UnresolvedRunPinsHead'
  <2>1. ~RefExists(w) /\ runs' = runs
    BY DEF CreateWorkspaceWithBwaInstance, NewWorkspace
  <2>2. \A other \in RefIds : other # w => refs'[other] = refs[other]
    BY NewWorkspaceKeepsRefs DEF InductiveInvariant, CreateWorkspaceWithBwaInstance
  <2> QED
    BY <2>1, <2>2 DEF InductiveInvariant, UnresolvedRunPinsHead
<1>6. UnresolvedRunIsBound'
  BY DEF InductiveInvariant, UnresolvedRunIsBound, CreateWorkspaceWithBwaInstance, NewInstance
<1>7. DefaultIsAnInstance'
  BY NamesAreDistinct
    DEF InductiveInvariant, TypeOK, DefaultIsAnInstance, CreateWorkspaceWithBwaInstance,
        NewInstance
<1>8. CommittedOutputFollowsInput'
  BY NamesAreDistinct
    DEF InductiveInvariant, TypeOK, RunState, Fid, CommittedOutputFollowsInput,
        RowsAreConsistent, CreateWorkspaceWithBwaInstance, NewWorkspace, NoRun, NoInstance, NoRef
<1>9. /\ NoConflict'
      /\ OneUnresolvedRunPerWorkspace'
  BY DEF InductiveInvariant, NoConflict, OneUnresolvedRunPerWorkspace,
     CreateWorkspaceWithBwaInstance
<1> QED
  BY <1>1, <1>2, <1>3, <1>4, <1>5, <1>6, <1>7, <1>8, <1>9 DEF InductiveInvariant

\* deleteWorkspace preserves the invariant: with no Instance left on the Workspace, none of the
\* Runs it deletes is unresolved.
LEMMA DeleteWorkspacePreserves ==
    ASSUME InductiveInvariant, NEW w \in Workspaces, DeleteWorkspace(w)
    PROVE  InductiveInvariant'
<1>1. TypeOK'
  <2>1. refs' \in [RefIds -> RefRow]
    BY DEF InductiveInvariant, TypeOK, RefRow, NoRef, DeleteWorkspace
  <2>2. published' \in [RefIds -> SUBSET Version]
    BY DEF InductiveInvariant, TypeOK, DeleteWorkspace
  <2>3. runs' \in [Runs -> RunRow]
    BY DEF InductiveInvariant, TypeOK, RunRow, NoRun, DeleteWorkspace
  <2> QED
    BY <2>1, <2>2, <2>3 DEF InductiveInvariant, TypeOK, DeleteWorkspace
<1>2. RowsAreConsistent'
  BY DEF InductiveInvariant, RowsAreConsistent, DeleteWorkspace, RunsOf, NoRun
<1>3. VersionsAreConsistent'
  <2>1. /\ refs' = [refs EXCEPT ![w] = NoRef]
        /\ published' = [published EXCEPT ![w] = {}]
        /\ lastFid' = lastFid
    BY DEF DeleteWorkspace
  <2>2. \A ref \in RefIds : ref # w =>
           refs'[ref] = refs[ref] /\ published'[ref] = published[ref]
    BY <2>1 DEF InductiveInvariant, TypeOK
  <2>3. refs'[w] = NoRef /\ published'[w] = {}
    BY <2>1 DEF InductiveInvariant, TypeOK
  <2> QED
    BY <2>1, <2>2, <2>3 DEF InductiveInvariant, VersionsAreConsistent, NoRef
<1>4. LeaseHeldByTheOpenRun'
  BY NamesAreDistinct
    DEF InductiveInvariant, LeaseHeldByTheOpenRun, DeleteWorkspace, RunsOf, NoRun
<1>5. UnresolvedRunPinsHead'
  BY NamesAreDistinct
    DEF InductiveInvariant, RunState, UnresolvedRunPinsHead, UnresolvedRunIsBound,
        DeleteWorkspace, NoRun
<1>6. NoConflict'
  BY NamesAreDistinct
  DEF InductiveInvariant, NoConflict, DeleteWorkspace, NoRun, RunState
<1>7. OneUnresolvedRunPerWorkspace'
  <2>1. \A r \in Runs : IsUnresolved(runs'[r].state) => runs'[r] = runs[r]
    BY NamesAreDistinct DEF DeleteWorkspace, NoRun, RunState
  <2> QED
    BY <2>1 DEF InductiveInvariant, OneUnresolvedRunPerWorkspace
<1>8. UnresolvedRunIsBound'
  BY NamesAreDistinct
    DEF InductiveInvariant, RunState, UnresolvedRunIsBound, DeleteWorkspace, NoRun
<1>9. CommittedOutputFollowsInput'
  BY NamesAreDistinct
    DEF InductiveInvariant, RunState, CommittedOutputFollowsInput, DeleteWorkspace, RunsOf, NoRun
<1>10. /\ DefaultIsAnInstance'
  BY DEF InductiveInvariant, DefaultIsAnInstance, DeleteWorkspace
<1> QED
  BY <1>1, <1>2, <1>3, <1>4, <1>5, <1>6, <1>7, <1>8, <1>9, <1>10 DEF InductiveInvariant

-----------------------------------------------------------------------------
\* The operations on Runs.

\* createBwaWorkspaceRun preserves the invariant: the lease it inserts is the only one, and the
\* Run's input is the head it reads in the same transaction.
LEMMA CreateBwaWorkspaceRunPreserves ==
    ASSUME InductiveInvariant, NEW r \in Runs, NEW i \in Instances, CreateBwaWorkspaceRun(r, i)
    PROVE  InductiveInvariant'
<1>1. TypeOK'
  <2>1. /\ instances[i].workspace \in Workspaces
        /\ instances[i].application \in Applications
        /\ refs[instances[i].workspace].head \in Nat
        /\ applications[instances[i].application].digest \in Digests \cup {None}
    BY DEF InductiveInvariant, TypeOK, RowsAreConsistent, InstanceRow, ApplicationRow,
           RefRow, CreateBwaWorkspaceRun
  <2>2. runs' \in [Runs -> RunRow]
    BY <2>1 DEF InductiveInvariant, TypeOK, RunRow, RunState, NoRun, CreateBwaWorkspaceRun
  <2>3. leases' \in [Workspaces -> Runs \cup {None}]
    BY DEF InductiveInvariant, TypeOK, CreateBwaWorkspaceRun
  <2>4. instances' \in [Instances -> InstanceRow]
    BY DEF InductiveInvariant, TypeOK, InstanceRow, CreateBwaWorkspaceRun
  <2> QED
    BY <2>2, <2>3, <2>4 DEF InductiveInvariant, TypeOK, CreateBwaWorkspaceRun
<1>2. RowsAreConsistent'
  BY NamesAreDistinct DEF InductiveInvariant, RunState, RowsAreConsistent, CreateBwaWorkspaceRun
<1>3. LeaseHeldByTheOpenRun'
  BY NamesAreDistinct
    DEF InductiveInvariant, TypeOK, LeaseHeldByTheOpenRun, CreateBwaWorkspaceRun, NoRun
<1>4. UnresolvedRunPinsHead'
  BY DEF InductiveInvariant, UnresolvedRunPinsHead, RowsAreConsistent, CreateBwaWorkspaceRun
<1>5. NoConflict'
  BY DEF InductiveInvariant, NoConflict, CreateBwaWorkspaceRun
<1>6. OneUnresolvedRunPerWorkspace'
  BY DEF InductiveInvariant, OneUnresolvedRunPerWorkspace, UnresolvedRunIsBound,
     RowsAreConsistent, CreateBwaWorkspaceRun, BindingsOf, NoRef
<1>7. UnresolvedRunIsBound'
  BY DEF InductiveInvariant, UnresolvedRunIsBound, CreateBwaWorkspaceRun, NoRef
<1>8. DefaultIsAnInstance'
  BY DEF InductiveInvariant, DefaultIsAnInstance, CreateBwaWorkspaceRun
<1>9. CommittedOutputFollowsInput'
  BY DEF InductiveInvariant, CommittedOutputFollowsInput, CreateBwaWorkspaceRun
<1>10. /\ VersionsAreConsistent'
  BY DEF InductiveInvariant, VersionsAreConsistent, CreateBwaWorkspaceRun
<1> QED
  BY <1>1, <1>2, <1>3, <1>4, <1>5, <1>6, <1>7, <1>8, <1>9, <1>10 DEF InductiveInvariant

\* transitionWorkspaceRun preserves the invariant: the lease is released exactly when the Run
\* reaches a terminal state.
LEMMA TransitionWorkspaceRunPreserves ==
    ASSUME InductiveInvariant, NEW r \in Runs, NEW t \in RequestedRunTransition,
           TransitionWorkspaceRun(r, t[1], t[2])
    PROVE  InductiveInvariant'
<1>1. TypeOK'
  <2>1. t[2] \in RunState
    BY DEF RequestedRunTransition, RunState
  <2>2. runs' \in [Runs -> RunRow]
    BY <2>1, RunUpdateTypes DEF InductiveInvariant, TypeOK, TransitionWorkspaceRun
  <2>3. leases' \in [Workspaces -> Runs \cup {None}]
    BY DEF InductiveInvariant, TypeOK, ReleaseLease, TransitionWorkspaceRun
  <2> QED
    BY <2>2, <2>3 DEF InductiveInvariant, TypeOK, TransitionWorkspaceRun
<1>2. RowsAreConsistent'
  BY NamesAreDistinct
    DEF InductiveInvariant, RunState, RowsAreConsistent, TransitionWorkspaceRun,
        RequestedRunTransition
<1>3. LeaseHeldByTheOpenRun'
  BY NamesAreDistinct
    DEF InductiveInvariant, TypeOK, LeaseHeldByTheOpenRun, TransitionWorkspaceRun,
        RequestedRunTransition, ReleaseLease, IsTerminal
<1>4. UnresolvedRunPinsHead'
  BY DEF InductiveInvariant, UnresolvedRunPinsHead, TransitionWorkspaceRun, RequestedRunTransition
<1>5. NoConflict'
  BY DEF InductiveInvariant, NoConflict, TransitionWorkspaceRun, RequestedRunTransition
<1>6. OneUnresolvedRunPerWorkspace'
  BY DEF InductiveInvariant, OneUnresolvedRunPerWorkspace, TransitionWorkspaceRun,
     RequestedRunTransition
<1>7. UnresolvedRunIsBound'
  BY DEF InductiveInvariant, UnresolvedRunIsBound, TransitionWorkspaceRun, RequestedRunTransition
<1>8. CommittedOutputFollowsInput'
  BY DEF InductiveInvariant, CommittedOutputFollowsInput, TransitionWorkspaceRun,
     RequestedRunTransition
<1>9. /\ VersionsAreConsistent'
      /\ DefaultIsAnInstance'
  BY DEF InductiveInvariant, VersionsAreConsistent, DefaultIsAnInstance, TransitionWorkspaceRun
<1> QED
  BY <1>1, <1>2, <1>3, <1>4, <1>5, <1>6, <1>7, <1>8, <1>9 DEF InductiveInvariant

\* reopenFailedWorkspaceRun preserves the invariant: the failed Run gets its lease back before it
\* commits again.
LEMMA ReopenFailedWorkspaceRunPreserves ==
    ASSUME InductiveInvariant, NEW r \in Runs, ReopenFailedWorkspaceRun(r)
    PROVE  InductiveInvariant'
<1>1. TypeOK'
  <2>1. runs' \in [Runs -> RunRow]
    BY RunUpdateTypes DEF InductiveInvariant, TypeOK, RunState, ReopenFailedWorkspaceRun
  <2>2. leases' \in [Workspaces -> Runs \cup {None}]
    BY DEF InductiveInvariant, TypeOK, ReopenFailedWorkspaceRun
  <2> QED
    BY <2>1, <2>2 DEF InductiveInvariant, TypeOK, ReopenFailedWorkspaceRun
<1>2. RowsAreConsistent'
  BY NamesAreDistinct
    DEF InductiveInvariant, RunState, RowsAreConsistent, ReopenFailedWorkspaceRun
<1>3. LeaseHeldByTheOpenRun'
  BY NamesAreDistinct
    DEF InductiveInvariant, TypeOK, LeaseHeldByTheOpenRun, ReopenFailedWorkspaceRun
<1>4. UnresolvedRunPinsHead'
  BY DEF InductiveInvariant, UnresolvedRunPinsHead, ReopenFailedWorkspaceRun
<1>5. NoConflict'
  BY DEF InductiveInvariant, NoConflict, ReopenFailedWorkspaceRun
<1>6. OneUnresolvedRunPerWorkspace'
  BY DEF InductiveInvariant, OneUnresolvedRunPerWorkspace, ReopenFailedWorkspaceRun
<1>7. UnresolvedRunIsBound'
  BY DEF InductiveInvariant, UnresolvedRunIsBound, ReopenFailedWorkspaceRun
<1>8. CommittedOutputFollowsInput'
  BY DEF InductiveInvariant, CommittedOutputFollowsInput, ReopenFailedWorkspaceRun
<1>9. /\ VersionsAreConsistent'
      /\ DefaultIsAnInstance'
  BY DEF InductiveInvariant, VersionsAreConsistent, DefaultIsAnInstance, ReopenFailedWorkspaceRun
<1> QED
  BY <1>1, <1>2, <1>3, <1>4, <1>5, <1>6, <1>7, <1>8, <1>9 DEF InductiveInvariant

\* discardFailedWorkspaceRun preserves the invariant: a discarded Run pins nothing any more.
LEMMA DiscardFailedWorkspaceRunPreserves ==
    ASSUME InductiveInvariant, NEW r \in Runs, DiscardFailedWorkspaceRun(r)
    PROVE  InductiveInvariant'
<1>1. TypeOK'
  <2>1. runs' \in [Runs -> RunRow]
    BY RunUpdateTypes DEF InductiveInvariant, TypeOK, RunState, DiscardFailedWorkspaceRun
  <2> QED
    BY <2>1 DEF InductiveInvariant, TypeOK, DiscardFailedWorkspaceRun
<1>2. RowsAreConsistent'
  BY NamesAreDistinct
    DEF InductiveInvariant, RunState, RowsAreConsistent, DiscardFailedWorkspaceRun
<1>3. LeaseHeldByTheOpenRun'
  BY DEF InductiveInvariant, LeaseHeldByTheOpenRun, DiscardFailedWorkspaceRun
<1>4. UnresolvedRunPinsHead'
  BY DEF InductiveInvariant, UnresolvedRunPinsHead, DiscardFailedWorkspaceRun
<1>5. NoConflict'
  BY DEF InductiveInvariant, NoConflict, DiscardFailedWorkspaceRun
<1>6. OneUnresolvedRunPerWorkspace'
  BY DEF InductiveInvariant, OneUnresolvedRunPerWorkspace, DiscardFailedWorkspaceRun
<1>7. UnresolvedRunIsBound'
  BY DEF InductiveInvariant, UnresolvedRunIsBound, DiscardFailedWorkspaceRun
<1>8. CommittedOutputFollowsInput'
  BY DEF InductiveInvariant, CommittedOutputFollowsInput, DiscardFailedWorkspaceRun
<1>9. /\ VersionsAreConsistent'
      /\ DefaultIsAnInstance'
  BY DEF InductiveInvariant, VersionsAreConsistent, DefaultIsAnInstance, DiscardFailedWorkspaceRun
<1> QED
  BY <1>1, <1>2, <1>3, <1>4, <1>5, <1>6, <1>7, <1>8, <1>9 DEF InductiveInvariant

\* commitWorkspaceRun preserves the invariant. The lease and the pinned head leave only the branch
\* that publishes: its conflict branch cannot be taken.
LEMMA CommitWorkspaceRunPreserves ==
    ASSUME InductiveInvariant, NEW r \in Runs, NEW w \in Workspaces,
           NEW seen \in published[w], runs[r].workspace = w, CommitWorkspaceRun(r, seen)
    PROVE  InductiveInvariant'
<1>1. seen = Current(w) /\ seen \in Version /\ RefExists(w)
  <2>1. RefExists(w) /\ refs[w].head = seen.head
    BY DEF InductiveInvariant, UnresolvedRunPinsHead, CommitWorkspaceRun
  <2> QED
    BY <2>1 DEF InductiveInvariant, VersionsAreConsistent, TypeOK
<1>2. /\ BuildHead /\ AdvanceRef(w, seen)
      /\ runs[r].state = "COMMITTING" /\ runs[r].inputHead = seen.head
      /\ runs' = [runs EXCEPT ![r].state = "COMMITTED", ![r].outputHead = NewHead]
      /\ leases[w] = r /\ leases' = [leases EXCEPT ![w] = None]
      /\ applications' = applications /\ instances' = instances
  BY <1>1 DEF CommitWorkspaceRun, OwnsLease, ReleaseLease
<1>3. \A q \in Runs :
        /\ runs'[q].workspace = runs[q].workspace
        /\ runs'[q].inputHead = runs[q].inputHead
        /\ q # r => runs'[q] = runs[q]
        /\ runs'[r].state = "COMMITTED" /\ runs'[r].outputHead = NewHead
  BY <1>2 DEF InductiveInvariant, TypeOK, RunRow
<1>4. \A ref \in RefIds : RefExists(ref) => RefExists(ref)'
  BY <1>2, AdvanceRefKeepsRefs DEF InductiveInvariant
<1>5. /\ published' = [published EXCEPT
            ![w] = @ \cup {[head |-> NewHead, revision |-> seen.revision + 1]}]
      /\ \A ref \in RefIds : ref # w => refs'[ref] = refs[ref]
  BY <1>2 DEF AdvanceRef, InductiveInvariant, TypeOK
<1>6. TypeOK'
  <2>1. NewHead \in Nat
    BY DEF InductiveInvariant, TypeOK, Fid, NewHead
  <2>2. runs' \in [Runs -> RunRow]
    BY <1>2, <2>1, RunUpdateTypes DEF InductiveInvariant, TypeOK, RunState
  <2>3. leases' \in [Workspaces -> Runs \cup {None}]
    BY <1>2 DEF InductiveInvariant, TypeOK
  <2> QED
    BY <1>1, <1>2, <2>2, <2>3, AdvanceRefTypes DEF InductiveInvariant, TypeOK
<1>7. RowsAreConsistent'
  <2>1. ASSUME NEW q \in Runs
        PROVE  IF runs'[q].state = None THEN runs'[q] = NoRun
               ELSE /\ runs'[q].workspace \in Workspaces
                    /\ refs'[runs'[q].workspace].head # NoFid
    <3>1. CASE q = r
      BY <1>1, <1>3, <1>4, <3>1, NamesAreDistinct DEF RunState
    <3>2. CASE q # r
      BY <1>3, <1>4, <3>2 DEF InductiveInvariant, RowsAreConsistent
    <3> QED
      BY <3>1, <3>2
  <2> QED
    BY <1>2, <1>4, <2>1 DEF InductiveInvariant, RowsAreConsistent
<1>8. VersionsAreConsistent'
  BY <1>1, <1>2, AdvanceRefKeepsVersions DEF InductiveInvariant
<1>9. LeaseHeldByTheOpenRun'
  BY <1>2, <1>3, NamesAreDistinct DEF InductiveInvariant, TypeOK, LeaseHeldByTheOpenRun
<1>10. \A q \in Runs : IsUnresolved(runs'[q].state) => q # r /\ runs'[q] = runs[q]
  BY <1>3
<1>11. UnresolvedRunPinsHead'
  <2>1. ASSUME NEW q \in Runs, IsUnresolved(runs'[q].state)
        PROVE  runs[q].workspace # w
    BY <1>2, <1>10, <2>1 DEF InductiveInvariant, OneUnresolvedRunPerWorkspace
  <2> QED
    BY <1>5, <1>10, <2>1 DEF InductiveInvariant, UnresolvedRunPinsHead
<1>12. NoConflict' /\ OneUnresolvedRunPerWorkspace'
  BY <1>3, <1>10 DEF InductiveInvariant, NoConflict, OneUnresolvedRunPerWorkspace
<1>13. UnresolvedRunIsBound' /\ DefaultIsAnInstance'
  <2>1. applications' = applications /\ instances' = instances
    BY <1>2
  <2>2. UnresolvedRunIsBound'
    BY <1>10, <2>1 DEF InductiveInvariant, UnresolvedRunIsBound
  <2>3. DefaultIsAnInstance'
    BY <2>1 DEF InductiveInvariant, DefaultIsAnInstance
  <2> QED
    BY <2>2, <2>3
<1>14. CommittedOutputFollowsInput'
  <2>1. \A v \in Workspaces : published[v] \subseteq published'[v]
    BY <1>5 DEF InductiveInvariant, TypeOK
  <2>2. ASSUME NEW q \in Runs, runs'[q].state = "COMMITTED", q # r
        PROVE  \E old, new \in published'[runs'[q].workspace] :
                  /\ old.head = runs'[q].inputHead
                  /\ new.head = runs'[q].outputHead
                  /\ new = old \/ new.revision = old.revision + 1
    <3>1. runs'[q] = runs[q] /\ runs[q].workspace \in Workspaces
      BY <1>3, <2>2, NamesAreDistinct DEF InductiveInvariant, RowsAreConsistent, RunState
    <3> QED
      BY <2>1, <2>2, <3>1 DEF InductiveInvariant, CommittedOutputFollowsInput
  <2>3. \E old, new \in published'[runs'[r].workspace] :
           /\ old.head = runs'[r].inputHead
           /\ new.head = runs'[r].outputHead
           /\ new = old \/ new.revision = old.revision + 1
    <3> DEFINE next == [head |-> NewHead, revision |-> seen.revision + 1]
    <3>1. next \in published'[w] /\ seen \in published'[w]
      BY <1>5 DEF InductiveInvariant, TypeOK
    <3>2. /\ seen.head = runs'[r].inputHead /\ next.head = runs'[r].outputHead
          /\ next.revision = seen.revision + 1 /\ runs'[r].workspace = w
      BY <1>2, <1>3
    <3> QED
      BY <3>1, <3>2
  <2> QED
    BY <2>2, <2>3 DEF CommittedOutputFollowsInput
<1> QED
  BY <1>6, <1>7, <1>8, <1>9, <1>11, <1>12, <1>13, <1>14 DEF InductiveInvariant

\* completeUnchangedWorkspaceRun preserves the invariant: the Run ends with the head it began with.
LEMMA CompleteUnchangedWorkspaceRunPreserves ==
    ASSUME InductiveInvariant, NEW r \in Runs, NEW w \in Workspaces, NEW seen \in published[w],
           runs[r].workspace = w, CompleteUnchangedWorkspaceRun(r, seen)
    PROVE  InductiveInvariant'
<1>1. TypeOK'
  <2>1. runs' \in [Runs -> RunRow]
    <3>1. seen.head \in Nat
      BY DEF InductiveInvariant, TypeOK, Version, Fid
    <3> QED
      BY <3>1, RunUpdateTypes
      DEF InductiveInvariant, TypeOK, RunState, CompleteUnchangedWorkspaceRun
  <2>2. leases' \in [Workspaces -> Runs \cup {None}]
    BY DEF InductiveInvariant, TypeOK, ReleaseLease, CompleteUnchangedWorkspaceRun
  <2> QED
    BY <2>1, <2>2 DEF InductiveInvariant, TypeOK, CompleteUnchangedWorkspaceRun
<1>2. RowsAreConsistent'
  BY NamesAreDistinct
    DEF InductiveInvariant, TypeOK, RunState, RowsAreConsistent, CompleteUnchangedWorkspaceRun
<1>3. LeaseHeldByTheOpenRun'
  BY NamesAreDistinct
    DEF InductiveInvariant, TypeOK, LeaseHeldByTheOpenRun, CompleteUnchangedWorkspaceRun,
        ReleaseLease
<1>4. UnresolvedRunPinsHead'
  BY DEF InductiveInvariant, TypeOK, UnresolvedRunPinsHead, CompleteUnchangedWorkspaceRun
<1>5. NoConflict'
  BY DEF InductiveInvariant, TypeOK, NoConflict, UnresolvedRunPinsHead, VersionsAreConsistent,
     CompleteUnchangedWorkspaceRun
<1>6. OneUnresolvedRunPerWorkspace'
  BY DEF InductiveInvariant, TypeOK, OneUnresolvedRunPerWorkspace, CompleteUnchangedWorkspaceRun
<1>7. UnresolvedRunIsBound'
  BY SMTT(20) DEF InductiveInvariant, TypeOK, RunRow, RunState, InstanceRow, ApplicationRow,
     UnresolvedRunIsBound, RowsAreConsistent, CompleteUnchangedWorkspaceRun, OwnsLease,
     ReleaseLease, NoRun, NoInstance, NoRef
<1>8. CommittedOutputFollowsInput'
  BY DEF InductiveInvariant, TypeOK, RunState, Fid, CommittedOutputFollowsInput,
     RowsAreConsistent, CompleteUnchangedWorkspaceRun, OwnsLease, NoInstance, NoRef
<1>9. /\ VersionsAreConsistent'
      /\ DefaultIsAnInstance'
  BY DEF InductiveInvariant, VersionsAreConsistent, DefaultIsAnInstance,
     CompleteUnchangedWorkspaceRun
<1> QED
  BY <1>1, <1>2, <1>3, <1>4, <1>5, <1>6, <1>7, <1>8, <1>9 DEF InductiveInvariant

\* setBwaRunStopReason preserves the invariant: it writes one column nothing else depends on.
LEMMA SetBwaRunStopReasonPreserves ==
    ASSUME InductiveInvariant, NEW r \in Runs, NEW reason \in StopReasons, SetBwaRunStopReason(r,
           reason)
    PROVE  InductiveInvariant'
<1>1. TypeOK'
  <2>1. runs' \in [Runs -> RunRow]
    BY DEF InductiveInvariant, TypeOK, RunRow, SetBwaRunStopReason, StopReasonAccepted
  <2> QED
    BY <2>1 DEF InductiveInvariant, TypeOK, SetBwaRunStopReason
<1>2. RowsAreConsistent'
  BY DEF InductiveInvariant, RowsAreConsistent, SetBwaRunStopReason, NoRun
<1>3. LeaseHeldByTheOpenRun'
  BY DEF InductiveInvariant, LeaseHeldByTheOpenRun, SetBwaRunStopReason
<1>4. UnresolvedRunPinsHead'
  BY DEF InductiveInvariant, UnresolvedRunPinsHead, SetBwaRunStopReason
<1>5. NoConflict'
  BY DEF InductiveInvariant, NoConflict, SetBwaRunStopReason
<1>6. OneUnresolvedRunPerWorkspace'
  BY DEF InductiveInvariant, OneUnresolvedRunPerWorkspace, SetBwaRunStopReason
<1>7. UnresolvedRunIsBound'
  BY DEF InductiveInvariant, UnresolvedRunIsBound, SetBwaRunStopReason
<1>8. CommittedOutputFollowsInput'
  BY DEF InductiveInvariant, CommittedOutputFollowsInput, SetBwaRunStopReason
<1>9. /\ VersionsAreConsistent'
      /\ DefaultIsAnInstance'
  BY DEF InductiveInvariant, VersionsAreConsistent, DefaultIsAnInstance, SetBwaRunStopReason
<1> QED
  BY <1>1, <1>2, <1>3, <1>4, <1>5, <1>6, <1>7, <1>8, <1>9 DEF InductiveInvariant

-----------------------------------------------------------------------------
\* The operations on Applications and Instances.

\* createBwaApplication preserves the invariant: a new Application has no Instance and no default.
LEMMA CreateBwaApplicationPreserves ==
    ASSUME InductiveInvariant, NEW a \in Applications, NEW d \in Digests, CreateBwaApplication(a,
           d)
    PROVE  InductiveInvariant'
<1>1. TypeOK'
  <2>1. applications' \in [Applications -> ApplicationRow]
    BY DEF InductiveInvariant, TypeOK, ApplicationRow, NoApplication, CreateBwaApplication
  <2> QED
    BY <2>1 DEF InductiveInvariant, TypeOK, CreateBwaApplication
<1>2. RowsAreConsistent'
  BY DEF InductiveInvariant, RowsAreConsistent, CreateBwaApplication
<1>3. UnresolvedRunIsBound'
  BY DEF InductiveInvariant, UnresolvedRunIsBound, RowsAreConsistent, CreateBwaApplication
<1>4. DefaultIsAnInstance'
  BY NamesAreDistinct
    DEF InductiveInvariant, DefaultIsAnInstance, RowsAreConsistent, CreateBwaApplication,
        NoApplication
<1>5. /\ VersionsAreConsistent'
      /\ LeaseHeldByTheOpenRun'
      /\ UnresolvedRunPinsHead'
      /\ NoConflict'
      /\ OneUnresolvedRunPerWorkspace'
      /\ CommittedOutputFollowsInput'
  BY DEF InductiveInvariant, VersionsAreConsistent, LeaseHeldByTheOpenRun, UnresolvedRunPinsHead,
     NoConflict, OneUnresolvedRunPerWorkspace, CommittedOutputFollowsInput, CreateBwaApplication
<1> QED
  BY <1>1, <1>2, <1>3, <1>4, <1>5 DEF InductiveInvariant

\* deleteBwaApplication preserves the invariant: it is refused while an Instance refers to the row.
LEMMA DeleteBwaApplicationPreserves ==
    ASSUME InductiveInvariant, NEW a \in Applications, DeleteBwaApplication(a)
    PROVE  InductiveInvariant'
<1>1. TypeOK'
  <2>1. applications' \in [Applications -> ApplicationRow]
    BY DEF InductiveInvariant, TypeOK, ApplicationRow, NoApplication, DeleteBwaApplication
  <2> QED
    BY <2>1 DEF InductiveInvariant, TypeOK, DeleteBwaApplication
<1>2. RowsAreConsistent'
  BY DEF InductiveInvariant, RowsAreConsistent, DeleteBwaApplication
<1>3. UnresolvedRunIsBound'
  BY DEF InductiveInvariant, UnresolvedRunIsBound, DeleteBwaApplication
<1>4. DefaultIsAnInstance'
  BY DEF InductiveInvariant, DefaultIsAnInstance, DeleteBwaApplication, NoApplication
<1>5. /\ VersionsAreConsistent'
      /\ LeaseHeldByTheOpenRun'
      /\ UnresolvedRunPinsHead'
      /\ NoConflict'
      /\ OneUnresolvedRunPerWorkspace'
      /\ CommittedOutputFollowsInput'
  BY DEF InductiveInvariant, VersionsAreConsistent, LeaseHeldByTheOpenRun, UnresolvedRunPinsHead,
     NoConflict, OneUnresolvedRunPerWorkspace, CommittedOutputFollowsInput, DeleteBwaApplication
<1> QED
  BY <1>1, <1>2, <1>3, <1>4, <1>5 DEF InductiveInvariant

\* setBwaApplicationEnabled preserves the invariant.
LEMMA SetBwaApplicationEnabledPreserves ==
    ASSUME InductiveInvariant, NEW a \in Applications, NEW b \in BOOLEAN,
           SetBwaApplicationEnabled(a, b)
    PROVE  InductiveInvariant'
<1>1. TypeOK'
  <2>1. applications' \in [Applications -> ApplicationRow]
    BY DEF InductiveInvariant, TypeOK, ApplicationRow, SetBwaApplicationEnabled
  <2> QED
    BY <2>1 DEF InductiveInvariant, TypeOK, SetBwaApplicationEnabled
<1>2. RowsAreConsistent'
  BY DEF InductiveInvariant, RowsAreConsistent, SetBwaApplicationEnabled
<1>3. UnresolvedRunIsBound'
  BY DEF InductiveInvariant, UnresolvedRunIsBound, SetBwaApplicationEnabled
<1>4. DefaultIsAnInstance'
  BY DEF InductiveInvariant, DefaultIsAnInstance, SetBwaApplicationEnabled
<1>5. /\ VersionsAreConsistent'
      /\ LeaseHeldByTheOpenRun'
      /\ UnresolvedRunPinsHead'
      /\ NoConflict'
      /\ OneUnresolvedRunPerWorkspace'
      /\ CommittedOutputFollowsInput'
  BY DEF InductiveInvariant, VersionsAreConsistent, LeaseHeldByTheOpenRun, UnresolvedRunPinsHead,
     NoConflict, OneUnresolvedRunPerWorkspace, CommittedOutputFollowsInput,
     SetBwaApplicationEnabled
<1> QED
  BY <1>1, <1>2, <1>3, <1>4, <1>5 DEF InductiveInvariant

\* updateBwaApplicationImage preserves the invariant: Instances refer to the Application, never to
\* its image.
LEMMA UpdateBwaApplicationImagePreserves ==
    ASSUME InductiveInvariant, NEW a \in Applications, NEW d \in Digests, NEW e \in Digests,
           UpdateBwaApplicationImage(a, d, e)
    PROVE  InductiveInvariant'
<1>1. TypeOK'
  <2>1. [applications[a] EXCEPT !.digest = e, !.previous = d] \in ApplicationRow
    BY DEF InductiveInvariant, TypeOK, ApplicationRow
  <2>2. applications' = [applications EXCEPT
           ![a] = [applications[a] EXCEPT !.digest = e, !.previous = d]]
    BY DEF UpdateBwaApplicationImage
  <2> QED
    BY <2>1, <2>2 DEF InductiveInvariant, TypeOK, UpdateBwaApplicationImage
<1>2. RowsAreConsistent'
  BY NamesAreDistinct
    DEF InductiveInvariant, TypeOK, InstanceRow, RowsAreConsistent, UpdateBwaApplicationImage
<1>3. UnresolvedRunIsBound'
  BY DEF InductiveInvariant, TypeOK, InstanceRow, UnresolvedRunIsBound,
     UpdateBwaApplicationImage, NoRef
<1>4. DefaultIsAnInstance'
  BY DEF InductiveInvariant, TypeOK, DefaultIsAnInstance, UpdateBwaApplicationImage
<1>5. /\ VersionsAreConsistent'
      /\ LeaseHeldByTheOpenRun'
      /\ UnresolvedRunPinsHead'
      /\ NoConflict'
      /\ OneUnresolvedRunPerWorkspace'
      /\ CommittedOutputFollowsInput'
  BY DEF InductiveInvariant, VersionsAreConsistent, LeaseHeldByTheOpenRun, UnresolvedRunPinsHead,
     NoConflict, OneUnresolvedRunPerWorkspace, CommittedOutputFollowsInput,
     UpdateBwaApplicationImage
<1> QED
  BY <1>1, <1>2, <1>3, <1>4, <1>5 DEF InductiveInvariant

\* createBwaInstance preserves the invariant: a Workspace gets at most one Instance, and the first
\* Instance becomes the default.
LEMMA CreateBwaInstancePreserves ==
    ASSUME InductiveInvariant, NEW i \in Instances, NEW a \in Applications, NEW w \in Workspaces,
           CreateBwaInstance(i, a, w)
    PROVE  InductiveInvariant'
<1>1. TypeOK'
  <2>1. applications' \in [Applications -> ApplicationRow]
    BY DEF InductiveInvariant, TypeOK, ApplicationRow, CreateBwaInstance, NewInstance
  <2>2. instances' \in [Instances -> InstanceRow]
    BY DEF InductiveInvariant, TypeOK, InstanceRow, CreateBwaInstance, NewInstance
  <2> QED
    BY <2>1, <2>2 DEF InductiveInvariant, TypeOK, CreateBwaInstance
<1>2. RowsAreConsistent'
  BY NamesAreDistinct DEF InductiveInvariant, RowsAreConsistent, CreateBwaInstance, NewInstance
<1>3. UnresolvedRunIsBound'
  BY DEF InductiveInvariant, UnresolvedRunIsBound, CreateBwaInstance, NewInstance
<1>4. DefaultIsAnInstance'
  BY NamesAreDistinct
    DEF InductiveInvariant, TypeOK, DefaultIsAnInstance, CreateBwaInstance, NewInstance
<1>5. /\ VersionsAreConsistent'
      /\ LeaseHeldByTheOpenRun'
      /\ UnresolvedRunPinsHead'
      /\ NoConflict'
      /\ OneUnresolvedRunPerWorkspace'
      /\ CommittedOutputFollowsInput'
  BY DEF InductiveInvariant, VersionsAreConsistent, LeaseHeldByTheOpenRun, UnresolvedRunPinsHead,
     NoConflict, OneUnresolvedRunPerWorkspace, CommittedOutputFollowsInput, CreateBwaInstance
<1> QED
  BY <1>1, <1>2, <1>3, <1>4, <1>5 DEF InductiveInvariant

\* setBwaInstanceDesiredState preserves the invariant.
LEMMA SetBwaInstanceDesiredStatePreserves ==
    ASSUME InductiveInvariant, NEW i \in Instances, NEW s \in {"STOPPED", "RUNNING"},
           SetBwaInstanceDesiredState(i, s)
    PROVE  InductiveInvariant'
<1>1. TypeOK'
  <2>1. instances' \in [Instances -> InstanceRow]
    BY DEF InductiveInvariant, TypeOK, InstanceRow, SetBwaInstanceDesiredState
  <2> QED
    BY <2>1 DEF InductiveInvariant, TypeOK, SetBwaInstanceDesiredState
<1>2. RowsAreConsistent'
  BY DEF InductiveInvariant, RowsAreConsistent, SetBwaInstanceDesiredState
<1>3. UnresolvedRunIsBound'
  BY DEF InductiveInvariant, UnresolvedRunIsBound, SetBwaInstanceDesiredState
<1>4. DefaultIsAnInstance'
  BY DEF InductiveInvariant, DefaultIsAnInstance, SetBwaInstanceDesiredState
<1>5. /\ VersionsAreConsistent'
      /\ LeaseHeldByTheOpenRun'
      /\ UnresolvedRunPinsHead'
      /\ NoConflict'
      /\ OneUnresolvedRunPerWorkspace'
      /\ CommittedOutputFollowsInput'
  BY DEF InductiveInvariant, VersionsAreConsistent, LeaseHeldByTheOpenRun, UnresolvedRunPinsHead,
     NoConflict, OneUnresolvedRunPerWorkspace, CommittedOutputFollowsInput,
     SetBwaInstanceDesiredState
<1> QED
  BY <1>1, <1>2, <1>3, <1>4, <1>5 DEF InductiveInvariant

\* deleteBwaInstancePreservingWorkspace preserves the invariant: no unresolved Run loses its
\* Instance, and the default moves to an Instance that is left.
LEMMA DeleteBwaInstancePreservingWorkspacePreserves ==
    ASSUME InductiveInvariant, NEW i \in Instances,
           DeleteBwaInstancePreservingWorkspace(i)
    PROVE  InductiveInvariant'
<1>1. PICK a \in Applications : a = instances[i].application /\ InstanceExists(i)
  BY DEF InductiveInvariant, TypeOK, InstanceRow, DeleteBwaInstancePreservingWorkspace
<1>2. /\ refs' = refs /\ published' = published /\ lastFid' = lastFid /\ leases' = leases
      /\ instances' = [instances EXCEPT ![i] = NoInstance]
      /\ \A r \in BindingsOf(i) : ~IsUnresolved(runs[r].state)
  BY DEF DeleteBwaInstancePreservingWorkspace
<1>3. PICK next \in Instances \cup {None} :
        /\ IF InstancesOf(a) = {i} THEN next = None ELSE next \in InstancesOf(a) \ {i}
        /\ applications' = [applications EXCEPT ![a].default =
              IF applications[a].default = i THEN next ELSE applications[a].default]
  <2>1. i \in InstancesOf(a)
    BY <1>1
  <2>2. PICK next \in IF InstancesOf(a) \ {i} = {} THEN {None} ELSE InstancesOf(a) \ {i} :
           applications' = [applications EXCEPT ![a].default =
              IF @ = i THEN next ELSE @]
    BY <1>1 DEF DeleteBwaInstancePreservingWorkspace
  <2>3. CASE InstancesOf(a) = {i}
    BY <2>2, <2>3
  <2>4. CASE InstancesOf(a) # {i}
    <3>1. InstancesOf(a) \ {i} # {}
      BY <2>1, <2>4
    <3> QED
      BY <2>2, <2>4, <3>1
  <2> QED
    BY <2>3, <2>4
<1>4. runs' = [r \in Runs |-> IF r \in BindingsOf(i)
                 THEN [runs[r] EXCEPT !.instance = None, !.digest = None,
                                      !.stopReason = None]
                 ELSE runs[r]]
  BY DEF DeleteBwaInstancePreservingWorkspace
<1>5. \A r \in Runs :
        /\ runs'[r].state = runs[r].state /\ runs'[r].workspace = runs[r].workspace
        /\ runs'[r].inputHead = runs[r].inputHead
        /\ runs'[r].outputHead = runs[r].outputHead
        /\ runs[r].instance # i => runs'[r] = runs[r]
        /\ IsUnresolved(runs[r].state) => runs[r].instance # i
  BY <1>2, <1>4 DEF InductiveInvariant, TypeOK, RunRow, BindingsOf
<1>6. TypeOK'
  <2>1. runs' \in [Runs -> RunRow]
    <3>1. \A row \in RunRow : [row EXCEPT !.instance = None, !.digest = None,
                                          !.stopReason = None] \in RunRow
      BY DEF RunRow
    <3> QED
      BY <1>4, <3>1 DEF InductiveInvariant, TypeOK
  <2>2. applications' \in [Applications -> ApplicationRow]
    BY <1>1, <1>3 DEF InductiveInvariant, TypeOK, ApplicationRow
  <2>3. instances' \in [Instances -> InstanceRow]
    BY <1>2 DEF InductiveInvariant, TypeOK, InstanceRow, NoInstance
  <2> QED
    BY <1>2, <2>1, <2>2, <2>3 DEF InductiveInvariant, TypeOK
<1>7. /\ instances'[i] = NoInstance
      /\ \A j \in Instances : j # i => instances'[j] = instances[j]
      /\ \A b \in Applications : applications'[b].digest = applications[b].digest
      /\ \A b \in Applications : b # a => applications'[b] = applications[b]
      /\ applications'[a].default = IF applications[a].default = i
                                      THEN next ELSE applications[a].default
  BY <1>1, <1>2, <1>3 DEF InductiveInvariant, TypeOK, ApplicationRow
<1>8. RowsAreConsistent'
  <2>1. \A r \in Runs : runs[r].state = None => runs'[r] = NoRun
    <3>1. ASSUME NEW r \in Runs, runs[r].state = None PROVE runs[r].instance # i
      BY <3>1, NamesAreDistinct DEF InductiveInvariant, RowsAreConsistent, NoRun
    <3> QED
      BY <1>5, <3>1 DEF InductiveInvariant, RowsAreConsistent
  <2>2. ~(InstanceExists(i)')
    BY <1>7 DEF NoInstance
  <2>3. \A j \in Instances : InstanceExists(j) =>
           instances[j].application \in Applications
    BY DEF InductiveInvariant, TypeOK, InstanceRow
  <2> QED
    BY <1>2, <1>5, <1>7, <2>1, <2>2, <2>3 DEF InductiveInvariant, RowsAreConsistent
<1>9. VersionsAreConsistent' /\ LeaseHeldByTheOpenRun' /\ NoConflict'
      /\ UnresolvedRunPinsHead' /\ OneUnresolvedRunPerWorkspace'
  BY <1>2, <1>5 DEF InductiveInvariant, VersionsAreConsistent, LeaseHeldByTheOpenRun,
     NoConflict, UnresolvedRunPinsHead, OneUnresolvedRunPerWorkspace
<1>10. UnresolvedRunIsBound'
  <2>1. \A j \in Instances : InstanceExists(j) =>
           instances[j].application \in Applications
    BY DEF InductiveInvariant, TypeOK, InstanceRow
  <2> QED
    BY <1>5, <1>7, <2>1 DEF InductiveInvariant, UnresolvedRunIsBound
<1>11. DefaultIsAnInstance'
  <2>1. InstancesOf(a)' = InstancesOf(a) \ {i} /\ i \in InstancesOf(a)
    <3>1. \A j \in Instances :
             instances'[j].application = a <=> j # i /\ instances[j].application = a
      BY <1>1, <1>7 DEF NoInstance
    <3> QED
      BY <1>1, <3>1
  <2>2. \A b \in Applications : b # a => InstancesOf(b)' = InstancesOf(b)
    BY <1>1, <1>7, NamesAreDistinct DEF NoInstance
  <2>3. applications[a].default \in InstancesOf(a)
    BY <1>1, <2>1 DEF InductiveInvariant, DefaultIsAnInstance
  <2> QED
    BY <1>3, <1>7, <2>1, <2>2, <2>3 DEF InductiveInvariant, DefaultIsAnInstance
<1>12. CommittedOutputFollowsInput'
  BY <1>2, <1>5 DEF InductiveInvariant, CommittedOutputFollowsInput
<1> QED
  BY <1>6, <1>8, <1>9, <1>10, <1>11, <1>12 DEF InductiveInvariant

-----------------------------------------------------------------------------
\* The theorems.

\* A new database satisfies the invariant.
THEOREM InitEstablishesInvariant == Init => InductiveInvariant
<1> SUFFICES ASSUME Init PROVE InductiveInvariant
  OBVIOUS
<1>1. TypeOK
  BY BoundIsPositive DEF Init, TypeOK, NoRef, RefRow, Version, Fid, NoRun, RunRow,
     NoApplication, ApplicationRow, NoInstance, InstanceRow
<1>2. RowsAreConsistent
  BY DEF Init, RowsAreConsistent, NoRun, NoInstance
<1>3. VersionsAreConsistent
  BY BoundIsPositive, NamesAreDistinct DEF Init, VersionsAreConsistent, NoRef
<1>4. \A r \in Runs : ~IsUnresolved(runs[r].state) /\ runs[r].state = None
  BY NamesAreDistinct DEF Init, NoRun, RunState
<1>5. LeaseHeldByTheOpenRun /\ UnresolvedRunPinsHead /\ NoConflict
      /\ OneUnresolvedRunPerWorkspace /\ UnresolvedRunIsBound
  BY <1>4, NamesAreDistinct DEF Init, RunState, LeaseHeldByTheOpenRun, UnresolvedRunPinsHead,
     NoConflict, OneUnresolvedRunPerWorkspace, UnresolvedRunIsBound
<1>6. DefaultIsAnInstance
  BY NamesAreDistinct DEF Init, DefaultIsAnInstance, NoInstance, NoApplication
<1>7. CommittedOutputFollowsInput
  BY <1>4, NamesAreDistinct DEF RunState, CommittedOutputFollowsInput
<1> QED
  BY <1>1, <1>2, <1>3, <1>5, <1>6, <1>7 DEF InductiveInvariant

\* Every transaction of the store preserves the invariant: one lemma per operation.
THEOREM NextPreservesInvariant ==
    InductiveInvariant /\ [Next]_storeVars => InductiveInvariant'
<1> SUFFICES ASSUME InductiveInvariant, [Next]_storeVars PROVE InductiveInvariant'
  OBVIOUS
<1>1. CASE WorkspaceStep
  BY <1>1, CompareAndSwapPreserves, CompareAndSwapGuardedPreserves, CreateWorkspacePreserves,
     CreateWorkspaceWithBwaInstancePreserves, DeleteWorkspacePreserves DEF WorkspaceStep
<1>2. CASE RunStep
  BY <1>2, CreateBwaWorkspaceRunPreserves, TransitionWorkspaceRunPreserves,
     ReopenFailedWorkspaceRunPreserves, DiscardFailedWorkspaceRunPreserves,
     CommitWorkspaceRunPreserves, CompleteUnchangedWorkspaceRunPreserves,
     SetBwaRunStopReasonPreserves DEF RunStep
<1>3. CASE ApplicationStep
  BY <1>3, CreateBwaApplicationPreserves, DeleteBwaApplicationPreserves,
     SetBwaApplicationEnabledPreserves, UpdateBwaApplicationImagePreserves,
     CreateBwaInstancePreserves, SetBwaInstanceDesiredStatePreserves,
     DeleteBwaInstancePreservingWorkspacePreserves DEF ApplicationStep
<1>4. CASE UNCHANGED storeVars
  BY <1>4 DEF storeVars, InductiveInvariant, TypeOK, RowsAreConsistent,
     VersionsAreConsistent, LeaseHeldByTheOpenRun, UnresolvedRunPinsHead, NoConflict,
     OneUnresolvedRunPerWorkspace, UnresolvedRunIsBound, DefaultIsAnInstance,
     CommittedOutputFollowsInput
<1> QED
  BY <1>1, <1>2, <1>3, <1>4 DEF Next

\* The strengthened invariant holds in every reachable state of the store, for every set of
\* Workspaces, Runs, Applications and Instances.
THEOREM InvariantHolds == Spec => []InductiveInvariant
  BY InitEstablishesInvariant, NextPreservesInvariant, PTL DEF Spec

\* Every row of the store has the type its schema promises (sqliteRefStore.ts:1845-2058).
THEOREM TypeCorrect == Spec => []TypeOK
<1>1. InductiveInvariant => TypeOK
  BY DEF InductiveInvariant
<1> QED
  BY <1>1, InvariantHolds, PTL

\* A Workspace's lease is held by its open Run, and by nobody when it has none
\* (createBwaWorkspaceRun, transitionWorkspaceRun, commitWorkspaceRun).
THEOREM LeaseHolds == Spec => []LeaseHeldByTheOpenRun
<1>1. InductiveInvariant => LeaseHeldByTheOpenRun
  BY DEF InductiveInvariant
<1> QED
  BY <1>1, InvariantHolds, PTL

\* While a Run is unresolved, nobody moves the head it was started on
\* (compareAndSwapGuarded's lease and unresolved-Run checks, sqliteRefStore.ts:425-501).
THEOREM PinHolds == Spec => []UnresolvedRunPinsHead
<1>1. InductiveInvariant => UnresolvedRunPinsHead
  BY DEF InductiveInvariant
<1> QED
  BY <1>1, InvariantHolds, PTL

\* No Run ends in CONFLICT: the conflict branch of commitWorkspaceRun is a second line of
\* defence that the lease makes unreachable.
THEOREM ConflictNeverHappens == Spec => []NoConflict
<1>1. InductiveInvariant => NoConflict
  BY DEF InductiveInvariant
<1> QED
  BY <1>1, InvariantHolds, PTL

\* A Workspace never has two unresolved Runs, although a failed Run holds no lease.
THEOREM OneUnresolvedRunHolds == Spec => []OneUnresolvedRunPerWorkspace
<1>1. InductiveInvariant => OneUnresolvedRunPerWorkspace
  BY DEF InductiveInvariant
<1> QED
  BY <1>1, InvariantHolds, PTL

\* An unresolved Run keeps the Instance and the Workspace it was created for, so the owner can
\* always publish or discard its Upper.
THEOREM UnresolvedRunIsBoundHolds == Spec => []UnresolvedRunIsBound
<1>1. InductiveInvariant => UnresolvedRunIsBound
  BY DEF InductiveInvariant
<1> QED
  BY <1>1, InvariantHolds, PTL

\* An Application with Instances has one of them as its default, one without has none, whatever
\* is created and deleted in which order.
THEOREM DefaultHolds == Spec => []DefaultIsAnInstance
<1>1. InductiveInvariant => DefaultIsAnInstance
  BY DEF InductiveInvariant
<1> QED
  BY <1>1, InvariantHolds, PTL

\* The output of a committed Run is its input, or the next revision of the same Workspace.
THEOREM OutputFollowsInputHolds == Spec => []CommittedOutputFollowsInput
<1>1. InductiveInvariant => CommittedOutputFollowsInput
  BY DEF InductiveInvariant
<1> QED
  BY <1>1, InvariantHolds, PTL

\* A ref that advances does so from the row the caller had seen, by one revision.
LEMMA AdvanceRefIsLinear ==
    ASSUME TypeOK, NEW ref \in RefIds, NEW seen, AdvanceRef(ref, seen)
    PROVE  \A other \in RefIds : refs'[other] # refs[other] =>
              /\ refs'[other].base = refs[other].head
              /\ refs'[other].revision = refs[other].revision + 1
<1>1. refs' = [refs EXCEPT ![ref] = [head |-> NewHead, base |-> seen.head,
                                     revision |-> seen.revision + 1]]
      /\ seen = Current(ref)
  BY DEF AdvanceRef
<1> QED
  BY <1>1 DEF TypeOK

\* No lost update: whoever writes a ref, the new row names the head it replaces as its base and
\* counts one revision more (compareAndSwap, commitWorkspaceRun).
THEOREM LinearHistoryHolds == Spec => LinearHistory
<1> DEFINE Linear == \A ref \in RefIds :
             RefExists(ref) /\ refs'[ref] # refs[ref] /\ refs'[ref] # NoRef =>
                /\ refs'[ref].base = refs[ref].head
                /\ refs'[ref].revision = refs[ref].revision + 1
<1>1. ASSUME InductiveInvariant, Next PROVE Linear
  <2>1. ASSUME NEW w \in Workspaces, NEW source \in RefIds, NEW seenHead,
               NEW fork \in BOOLEAN, NewWorkspace(w, source, seenHead, fork)
        PROVE  Linear
    <3>1. ~RefExists(w)
      BY <2>1 DEF NewWorkspace
    <3> QED
      BY <2>1, <3>1, NewWorkspaceKeepsRefs, <1>1 DEF InductiveInvariant
  <2>2. ASSUME NEW w \in Workspaces, DeleteWorkspace(w) PROVE Linear
    BY <1>1, <2>2 DEF InductiveInvariant, TypeOK, DeleteWorkspace
  <2>3. CASE refs' = refs
    BY <2>3
  <2>4. ASSUME NEW ref \in RefIds, NEW seen, AdvanceRef(ref, seen) PROVE Linear
    BY <1>1, <2>4, AdvanceRefIsLinear DEF InductiveInvariant
  <2>5. CASE WorkspaceStep
    BY <2>1, <2>2, <2>4, <2>5 DEF WorkspaceStep, CompareAndSwap, CompareAndSwapGuarded,
       CreateWorkspace, CreateWorkspaceWithBwaInstance
  <2>6. CASE RunStep
    <3>1. ASSUME NEW r \in Runs, NEW w \in Workspaces, NEW seen \in published[w],
                 runs[r].workspace = w, CommitWorkspaceRun(r, seen)
          PROVE  Linear
      <4>1. CASE AdvanceRef(w, seen)
        BY <2>4, <4>1
      <4>2. CASE refs' = refs
        BY <2>3, <4>2
      <4> QED
        BY <3>1, <4>1, <4>2 DEF CommitWorkspaceRun
    <3>2. CASE ~ \E r \in Runs, w \in Workspaces : \E seen \in published[w] :
                    runs[r].workspace = w /\ CommitWorkspaceRun(r, seen)
      <4>1. refs' = refs
        BY <2>6, <3>2 DEF RunStep, CreateBwaWorkspaceRun, TransitionWorkspaceRun,
           ReopenFailedWorkspaceRun, DiscardFailedWorkspaceRun,
           CompleteUnchangedWorkspaceRun, SetBwaRunStopReason
      <4> QED
        BY <2>3, <4>1
    <3> QED
      BY <3>1, <3>2
  <2>7. CASE ApplicationStep
    <3>1. refs' = refs
      BY <2>7 DEF ApplicationStep, CreateBwaApplication, DeleteBwaApplication,
         SetBwaApplicationEnabled, UpdateBwaApplicationImage, CreateBwaInstance,
         SetBwaInstanceDesiredState, DeleteBwaInstancePreservingWorkspace
    <3> QED
      BY <2>3, <3>1
  <2> QED
    BY <1>1, <2>5, <2>6, <2>7 DEF Next
<1>2. InductiveInvariant /\ [Next]_storeVars => [Linear]_storeVars
  BY <1>1
<1> QED
  BY <1>2, InvariantHolds, PTL DEF Spec, LinearHistory

\* No operation, the deletion of a Workspace or of an Instance included, changes what an
\* unresolved Run was started on.
THEOREM UnresolvedRunIsKeptHolds == Spec => UnresolvedRunIsKept
<1> DEFINE Kept == \A r \in Runs : IsUnresolved(runs[r].state) =>
             /\ runs'[r].workspace = runs[r].workspace
             /\ runs'[r].instance = runs[r].instance
             /\ runs'[r].inputHead = runs[r].inputHead
<1>1. ASSUME InductiveInvariant, Next PROVE Kept
  <2>1. ASSUME NEW w \in Workspaces, DeleteWorkspace(w) PROVE Kept
    <3>1. \A r \in RunsOf(w) : ~IsUnresolved(runs[r].state)
      BY <1>1, <2>1 DEF InductiveInvariant, UnresolvedRunIsBound, DeleteWorkspace, RunsOf
    <3> QED
      BY <2>1, <3>1 DEF DeleteWorkspace
  <2>2. ASSUME NEW i \in Instances, DeleteBwaInstancePreservingWorkspace(i) PROVE Kept
    <3>1. \A r \in BindingsOf(i) : ~IsUnresolved(runs[r].state)
      BY <2>2 DEF DeleteBwaInstancePreservingWorkspace
    <3>2. \A r \in Runs : r \notin BindingsOf(i) => runs'[r] = runs[r]
      BY <2>2 DEF DeleteBwaInstancePreservingWorkspace
    <3> QED
      BY <3>1, <3>2
  <2>3. CASE runs' = runs
    BY <2>3
  <2>4. CASE WorkspaceStep
    BY <2>1, <2>3, <2>4 DEF WorkspaceStep, CompareAndSwap, CompareAndSwapGuarded,
       CreateWorkspace, CreateWorkspaceWithBwaInstance
  <2>5. CASE ApplicationStep
    BY <2>2, <2>3, <2>5 DEF ApplicationStep, CreateBwaApplication, DeleteBwaApplication,
       SetBwaApplicationEnabled, UpdateBwaApplicationImage, CreateBwaInstance,
       SetBwaInstanceDesiredState
  <2>6. CASE \E r \in Runs, i \in Instances : CreateBwaWorkspaceRun(r, i)
    BY <1>1, <2>6, NamesAreDistinct
    DEF CreateBwaWorkspaceRun, InductiveInvariant, TypeOK, NoRun, RunState
  <2>7. ASSUME NEW r \in Runs, NEW t \in RequestedRunTransition,
               TransitionWorkspaceRun(r, t[1], t[2]) PROVE Kept
    BY <1>1, <2>7 DEF TransitionWorkspaceRun, InductiveInvariant, TypeOK, RunRow
  <2>8. ASSUME NEW r \in Runs,
  ReopenFailedWorkspaceRun(r) \/ DiscardFailedWorkspaceRun(r) PROVE Kept
    BY <1>1, <2>8
      DEF ReopenFailedWorkspaceRun, DiscardFailedWorkspaceRun, InductiveInvariant, TypeOK, RunRow
  <2>9. ASSUME NEW r \in Runs, NEW seen, CommitWorkspaceRun(r, seen) PROVE Kept
    BY <1>1, <2>9 DEF CommitWorkspaceRun, InductiveInvariant, TypeOK, RunRow
  <2>10. ASSUME NEW r \in Runs, NEW seen, CompleteUnchangedWorkspaceRun(r, seen) PROVE Kept
    BY <1>1, <2>10 DEF CompleteUnchangedWorkspaceRun, InductiveInvariant, TypeOK, RunRow
  <2>11. ASSUME NEW r \in Runs, NEW reason, SetBwaRunStopReason(r, reason) PROVE Kept
    BY <1>1, <2>11 DEF SetBwaRunStopReason, InductiveInvariant, TypeOK, RunRow
  <2>12. CASE RunStep
    BY <2>6, <2>7, <2>8, <2>9, <2>10, <2>11, <2>12 DEF RunStep
  <2> QED
    BY <1>1, <2>4, <2>5, <2>12 DEF Next
<1>2. InductiveInvariant /\ [Next]_storeVars => [Kept]_storeVars
  BY <1>1
<1> QED
  BY <1>2, InvariantHolds, PTL DEF Spec, UnresolvedRunIsKept

-----------------------------------------------------------------------------
(* The ref store implements WorkspaceHistory under the mapping that        *)
(* RefStore states: each operation, by a lemma, is a step of the abstract  *)
(* history or leaves it alone.  The inductive invariant carries the        *)
(* argument: a commit finds the head its Run was started on because        *)
(* UnresolvedRunPinsHead holds, and a head it writes is new because        *)
(* VersionsAreConsistent holds.                                            *)

\* The abstract state, written out.
current == [ref \in RefIds |-> Current(ref)]
work    == [r \in Runs |-> [phase     |-> Phase(runs[r].state),
                            workspace |-> runs[r].workspace,
                            input     |-> runs[r].inputHead]]

\* The phase of a Run is pending exactly when its state is unresolved, and none exactly when the
\* Run does not exist.
LEMMA PhaseOfState ==
    ASSUME TypeOK, NEW r \in Runs
    PROVE  /\ Phase(runs[r].state) = "pending" <=> IsUnresolved(runs[r].state)
           /\ Phase(runs[r].state) = "none" <=> runs[r].state = None
<1>1. runs[r].state \in RunState \cup {None}
  BY DEF TypeOK, RunRow
<1> QED
  BY <1>1, NamesAreDistinct DEF Phase, RunState

\* The work the abstract specification sees pending on a Workspace is the set of its unresolved
\* Runs.
LEMMA PendingIsUnresolved ==
    ASSUME TypeOK, NEW w
    PROVE  History!PendingOn(w) =
             {r \in Runs : IsUnresolved(runs[r].state) /\ runs[r].workspace = w}
  BY PhaseOfState DEF History!PendingOn

\* Advancing a ref appends one version, never used before, to its history.
LEMMA AdvanceRefAppends ==
    ASSUME InductiveInvariant, NEW ref \in RefIds, RefExists(ref), NEW seen,
           BuildHead, AdvanceRef(ref, seen)
    PROVE  \E head \in 1 .. MaxFid : head = NewHead /\ History!Append(ref, head)
<1>1. NewHead = lastFid + 1 /\ lastFid \in Nat /\ NewHead \in 1 .. MaxFid
  BY BoundIsPositive DEF InductiveInvariant, TypeOK, Fid, NewHead, BuildHead
<1>2. PICK head \in 1 .. MaxFid : head = NewHead
  BY <1>1
<1> DEFINE next == [head |-> head, revision |-> current[ref].revision + 1]
<1>3. \A other \in RefIds : \A v \in published[other] : v.head # head
  BY <1>1, <1>2 DEF InductiveInvariant, VersionsAreConsistent, TypeOK, Version, Fid
<1>4. /\ refs' = [refs EXCEPT ![ref] = [head |-> head, base |-> seen.head,
                                        revision |-> seen.revision + 1]]
      /\ published' = [published EXCEPT ![ref] = @ \cup {next}]
      /\ seen = Current(ref)
  BY <1>2 DEF AdvanceRef, current
<1>5. current' = [current EXCEPT ![ref] = next]
  BY <1>4 DEF InductiveInvariant, TypeOK, current
<1>6. History!Append(ref, head)
  BY <1>3, <1>4, <1>5 DEF History!Append, History!Exists, current
<1> QED
  BY <1>2, <1>6

\* A compareAndSwap of the main ref is an edit of the history.
LEMMA CompareAndSwapRefines ==
    ASSUME InductiveInvariant, NEW seen \in published[Main], CompareAndSwap(Main, seen)
    PROVE  \E head \in 1 .. MaxFid : History!Edit(Main, head)
<1>1. History!PendingOn(Main) = {}
  BY PendingIsUnresolved, NamesAreDistinct
  DEF InductiveInvariant, UnresolvedRunPinsHead
<1>2. PICK head \in 1 .. MaxFid : History!Append(Main, head)
  BY AdvanceRefAppends DEF CompareAndSwap
<1>3. History!Edit(Main, head)
  BY <1>1, <1>2 DEF History!Edit, CompareAndSwap
<1> QED
  BY <1>3

\* A guarded compareAndSwap of a Workspace is an edit with no work pending on it.
LEMMA CompareAndSwapGuardedRefines ==
    ASSUME InductiveInvariant, NEW w \in Workspaces, NEW seen \in published[w],
           NEW guard \in published[Main], CompareAndSwapGuarded(w, seen, guard)
    PROVE  \E head \in 1 .. MaxFid : History!Edit(w, head)
<1>1. History!PendingOn(w) = {}
  <2>1. \A r \in RunsOf(w) : ~IsUnresolved(runs[r].state)
    BY NamesAreDistinct
    DEF InductiveInvariant, LeaseHeldByTheOpenRun, RunsOf, CompareAndSwapGuarded,
        WritableWorkspace
  <2> QED
    BY <2>1, PendingIsUnresolved DEF InductiveInvariant, RunsOf
<1>2. PICK head \in 1 .. MaxFid : History!Append(w, head)
  BY AdvanceRefAppends DEF CompareAndSwapGuarded, WritableWorkspace
<1>3. History!Edit(w, head)
  BY <1>1, <1>2 DEF History!Edit, CompareAndSwapGuarded
<1> QED
  BY <1>3

\* A created or forked Workspace is a new history of one version.
LEMMA NewWorkspaceRefines ==
    ASSUME InductiveInvariant, NEW w \in Workspaces, NEW source \in RefIds, NEW seenHead,
           NEW fork \in BOOLEAN, NewWorkspace(w, source, seenHead, fork), runs' = runs
    PROVE  \E v \in [head : 1 .. MaxFid, revision : 0 .. MaxFid] : History!Create(w, v)
<1>1. TypeOK /\ VersionsAreConsistent /\ VersionsAreConsistent' /\ refs' \in [RefIds -> RefRow]
      /\ published' \in [RefIds -> SUBSET Version] /\ lastFid' \in Fid
  BY NewWorkspaceTypes, NewWorkspaceKeepsVersions DEF InductiveInvariant
<1>2. RefExists(w)' /\ (\A other \in RefIds : other # w => refs'[other] = refs[other])
  BY NewWorkspaceKeepsRefs DEF InductiveInvariant
<1> DEFINE v == Current(w)'
<1>3. published' = [published EXCEPT ![w] = {v}]
  <2>1. CASE fork
    BY <1>1, <2>1 DEF TypeOK, NewWorkspace
  <2>2. CASE ~fork
    BY <1>1, <2>2 DEF TypeOK, NewWorkspace, NoRef
  <2> QED
    BY <2>1, <2>2
<1>4. v \in [head : 1 .. MaxFid, revision : 0 .. MaxFid]
  <2>1. v \in published'[w] /\ lastFid' <= MaxFid
    BY <1>1, <1>2 DEF VersionsAreConsistent
  <2>2. v \in Version /\ v.head <= lastFid' /\ v.revision < v.head
    BY <1>1, <2>1 DEF VersionsAreConsistent
  <2> QED
    BY <1>1, <2>1, <2>2, BoundIsPositive DEF Version, Fid
<1>5. current' = [current EXCEPT ![w] = v]
  BY <1>2 DEF current
<1>6. work' = work
  BY DEF work, Phase
<1>7. ~RefExists(w)
  BY DEF NewWorkspace
<1> QED
  BY <1>3, <1>4, <1>5, <1>6, <1>7 DEF History!Create, History!Exists, current, work

\* A deleted Workspace drops its history and the finished work on it, and nothing pending.
LEMMA DeleteWorkspaceRefines ==
    ASSUME InductiveInvariant, NEW w \in Workspaces, DeleteWorkspace(w)
    PROVE  History!Drop(w)
<1>1. \A r \in RunsOf(w) : ~IsUnresolved(runs[r].state)
  BY DEF InductiveInvariant, UnresolvedRunIsBound, DeleteWorkspace, RunsOf
<1>2. History!PendingOn(w) = {}
  BY <1>1, PendingIsUnresolved DEF InductiveInvariant, RunsOf
<1>3. current' = [current EXCEPT ![w] = History!NoVersion]
  BY DEF InductiveInvariant, TypeOK, DeleteWorkspace, current, History!NoVersion, NoRef
<1>4. work' = [r \in Runs |-> IF r \in RunsOf(w) THEN History!NoWork ELSE work[r]]
  <2>1. Phase(None) = "none"
    BY NamesAreDistinct DEF Phase, RunState
  <2> QED
    BY <2>1 DEF DeleteWorkspace, work, History!NoWork, NoRun, Phase
<1>5. \A r \in Runs : work[r].phase = "pending" => work'[r] = work[r]
  BY <1>1, <1>4, PhaseOfState DEF InductiveInvariant, work
<1>6. RunsOf(w) \in SUBSET Runs
  BY DEF RunsOf
<1>7. current[w].head # NoFid
  BY DEF DeleteWorkspace, current
<1>8. published' = [published EXCEPT ![w] = {}]
  BY DEF DeleteWorkspace
<1> QED
  BY <1>2, <1>3, <1>4, <1>5, <1>6, <1>7, <1>8 DEF History!Drop, History!Exists, current, work

\* A new Run begins work on the current version of a Workspace that has no other work pending.
LEMMA CreateBwaWorkspaceRunRefines ==
    ASSUME InductiveInvariant, NEW r \in Runs, NEW i \in Instances,
           CreateBwaWorkspaceRun(r, i)
    PROVE  \E w \in Workspaces : History!Begin(r, w)
<1> DEFINE w == instances[i].workspace
<1>1. w \in Workspaces /\ RefExists(w) /\ runs[r].state = None
  BY DEF InductiveInvariant, RowsAreConsistent, CreateBwaWorkspaceRun, NoRun
<1>2. \A q \in Runs : IsUnresolved(runs[q].state) => runs[q].workspace # w
  BY DEF InductiveInvariant, UnresolvedRunIsBound, RowsAreConsistent,
     CreateBwaWorkspaceRun, BindingsOf
<1>3. History!PendingOn(w) = {}
  BY <1>2, PendingIsUnresolved DEF InductiveInvariant
<1>4. work' = [work EXCEPT ![r] = [phase |-> "pending", workspace |-> w,
                                   input |-> refs[w].head]]
  <2>1. /\ runs'[r].state = "PREPARING" /\ runs'[r].workspace = w
        /\ runs'[r].inputHead = refs[w].head
        /\ \A q \in Runs : q # r => runs'[q] = runs[q]
    BY DEF InductiveInvariant, TypeOK, NoRun, CreateBwaWorkspaceRun
  <2> QED
    BY <2>1 DEF work, Phase
<1>5. current' = current /\ published' = published
  BY DEF CreateBwaWorkspaceRun, current
<1>6. work[r].phase = "none"
  BY <1>1, PhaseOfState DEF InductiveInvariant, work
<1>7. current[w].head = refs[w].head
  BY <1>1 DEF current
<1> QED
  BY <1>1, <1>3, <1>4, <1>5, <1>6, <1>7 DEF History!Begin, History!Exists, current, work

\* A discarded Run publishes nothing.
LEMMA DiscardFailedWorkspaceRunRefines ==
    ASSUME InductiveInvariant, NEW r \in Runs, DiscardFailedWorkspaceRun(r)
    PROVE  History!Discard(r)
<1>1. work[r].phase = "pending"
  BY DEF DiscardFailedWorkspaceRun, work, Phase
<1>2. work' = [work EXCEPT ![r].phase = "discarded"]
  <2>1. /\ runs'[r].state = "DISCARDED" /\ runs'[r].workspace = runs[r].workspace
        /\ runs'[r].inputHead = runs[r].inputHead
        /\ \A q \in Runs : q # r => runs'[q] = runs[q]
    BY DEF InductiveInvariant, TypeOK, RunRow, DiscardFailedWorkspaceRun
  <2> QED
    BY <2>1 DEF work, Phase
<1>3. current' = current /\ published' = published
  BY DEF DiscardFailedWorkspaceRun, current
<1> QED
  BY <1>1, <1>2, <1>3 DEF History!Discard, current, work

\* A committed Run publishes its output on top of the very version it began with.
LEMMA CommitWorkspaceRunRefines ==
    ASSUME InductiveInvariant, NEW r \in Runs, NEW w \in Workspaces,
           NEW seen \in published[w], runs[r].workspace = w, CommitWorkspaceRun(r, seen)
    PROVE  \E head \in 1 .. MaxFid : History!Publish(r, head)
<1>1. RefExists(w) /\ refs[w].head = runs[r].inputHead /\ runs[r].inputHead = seen.head
  BY DEF InductiveInvariant, UnresolvedRunPinsHead, CommitWorkspaceRun
<1>2. seen = Current(w)
  BY <1>1 DEF InductiveInvariant, VersionsAreConsistent
<1>3. /\ BuildHead /\ AdvanceRef(w, seen)
      /\ runs' = [runs EXCEPT ![r].state = "COMMITTED", ![r].outputHead = NewHead]
  BY <1>2 DEF CommitWorkspaceRun
<1>4. PICK head \in 1 .. MaxFid : History!Append(w, head)
  BY <1>1, <1>3, AdvanceRefAppends
<1>5. work[r].phase = "pending" /\ work[r].workspace = w /\ work[r].input = current[w].head
  BY <1>1 DEF CommitWorkspaceRun, work, Phase, current
<1>6. work' = [work EXCEPT ![r].phase = "done"]
  <2>1. /\ runs'[r].state = "COMMITTED" /\ runs'[r].workspace = runs[r].workspace
        /\ runs'[r].inputHead = runs[r].inputHead
        /\ \A q \in Runs : q # r => runs'[q] = runs[q]
    BY <1>3 DEF InductiveInvariant, TypeOK, RunRow
  <2> QED
    BY <2>1 DEF work, Phase
<1>7. History!Publish(r, head)
  BY <1>4, <1>5, <1>6 DEF History!Publish, current, work
<1> QED
  BY <1>7

\* A Run that changed nothing ends on the version it began with.
LEMMA CompleteUnchangedWorkspaceRunRefines ==
    ASSUME InductiveInvariant, NEW r \in Runs, NEW w \in Workspaces,
           NEW seen \in published[w], runs[r].workspace = w,
           CompleteUnchangedWorkspaceRun(r, seen)
    PROVE  History!FindUnchanged(r)
<1>1. RefExists(w) /\ refs[w].head = runs[r].inputHead /\ runs[r].inputHead = seen.head
  BY DEF InductiveInvariant, UnresolvedRunPinsHead, CompleteUnchangedWorkspaceRun
<1>2. seen = Current(w)
  BY <1>1 DEF InductiveInvariant, VersionsAreConsistent
<1>3. runs' = [runs EXCEPT ![r].state = "COMMITTED", ![r].outputHead = seen.head]
  BY <1>2 DEF CompleteUnchangedWorkspaceRun
<1>4. work[r].phase = "pending" /\ work[r].workspace = w /\ work[r].input = current[w].head
  BY <1>1 DEF CompleteUnchangedWorkspaceRun, work, Phase, current
<1>5. work' = [work EXCEPT ![r].phase = "done"]
  <2>1. /\ runs'[r].state = "COMMITTED" /\ runs'[r].workspace = runs[r].workspace
        /\ runs'[r].inputHead = runs[r].inputHead
        /\ \A q \in Runs : q # r => runs'[q] = runs[q]
    BY <1>3 DEF InductiveInvariant, TypeOK, RunRow
  <2> QED
    BY <2>1 DEF work, Phase
<1>6. current' = current /\ published' = published
  BY DEF CompleteUnchangedWorkspaceRun, current
<1> QED
  BY <1>4, <1>5, <1>6 DEF History!FindUnchanged, current, work

\* Every other step of a Run leaves the abstract state alone.
LEMMA OtherRunStepsStutter ==
    ASSUME InductiveInvariant, NEW r \in Runs,
           \/ \E t \in RequestedRunTransition : TransitionWorkspaceRun(r, t[1], t[2])
           \/ ReopenFailedWorkspaceRun(r)
           \/ \E reason \in StopReasons : SetBwaRunStopReason(r, reason)
    PROVE  UNCHANGED <<current, published, work>>
<1>1. current' = current /\ published' = published
  BY DEF current, TransitionWorkspaceRun, ReopenFailedWorkspaceRun, SetBwaRunStopReason
<1>2. /\ Phase(runs'[r].state) = Phase(runs[r].state)
      /\ runs'[r].workspace = runs[r].workspace
      /\ runs'[r].inputHead = runs[r].inputHead
  <2>1. CASE \E t \in RequestedRunTransition : TransitionWorkspaceRun(r, t[1], t[2])
    BY <2>1 DEF InductiveInvariant, TypeOK, RunRow, RequestedRunTransition,
       TransitionWorkspaceRun, Phase
  <2>2. CASE ReopenFailedWorkspaceRun(r)
    BY <2>2 DEF InductiveInvariant, TypeOK, RunRow, ReopenFailedWorkspaceRun, Phase
  <2>3. CASE \E reason \in StopReasons : SetBwaRunStopReason(r, reason)
    BY <2>3 DEF InductiveInvariant, TypeOK, RunRow, SetBwaRunStopReason, Phase
  <2> QED
    BY <2>1, <2>2, <2>3
<1>3. \A q \in Runs : q # r => runs'[q] = runs[q]
  BY DEF InductiveInvariant, TypeOK, TransitionWorkspaceRun, ReopenFailedWorkspaceRun,
     SetBwaRunStopReason
<1> QED
  BY <1>1, <1>2, <1>3 DEF work

\* The registry of Applications and Instances is invisible in the history of the Workspaces.
LEMMA ApplicationStepStutters ==
    ASSUME InductiveInvariant, ApplicationStep
    PROVE  UNCHANGED <<current, published, work>>
<1>1. /\ refs' = refs /\ published' = published
      /\ \A r \in Runs : /\ runs'[r].state = runs[r].state
                         /\ runs'[r].workspace = runs[r].workspace
                         /\ runs'[r].inputHead = runs[r].inputHead
  <2>1. CASE \E i \in Instances : DeleteBwaInstancePreservingWorkspace(i)
    <3>1. PICK i \in Instances : DeleteBwaInstancePreservingWorkspace(i)
      BY <2>1
    <3>2. runs' = [r \in Runs |-> IF r \in BindingsOf(i)
                     THEN [runs[r] EXCEPT !.instance = None, !.digest = None,
                                          !.stopReason = None]
                     ELSE runs[r]]
      BY <3>1 DEF DeleteBwaInstancePreservingWorkspace
    <3>3. refs' = refs /\ published' = published
      BY <3>1 DEF DeleteBwaInstancePreservingWorkspace
    <3> QED
      BY <3>2, <3>3 DEF InductiveInvariant, TypeOK, RunRow
  <2>2. CASE ~ \E i \in Instances : DeleteBwaInstancePreservingWorkspace(i)
    <3>1. refs' = refs /\ published' = published /\ runs' = runs
      BY <2>2 DEF ApplicationStep, CreateBwaApplication, DeleteBwaApplication,
         SetBwaApplicationEnabled, UpdateBwaApplicationImage, CreateBwaInstance,
         SetBwaInstanceDesiredState
    <3> QED
      BY <3>1
  <2> QED
    BY <2>1, <2>2
<1> QED
  BY <1>1 DEF current, work, Phase

\* Every transaction of the store is a step of the abstract specification, or a stutter.
LEMMA NextRefines ==
    ASSUME InductiveInvariant, [Next]_storeVars
    PROVE  [History!Next]_(History!historyVars)
<1> USE DEF History!historyVars
<1>1. CASE WorkspaceStep
  <2>1. CASE \E seen \in published[Main] : CompareAndSwap(Main, seen)
    BY <2>1, CompareAndSwapRefines DEF History!Next
  <2>2. CASE \E w \in Workspaces, guard \in published[Main] :
                \E seen \in published[w] : CompareAndSwapGuarded(w, seen, guard)
    BY <2>2, CompareAndSwapGuardedRefines DEF History!Next
  <2>3. ASSUME NEW w \in Workspaces, NEW source \in RefIds, NEW seen \in published[source],
               CreateWorkspace(w, source, seen.head)
        PROVE  History!Next
    BY <2>3, NewWorkspaceRefines DEF History!Next, CreateWorkspace
  <2>4. ASSUME NEW w \in Workspaces, NEW source \in RefIds, NEW seen \in published[source],
               NEW fork \in BOOLEAN, NEW i \in Instances, NEW a \in Applications,
               CreateWorkspaceWithBwaInstance(w, source, seen.head, fork, i, a)
        PROVE  History!Next
    BY <2>4, NewWorkspaceRefines DEF History!Next, CreateWorkspaceWithBwaInstance
  <2>5. CASE \E w \in Workspaces : DeleteWorkspace(w)
    BY <2>5, DeleteWorkspaceRefines DEF History!Next
  <2> QED
    BY <1>1, <2>1, <2>2, <2>3, <2>4, <2>5 DEF WorkspaceStep
<1>2. CASE RunStep
  <2>1. CASE \E r \in Runs, i \in Instances : CreateBwaWorkspaceRun(r, i)
    BY <2>1, CreateBwaWorkspaceRunRefines DEF History!Next
  <2>2. CASE \E r \in Runs : DiscardFailedWorkspaceRun(r)
    BY <2>2, DiscardFailedWorkspaceRunRefines DEF History!Next
  <2>3. CASE \E r \in Runs, w \in Workspaces : \E seen \in published[w] :
                runs[r].workspace = w /\ CommitWorkspaceRun(r, seen)
    <3>1. PICK r \in Runs, w \in Workspaces : \E seen \in published[w] :
            runs[r].workspace = w /\ CommitWorkspaceRun(r, seen)
      BY <2>3
    <3>2. \E head \in 1 .. MaxFid : History!Publish(r, head)
      BY <3>1, CommitWorkspaceRunRefines
    <3> QED
      BY <3>2 DEF History!Next
  <2>4. CASE \E r \in Runs, w \in Workspaces : \E seen \in published[w] :
                runs[r].workspace = w /\ CompleteUnchangedWorkspaceRun(r, seen)
    BY <2>4, CompleteUnchangedWorkspaceRunRefines DEF History!Next
  <2>5. CASE \E r \in Runs :
                \/ \E t \in RequestedRunTransition : TransitionWorkspaceRun(r, t[1], t[2])
                \/ ReopenFailedWorkspaceRun(r)
                \/ \E reason \in StopReasons : SetBwaRunStopReason(r, reason)
    BY <2>5, OtherRunStepsStutter DEF current, work
  <2> QED
    BY <1>2, <2>1, <2>2, <2>3, <2>4, <2>5 DEF RunStep
<1>3. CASE ApplicationStep
  BY <1>3, ApplicationStepStutters DEF current, work
<1>4. CASE UNCHANGED storeVars
  BY <1>4 DEF storeVars, Phase
<1> QED
  BY <1>1, <1>2, <1>3, <1>4 DEF Next

\* The store implements the abstract history: versions of a Workspace form one line, and a Run's
\* output is only ever published on top of the version the Run was started on.
THEOREM StoreImplementsHistory == Spec => ImplementsWorkspaceHistory
<1>1. Init => History!Init
  <2> SUFFICES ASSUME Init PROVE History!Init
    OBVIOUS
  <2>1. current \in [RefIds -> {History!NoVersion} \cup [head : 1 .. MaxFid, revision : {0}]]
    BY BoundIsPositive DEF Init, current, NoRef, History!NoVersion
  <2>2. published = [ref \in RefIds |-> IF History!Exists(ref) THEN {current[ref]} ELSE {}]
    <3>1. ASSUME NEW ref \in RefIds
          PROVE  published[ref] = IF current[ref].head # NoFid THEN {current[ref]} ELSE {}
      <4>1. CASE ref = Main
        BY <4>1 DEF Init, current, NoRef
      <4>2. CASE ref # Main
        BY <4>2 DEF Init, current, NoRef
      <4> QED
        BY <4>1, <4>2
    <3>2. published = [ref \in RefIds |-> published[ref]]
      BY DEF Init
    <3> QED
      BY <3>1, <3>2 DEF History!Exists, current
  <2>3. work = [r \in Runs |-> History!NoWork]
    BY NamesAreDistinct DEF Init, work, NoRun, History!NoWork, Phase, RunState
  <2> QED
    BY <2>1, <2>2, <2>3 DEF History!Init, current, work
<1>2. InductiveInvariant /\ [Next]_storeVars => [History!Next]_(History!historyVars)
  BY NextRefines
<1> QED
  BY <1>1, <1>2, InvariantHolds, PTL DEF Spec, ImplementsWorkspaceHistory, History!Spec
=============================================================================
