# A verification development for Biunivers

Biunivers is a personal desktop in the browser. Its server keeps the owner's
files in an immutable object store, gives programs ("BWA applications") a
Workspace each, runs them in containers on an overlay ("Upper") above that
Workspace, and publishes what they wrote as the Workspace's next version. This
directory holds TLA+ modules that model the server: its stores, where a mistake
loses somebody's work, the life of a program from start to published Upper, and
the registries that hand out access to files. TLC runs check them on small
instances, and TLAPS proofs establish for all of them every safety property and
every action property that the runs check.

Paths below are relative to the repository. "The design" means the documents
under `docs/`.

## 1. Inventory

### The programs

| Process | Code | Keeps |
| --- | --- | --- |
| Desktop Server | `server/index.ts`, `server/http`, `server/bwa`, `server/files`, `server/workspace`, `server/resources`, `server/openResource`, `server/apps`, `server/wormhole`, `server/desktopSurface` | the control database (shared), registries in memory, JSON stores on disk |
| Compute Runtime daemon | `server/computeRuntime`, `server/workspaceCommit`, `server/bwa/bwaHostRecovery.ts` | Run directories with manifests, containers, mounts, the launches it knows; the control database (shared) |
| Desktop client | `src/` | windows, sessions, caches in the browser |
| Native tools | `crates/` | the pvlog file system and the copy-on-write Workspace |
| Installation | `deploy/` | releases, backups |

The Desktop Server and the daemon talk over a Unix socket, one call per
connection, and both open the same SQLite database. Nothing else is shared.

### Components

**Control database** (`server/files/sqliteRefStore.ts`). Refs (a head object and
a revision), Workspaces with a write lease, Runs, Run bindings, Applications,
Instances. Every method is one synchronous transaction, so a method is atomic;
the hard part is what callers read before they call. Correct when no update of
a ref is lost, when the lease belongs to exactly the open Run, when nothing
moves or removes a Workspace whose Run is undecided, and when Instances,
defaults and images never dangle.

**Lifecycle service and manager** (`server/bwa/bwaLifecycleService.ts`,
`bwaManagerControlService.ts`, `bwaLifecycleSupervisor.ts`,
`bwaControlledShutdown.ts`). Start, stop, save-and-restart, open, publish and
discard of one Instance, each a chain of store transactions and daemon calls
under a per-Instance lock kept in memory; a supervisor polls every two seconds
for containers that have ended. Hard: answers that never come, a crash between
two links of the chain, operations that name the Instance and mean a Run.
Correct when an Upper is removed only by a removal asked for that very Run, after
its output was committed or by an operation that is meant to drop it (the owner's
discard, and three the manager begins by itself after a failed start or opening),
and when every operation ends.

**Daemon: coordinator, Run directories, server** (`managedComputeRuntime.ts`,
`computeRuntimeCoordinator.ts`, `runDirectoryManager.ts`,
`computeRuntimeServer.ts`). Manifests
(PREPARING, PREPARED, RUNNING, STOPPED, FAILED, DESTROYED), containers and
launches. Calls are served concurrently with no lock per Run. Correct when a
commit scans an Upper that nobody writes and when every running container is
known.

**Recovery** (`computeRuntimeDaemon.ts`, `interruptedRunRecovery.ts`,
`controlRunRecovery.ts`, `bwaHostRecovery.ts`). Three passes at every start of
the daemon that compare manifest, container and store. Each lists its Runs once and
then visits them, while the manager runs on. Correct when they reach a verdict on
every Run they find and always let the daemon come back.

**Workspace commit** (`server/workspaceCommit`). Scan the Upper, project it onto
the base tree, read every file again, plan the operations, publish. Hard:
whiteouts, opaque directories and replaced files in any combination, and a
program that still writes. Correct when the published tree is the one the
program saw when it stopped, entries that were not replaced keep their ids, and
an Upper is refused only for a cause that has a name: a node that is not
supported, a limit, the order of names, a time before 1970, a late write.

**Application registry and image update** (`bwaRegistryService.ts`,
`bwaApplicationUpdateService.ts`, `blankBwaInstanceCreator.ts`). Install, clone,
fork, detach, delete; an update stops all running Instances, replaces the image
and starts them again, one update of an Application at a time. Correct when no
open Run is of another image than the installed one, and everything that was
stopped is started again, whatever failed.

**Environment and secrets** (`bwaRegistryService.ts`, `bwaSecretStore.ts`). Names
in the database, sensitive values in a file that is read, changed and replaced
as a whole. Correct when an Instance finds a value for each of its sensitive
names, and values go with their owner.

**Browser sessions and proxy** (`bwaBrowserSessionRegistry.ts`,
`bwaRuntimeProxy.ts`). One-time tickets, sessions with idle expiry and a limit,
revocation with the Instance. Correct when a ticket opens one session and
nothing leads into a deleted Instance.

**File transactions and the trees** (`fileSystemTransactions.ts`,
`batchFileSystemSegment.ts`, `internalFileManagerService.ts`,
`server/wormhole`). The file manager and WebDAV clients plan operations on the
index of one revision, await uploads, and publish by compare-and-swap; WebDAV
locks are a registry in memory. Correct when nobody removes or replaces what
his index did not show, and each entry that is copied or moved arrives once, whole
and under the name it was given.

**Object store, garbage scan, backup** (`immutableObjectRepository.ts`,
`fileContentStore.ts`, `fileServiceGcScanner.ts`, `fileServiceBackup.ts`).
Contents, segments, checkpoints and heads, put one by one, never deleted.
Correct when every head that is stored can be read with all its history, the
database and its backup name only such heads, and the scan reports only
garbage, although commits go on beside it.

**File capabilities and transfers** (`fileCapabilityRegistry.ts`,
`fileTransferService.ts`, `fileHostService.ts`). Windows own handles, handles
own transfers, each with an expiry and a limit; an upload awaits the body, the
objects and the compare-and-swap. Correct when credentials die with their
window, a transfer is used once, and a save replaces only the content its handle
was bound to when the request began. (That this content is one its holder has seen
is not so, see section 4.)

**Resource sessions** (`server/resources`). The same for installed applications,
with leases that requests renew, and revocation when an application is
disabled. Correct when a lease that has ended stays ended, and every request is
tracked by its session or told to stop.

**Launches** (`server/openResource`). The file manager leaves a resource for an
application, whose next window claims it. Correct when it is handed over once
and a target is busy exactly while a launch waits.

**Workspaces** (`server/workspace`). Derive, fork, import in both directions,
diff, each planned on trees of two refs that may move. Correct when what arrives
is one whole copy of each entry that was shown and selected, nothing is added under
a Run, and a diff is of one moment.

**Installed apps** (`server/apps`). Inspections with a time limit, installation,
update and removal under an operation lock; files are moved, then a record is
written. Correct when an installed application has its files after any failure.

**Desktop surface, HTTP layer, client, native tools, scripts**: a layout document
with revisions; routing and parsing; rendering and window management; the
append-only log and mounts; release switching.

`PROJECT.json` lists each with its state of modelling, and the hazards of each
at the line where they bite.

## 2. Plan

What can lose work came first, then what can block, then the rest.

| Module | Models | Built on |
| --- | --- | --- |
| `WorkspaceHistory` | abstract promise of the database | |
| `RefStore` | the control database | refines `WorkspaceHistory` |
| `RefStoreProofs` | its theorems and the refinement | `RefStore`, `WorkspaceHistory` |
| `BwaLifecycle` | manager, daemon, recovery, crashes | extends `RefStore` |
| `BwaLifecycleProofs` | its theorems | `BwaLifecycle`, `RefStoreProofs` |
| `FileTree` | trees, the operations of a segment, copies and selections | |
| `TreeClients` | file manager, Wormhole and locks on main | extends `FileTree` |
| `WorkspaceCommit` | a Run's Upper, its scan, projection, plan and publication | extends `FileTree` |
| `WorkspaceExchange` | derivation, imports and diff between main and a Workspace | extends `FileTree` |
| `ObjectStorage` | puts of commits, garbage scan, backup | |
| `MainFiles` | main as the registries see it: contents and a revision | |
| `FileCapabilities` | windows, handles, transfers | extends `MainFiles` |
| `ResourceSessions` | sessions, leases, reads and saves | extends `MainFiles` |
| `OpenResourceLaunches` | launches and claims | extends `MainFiles` |
| `BwaBrowserSessions` | tickets and sessions of BWA origins | |
| `BwaImageUpdate` | update and rollback of an image | |
| `BwaEnvironment` | environment variables and the file of secrets | |
| `InstalledApps` | inspections, installations, updates, removals | |
| `FileTreeProofs` | what the operators on trees do, for every tree | `FileTree` |
| `TreeClientsProofs` | theorems about the file manager and WebDAV | `TreeClients`, `FileTreeProofs` |
| `AccessProofs` | theorems about capabilities, sessions, launches, tickets and cookies | `MCAccess` |
| `ServicesProofs` | theorems about updates and the environment | `BwaImageUpdate`, `BwaEnvironment` |
| `StoresProofs` | theorems about objects, installed applications and the whole run | `MCStores`, `TreeClientsProofs` |
| `WorkspaceTreesProofs` | theorems about commits and exchanges | `MCWorkspaceTrees`, `FileTreeProofs` |
| `MCSessionSaves` | the contents an application has had of its file | extends `ResourceSessions` |
| other `MC...` | what the runs compose, see section 4 | |

What is left, in the order of its worth: the read and the write of a manifest
as two steps of `BwaLifecycle`; a clock for the store's timestamps; the chunk
cache, the mount supervisor and the desktop surface.

## 3. The modules

### `RefStore` — the control database

| Variable | Code |
| --- | --- |
| `refs` | table `filesystem_refs`; `base` is the base head named inside the head object |
| `published` | history variable: every version a ref has shown |
| `lastFid` | how many head objects have been built; a head embeds its base, its revision and a random id, so a new head never equals an older one |
| `leases` | `workspace_records.active_write_run_id` |
| `runs` | `workspace_runs` joined with `bwa_run_bindings` |
| `applications`, `instances` | `bwa_applications` with the default Instance, `bwa_instances` |

Each public method that changes one of these is one action, named after the
method: `CompareAndSwap`, `CompareAndSwapGuarded`, `CreateWorkspace`,
`CreateWorkspaceWithBwaInstance`, `DeleteWorkspace`, `CreateBwaWorkspaceRun`,
`TransitionWorkspaceRun`, `ReopenFailedWorkspaceRun`,
`DiscardFailedWorkspaceRun`, `CommitWorkspaceRun`,
`CompleteUnchangedWorkspaceRun`, `SetBwaRunStopReason` and the seven on
Applications and Instances. A transaction that throws changes nothing and is no
step. The version a caller read is a parameter, and `Next` takes it from
*every* version the ref ever had, which covers any delay between the read and
the transaction.

`CreateBwaWorkspaceRun` includes the generic `createWorkspaceRun`, which no
other code calls. `RequestedRunTransition` narrows the transitions to those
some caller asks for.

### `WorkspaceHistory` — what the database promises

No leases, Instances or images: a ref has a linear history of versions; the work
of a Run is published on exactly the version it started from, found to have
changed nothing, or discarded; meanwhile nobody edits or drops the Workspace.
`RefStore!ImplementsWorkspaceHistory` is the refinement mapping, in which a
`FAILED` Run is still pending work.

### `BwaLifecycle` — one Instance from start to published Upper

Extends `RefStore`; every change of the store is one of its actions.

| Variable | Code |
| --- | --- |
| `local` | state in the Run's `manifest.json`; ABSENT without a directory, CORRUPT when a removal was torn |
| `container` | the Run's Docker container and its exit code |
| `launches` | `bwaLaunches` of `managedComputeRuntime.ts` |
| `daemon` | down; the recovery passes `interrupted`, `control`, `host`; `listening`, in which network and socket are made; up; `closing`, `saving` |
| `recovery` | `rows`, what a recovery pass has listed and not yet visited, and `intent`, whether the third will stop the Instance; `reopened` is history: Runs the owner asked to publish while the daemon was not yet up |
| `handlers` | the call each slot of the daemon executes and the step it has reached: one for the manager's call, one for a call whose manager has crashed (`orphan`), one for the controlled close, one for the recovery; `by` is history: the operation that made the call |
| `tasks` | the operation the lifecycle service runs, for the manager and for the controlled close; `pc` is the call or transaction it does next |
| `replies` | an answer on its way back |
| `waits`, `exitSeen`, `discards` | manager memory: readiness waits, an exit the supervisor saw, failed starts about to be discarded |
| `crashes` | bound |

Actions of the daemon's handlers (`PrepareDirectory` ... `RemoveDirectory`) split a
call at every await where another process can act: after the manifest write, after
Docker, after the store. `AfterOk` and `AfterError` are the chains of `try`, `catch`
and `finally` of `bwaLifecycleService.ts`. `RecoverInterrupted`, `RecoverControl`
and `RecoverStopped` / `RecoverStoppedControl` / `RecoverIntent` are the three
recovery passes. As in the code, each pass lists its Runs when it begins
(`ListControl`, `ListHost` in `NextPhase`) and then visits what it has listed, and a
transition expects the state that was listed: a Run that the manager changed
meanwhile makes the recovery throw (`RecoveryFails`), and one that it reopens after
the third pass, while the daemon makes its network, is left as it is. `CrashManager`
forgets the manager's memory and leaves its call running; `CrashDaemon` forgets
everything but the disk, Docker and the store.

Abstractions: one Instance, installed and enabled; the supervisor's, recovery's
and the directory manager's read-then-write of one manifest is one step; no
clock; at most one orphan call; the owner's requests do not queue behind each
other (the supervisor and the failed start's discard do queue before them); the
mount processes are part of `PrepareMounts`; a failed `readiness` probe and an
early exit are one outcome, `FailStartup`; a daemon that is down answers a call
with an error. With `DockerMayFail` a stop, a removal or an inspection of a
container fails, a start may fail and leave its container running, and the removal
of a directory may fail before its manifest is gone or after it (`RemovalFails`).

Left out: snapshots, the retention flag, environment variables, FROZEN, the
executor Runs of the old `prepare` call, startup failure records (written, and
read by the status page only), log tails, framing and tokens.

### `FileTree` — trees and segments

Operators only. A tree is a function from entry ids to parent, name and content;
`ValidTree` is what the checkpoint code validates, `IsTree` that with the types of
the rows. `ApplySegment` applies a sequence of operations entirely or answers
`Refused`, as the checkpoint code does; `CopyOperations` gives a subtree new ids,
parents first; `TopLevel` takes nested entries out of a selection. `InOrder` lists
a set by an order of its elements, `Shape` is what a subtree holds at which
relative path, whatever its ids. The recursions are functions on numbers, so that
they can be proved about. Names are model
values, two of which (`LowerName`, `UpperName`) differ in case only. Sizes,
times and the text of names are left out.

### `TreeClients` — the file manager and WebDAV on main

| Variable | Code |
| --- | --- |
| `tree`, `revision` | the main ref and its tree |
| `used` | ids ever given out (ids are random in the code) |
| `request` | a request between its planning, its load and its publication; `asked` is history: what it selected, and where and under which names it is to arrive |
| `enabled`, `locks`, `holds` | `WormholeRuntime`, `WormholeLockRegistry`, tokens a client was given |

`Manager...` and `Wormhole...` are the handlers of `internalFileManagerService.ts`
and `wormholeFileService.ts` up to their first await; `LoadState` and
`PublishTree` are the two later steps of `fileSystemTransactions.ts` (revalidate
the preconditions on the tree loaded then; compare-and-swap). `Lock`, `Unlock`,
`LockExpires`, `Revoke` act between any two of them. `BreakOff` is any failure.
`WormholeSetMtime` and `Lock` await their body after the look at their rights, so
that neither asks for them when it takes effect. The limit on the number of locks is
left out: at it, no further lock is given.

`SelectionArrivesWhole` compares the tree before and after a publication with what
was asked: of a copy, each outermost entry of the selection has exactly one new
entry under the destination, of its shape and with the name given to it, and the
rest is as it was; of a move, each has the new parent and name, and everything else
its old ones. `FileTree!Outermost` and `ArrivedWhole` say it without the operators
that make the plan.

### `ObjectStorage` — objects below the refs

`store` is the set of objects, `refs` and `pinned` what the database protects,
`writer` each commit with the objects it has yet to put, `scan` the garbage scan
and what it has marked, `backup` the heads of the last copy of the database.
`Put` and `FailPut` put one object or fail; `ReadyForHead` is the order
`fileSystemTransactions.ts` and the commit builder keep. Objects are named by
their hash, so contents with equal chunks share them. The bytes, the encryption
and the chunking are abstracted; the object server is external.

### `InstalledApps`

`records` is `installed-apps.json`; `versions` and `staging` the directories
(absent, torn, whole); `inspected` and `expired` the inspections in memory;
`call` each request and the step it has reached; `removing` the recursive
removals under way. A request reads the records, moves files, writes all the
records, consumes the inspection and moves the old files to the trash; each
step may fail, and the server may restart between any two. `OperationLock` is
`LockIsFree`. Manifest parsing and downloads are left out.

### `MainFiles`, `FileCapabilities`, `ResourceSessions`, `OpenResourceLaunches`

`MainFiles` is main as the registries see it: the content of each file, the
revision, a clock, and other clients' commits (`OtherCommit`). The registries
are JavaScript maps, modelled as functions whose domain is the set of live
tokens: `instances`, `handles`, `transfers` of `fileCapabilityRegistry.ts`;
`sessions` of `resourceSessionRegistry.ts`; `launches` and `byTargetApp` of
`openResourceLaunchRegistry.ts`. `job`, `use`, `ask`, `page` and `claims` hold
requests between two awaits. Each registry prunes where the code calls `prune`,
also when the call is then refused at the limit (`PruneAtLimit`). Save-and-load
is three steps (load, compare-and-swap, read back), because the read back is
where both content services look at an index somebody else may have changed, and
take the content it has there as the one of their session or handle.
`MCSessionSaves` adds what a session's application has had of its file, which tells
that content from one it knows.
Ranges, media types and the bodies are left out; a body that breaks off or is
too long is one failure.

### `BwaBrowserSessions`

`tickets` and `cookies` are the two maps of `bwaBrowserSessionRegistry.ts`;
`present`, `running`, `enabled` what the proxy asks the database for; `removing`
is a `deleteInstance` whose secrets are being removed. The proxied traffic is
external.

### `WorkspaceCommit`

`base` and `upper` are the lower tree and the Upper; the Run's edits follow
overlayfs (external: copy-up, whiteouts, opaque directories). `scan`, `reading`
and `taken` are the scan and the materializer's two looks at a file.
`Target` projects the scanned paths one after the other, parents first
(`ParentsFirst`), each with its materialized content (`Resolved`); `Project...` is
`targetTreeProjector.ts`, `CommitOperations` `commitOperationPlanner.ts`, and
`Unexpected` the last look of `resolveTargetContent` at contents nobody asked for.
`left` is history: what the program saw when the
scan was made.

What the code refuses is refused. `defect` marks a node the scanner does not support
(links, special files, attributes, a file beyond a limit on bytes) or whose time is
before 1970 (`toMtimeMs`, which does not look at a directory that is kept).
`ScannerRefuses` has the limits of the scan, and that the scanner sorts paths by
bytes while `validateResult` wants them ascending as UTF-16 strings: `Crossed` is
the set of pairs of names which the two orders see differently. `ValidTarget` has
the limits on the whole tree, whose values are those of the Upper, as in
`computeRuntimeDaemon.ts`; `SegmentTakes` the limit on the operations of a segment
and the names it does not take (`OddNames`: not NFC, or with a control character).
Storage that fails is left out; permissions too, which no commit keeps.

### `WorkspaceExchange`

`main`, `ws` and `baseline` are three trees with revisions; `exchange` a derivation,
import, addition or diff with the trees it has read. Its steps are the reads, the
plan, and the publication under the guard of `compareAndSwapGuarded`. `CopyInto`
takes the policy for taken names: an import refuses or renames, as its owner asked,
an addition renames, and a derivation keeps every name as it is. `GiveUp` is any
limit and any failed await. `running` and `unresolved` are what a Run does to the
Workspace meanwhile.

### `BwaImageUpdate` and `BwaEnvironment`

`BwaImageUpdate` keeps, per Instance, its last Run and the lifecycle operation that
holds its lock (`op`), the queue of updates (`#locks`) and where each is: stopping,
replacing, restarting. The lifecycle's own chains are cut down to their steps and
outcomes, since `BwaLifecycle` has them: a stop may end with the Run STOPPED, when
its commit could not be begun, an exit with the Run still RUNNING, when it could not
be finalized, and a failed start or opening in `FailedStartup`. `BwaEnvironment`
keeps the rows (`exists`, `variables`) and the file (`stored`); an edit reads the
whole document, writes it and then writes the database, and any of these fails; a
write of the file may also fail after its rename, with the file changed
(`FileFails`). `overlapped` and `torn` are history: they say when two edits
overlapped, and when one ended half-way. The values themselves are left out.

## 4. Runs

Every passing run explores its whole state space. TLC evaluates every `ASSUME`
of a module in a run that extends it.

| Run | Instance | Distinct states | Shows |
| --- | --- | --- | --- |
| `RefStoreRuns` | 1 Workspace, 2 Runs, 2 Instances, 2 images, 4 heads | 288,375 | the inductive invariant, pinned heads, commits without conflict, refinement of `WorkspaceHistory` |
| `RefStoreForks` | 2 Workspaces, 1 Run, 2 Instances | 419,820 | linear history and outputs that follow their inputs when one head belongs to two refs |
| `BwaLifecycle` | 1 Run, 1 crash, close, all requests, fair | 86,775 | quiet Upper, known containers, recovery's verdict although the manager runs on; operations end, exits are finalized, commits are decided, the daemon comes back |
| `BwaLifecycleFailures` | two parts: 2 Runs, 1 crash, torn removals; 1 Run, 1 crash, close, Docker fails | FAILSTATES | one container at a time; an Upper goes only by a removal asked for its Run |
| `Stores` | trees: 2 requests, 1 WebDAV client, 5 ids; objects: 2 refs, 1 commit at a time, 1 scan; apps: 2 apps, 2 requests, 2 inspections | 920,929 | section 1's claims for trees, objects and installed applications |
| `Access` | 1 window, 2 transfers, 2 sessions, 2 launches, 2 Instances; each registry at its limit | 1,060,666 | the four registries |
| `WorkspaceTrees` | 3 base trees, 5 paths, 3 edits, late writes; 1 exchange between two small trees | WTSTATES | commits, their refusals, and exchanges |
| `Services` | 2 updates, 2 Instances, 2 images, 2 further Runs; 2 concurrent edits | 330,266 | updates, environment |

The last four compose modules that share no state, and `BwaLifecycleFailures` two
instances of one module. A variable `part` chooses one
of them in the initial state and never changes, and the others stand still, so
each run is the union of its parts' state spaces and not their product. The
modules stay apart, and share constants only where they range over the same
kind of value or so that one group of permutations serves them all.

A run's invariants are named per module: `CapabilitiesInvariant`,
`SessionsInvariant`, `LaunchesInvariant`, `BrowserSessionsInvariant`,
`StoresInvariant`, `TreesInvariant`, `ImageUpdateInvariant`,
`EnvironmentInvariant` and `LifecycleInvariant` are conjunctions of a type
invariant with the named parts above them in the module; `TreesInvariant` has
`MaterializedAsScanned` (what a commit read of a file is what its scan
announced) and `EntriesKeepTheirIdentity` among them;
`RefStore!InductiveInvariant` is the conjunction of all safety properties of the
store with the facts that make it inductive.

### Bounds

`MaxFid` (heads ever built) is 4 for the store: main's first version, a
Workspace's genesis, and two more, so that there are a stale version, a current
one and a competing one on the same ref; and 3 for the lifecycle, in which only
the commit builds a head. Two Runs are the fewest that can compete for a lease
or a container; two Instances the fewest for which a default can dangle; two
images the fewest an update can tell apart. One crash suffices for any single
interrupted step; a crash of the recovery itself is covered when that crash is
the one spent, on a daemon that recovers at its first start. `Requests` lists
what the owner may ask; the part with two Runs leaves out opening and the
controlled close to stay small, and both are with one Run.

Trees: five ids of main allow a root, a directory, an entry in or beside it and two
that are created, so a copy of a directory with a file fits; three names, two of
which differ in case only; a commit has twelve ids, the four of the largest base
tree and one for each of its eight paths (`IdsSuffice`), and a fourth name, which no
entry may have. Two requests are the fewest that race; two revisions let one
overtake the other. For a commit, three edits reach "delete, make again, write
below" and so every combination of whiteout, opaque directory and replaced kind at
two levels of depth. `MaxDepth` is 2, one less than the longest path, and
`MaxEntries` 5, so that the whole tree is beyond the limit while the Upper is within
it; an Upper with more than `MaxEntries` nodes, and a change of more than
`MaxOperations` (3) operations, need more than three edits and are covered by the
theorem only. Registries: the clock goes as far as two expiries of a short lease,
`Max...` are 1 or 2 so that the limit is met, ids are two so that one is issued
again after it was forgotten. Requests, updates, calls and inspections are each used
once: their number bounds the run.

`CHECK_DEADLOCK FALSE` is in the runs in which ids of requests, Runs or
inspections are used up and nothing is left to do, and in `BwaLifecycleFailures`,
in which a torn directory keeps the daemon down for good.

`SYMMETRY` permutes ids that are compared for equality only, and is used in
runs without liveness properties.

### Fairness

`BwaLifecycle` says: each call the daemon executes and each operation the
manager runs goes on (`WF` per slot and driver: Node's event loop serves every
pending continuation, and the calls end, since Docker is given a timeout); the
daemon is started again (`Restart=on-failure` in
`deploy/systemd/biunivers-runtime.service` after a crash or a failed recovery;
after a controlled close, whoever closed it starts it again, an assumption) and
its recovery goes on; a controlled close goes on; the supervisor's two-second
timer keeps firing; a readiness wait ends after at most 30 attempts. `SF` on
`FinalizeExited`: it waits for the Instance's lock, which is a chain of promises
served in order, so it gets its turn although others take the lock in between.
No fairness for the owner's requests, for containers (they may run for ever) or
for crashes.

`BwaImageUpdate` says: the lifecycle operation that holds an Instance's lock goes
on (`WF`: the daemon answers, or the socket breaks; the client has no timeout of its
own, the daemon's are Docker's); a step of an update that waits for such a lock
happens although users take it in between (`SF`: the lock is a queue). None for
users, containers or the other services: that a transfer marked as active has a
request that serves it is an invariant (`ActiveTransferIsServed`), no promise that
the request ends.

### Violation runs and findings

Each of these checks one sentence of the repository's documents against what
the code does; TLC's trace is the shortest way to the disagreement. The quoted
sentences are in `PROJECT.json`.

| Run | What happens |
| --- | --- |
| `BwaStartDiscards` | a program ends abnormally; the owner starts the Instance again; the start is refused, and `bwaManagerControlService.ts:159` takes the old failed Run for this start's and discards its Upper |
| `LateSave` | the lease of a resource session ends between the compare-and-swap of a save and `advanceAfterSave` (`resourceContentService.ts:190`): the file has the new version, the application is told that its session has expired, and the session is gone |
| `SessionOverwrites` | another client writes the file between the publication of a save and the reload after it (`resourceContentService.ts:178`): the session takes that content, and its next save replaces it without a conflict |
| `AppUpdateFails` | an inspection expires while an update made from it moves the files: the record names the new commit and the request answers with an error (`appService.ts:201`) |

### Observations without a run

What the models also reach, where no document promises otherwise or where the
consequence is small. Each is visible as a state or a step of the module named.

- `BwaLifecycle`. Opening an Instance that has run for long and does not answer
  within 30 seconds ends in `failStartup` as well, and its Upper is dropped
  (`bwaManagerControlService.ts:203`). The startup report's design allows the
  manager to drop the Upper of a failed start by itself; the V0.14 review (line 73)
  wants every discard to be the owner's request, and is older: the three drops the
  manager begins by itself are named in `UpperIsRemovedOnPurpose`. Two hit a Run
  whose start had succeeded, though TROUBLESHOOTING (line 194) leaves what an
  abnormal exit left to the owner: one is the run `BwaStartDiscards`; in the other a
  page is opened while the program of a Run that was long up ends, and
  `waitUntilReady` takes the exit for a failed start
  (`bwaManagerControlService.ts:222`, `:267`). A Run that the owner asks to publish
  while the daemon recovers may be reopened after the last pass: the daemon then
  serves with it STOPPED, or the recovery throws once and is repeated. A
  `finalizeExited` that waits for the lock during a save-and-restart records EXITED
  for the restarted program (`bwaLifecycleSupervisor.ts:60`). A manager crash
  between creating a Run and preparing it leaves PREPARING and the lease through
  every later recovery (`controlRunRecovery.ts:44`). A daemon crash between failing
  the control Run and failing the manifest of one commit leaves the pair FAILED and
  STOPPED (`managedComputeRuntime.ts:168`).
- A Docker that fails to stop a container leaves a FAILED manifest and a running
  program, and publishing that Upper scans what is still being written: this is
  why `CommitScansAQuietUpper`, `LifecycleInvariant` and `OneContainer` are
  checked with `DockerMayFail = FALSE` and only `UpperIsRemovedOnPurpose` with TRUE.
  A removal whose manager has crashed goes on, also when the next manager has begun
  to publish the same Upper: `UpperIsRemovedOnPurpose` holds of it, since it was asked
  for that Run, and `CommitScansAQuietUpper` leaves it out. A crash
  inside the recursive removal of a Run directory may leave it without its
  manifest, and `reconcile` then throws at every start: `DaemonComesBack` is
  checked with `CrashTearsRemoval = FALSE`. A manager that crashes between
  recording USER_STOP and stopping leaves a reason that blocks EXITED at every
  poll: `ExitIsFinalized` excuses a Run if there was a crash.
- `ResourceSessions`, `FileCapabilities`. A save handle is moved after its upload as
  a session is, to the content the reloaded index has
  (`fileTransferService.ts:147`), and the next upload through it replaces what its
  holder may never have seen; the File Service design (line 563) offers no silent
  overwrite. A session is issued to an application that was disabled while the index
  was awaited, and lives until its lease ends (`resourceSessionService.ts:29`). An
  upload that takes longer than its transfer's time to live loses its token and
  publishes all the same, also after its window has closed.
- `TreeClients`. `lock()` on a locked path answers a second client with the
  token of the first. `Revoke` aborts requests, but one that has passed its last
  look at the signal still publishes. A MOVE that only changes the case of a
  name answers as done and changes nothing (`wormholeFileService.ts:220`).
- `OpenResourceLaunches`. A launch created just after its target was disabled
  keeps the target busy until it expires; a claim whose validation fails has
  used up the launch.
- `BwaBrowserSessions`. A deletion whose secrets cannot be removed never revokes
  (`bwaManagerControlService.ts:114`); disabling an Application does not either,
  the proxy refuses it by its state.
- `BwaImageUpdate`. A stop that commits and then fails to destroy leaves the
  Instance stopped after the update; so does a manager that crashes in the
  middle, since nothing records that an update was under way.
- `WorkspaceCommit`. The limit on entries is the Upper's (10,000,
  `computeRuntimeDaemon.ts:137`) and is applied to the whole projected tree
  (`targetTreeProjector.ts:231`), while a Workspace may be derived with 100,000 entries
  (V0.13 construction plan, line 82): the Runs of a larger one are never committed,
  however little they change. The scanner sorts paths by their UTF-8 bytes
  (`crates/workspace-cow/src/main.rs:107`) and `upperScanner.ts:143` wants UTF-16 order:
  a name beyond the basic plane next to one from U+E000 on fails the commit. Both are
  causes that `RefusedForCause` names (`WholeTreeTooLarge`, `PathsCross`), and so are a
  change of more than 10,000 operations (`batchFileSystemSegment.ts:50`) and a time
  before 1970 (`targetTreeProjector.ts:273`).
- `WorkspaceExchange`. Names inside a copied directory are copied as they are, and a
  derivation keeps every name: a conflict of case that was in the source arrives with
  it (`workspaceImportPlanner.ts:59`, `workspaceDeriver.ts:165`).
- `BwaEnvironment`. Overlapping edits lose each other's values in the file. An edit that
  removes a secret writes the file first (`bwaRegistryService.ts:248`), where the V0.14
  Registry design (lines 198-206) wants the database first: if it stops in between, a
  sensitive variable is without its value and the Instance does not start. The
  invariant excuses both (`overlapped`, `torn`).
- `InstalledApps`. The directory of an application's earlier commit stays, so an
  update back to it fails at every attempt (`appService.ts:169`).
- `ObjectStorage`. A garbage candidate may become reachable again when a later
  commit has the same content. The scanner only reports, and says so.

## 5. Proofs

### The store

`RefStoreProofs` proves, for every number of Workspaces, Runs, Instances,
Applications and images and every bound `MaxFid`, from the assumptions
`BoundIsPositive` and `NamesAreDistinct` alone:

- `InvariantHolds`: `Spec => []InductiveInvariant`, and from it the safety
  properties one by one (`TypeCorrect`, `LeaseHolds`, `PinHolds`,
  `ConflictNeverHappens`, `OneUnresolvedRunHolds`, `UnresolvedRunIsBoundHolds`,
  `DefaultHolds`, `OutputFollowsInputHolds`);
- `LinearHistoryHolds` and `UnresolvedRunIsKeptHolds`: the two action
  properties.

The properties are not inductive one by one. That a commit never conflicts needs
that nobody moves the head below an open Run, which needs that the lease is held
by it (an import checks the lease), and that a failed Run without a lease is
seen by `WritableWorkspace` and by the Instance check, which needs that it is
still bound to an Instance that owns its Workspace and that no other Instance
does. The last needs the UNIQUE column. So `InductiveInvariant` is the
conjunction of the safety properties with two supporting facts:
`RowsAreConsistent` (an absent row is empty, a present one names rows that
exist, no two Instances share a Workspace) and `VersionsAreConsistent` (a ref
shows one of its versions, the only one with that head; no version is newer
than the newest head; a revision is smaller than its head's number). Without
the second, a stale version with the current head and another revision would
make `CommitWorkspaceRun` report a conflict. The proof has one lemma per group
of actions and conjunct they disturb; an action that leaves the variables of a
conjunct alone is dealt with by the lemmas on unchanged variables.

It also proves `StoreImplementsHistory`: `Spec => ImplementsWorkspaceHistory`,
with the invariant as the context of each step: initial states map to initial
states, and each store transaction maps to the step of `WorkspaceHistory` of the
same meaning or to a stutter.

### The lifecycle

`BwaLifecycleProofs` proves, for every number of Workspaces, Instances, Runs,
crashes and requests, from `BoundIsPositive`, `NamesAreDistinct`,
`LifecycleConstants` and `NoneIsNoStep` (the mark for "no call" is no step of
one):

- `CallsInvariantHolds`: `LifecycleSpec => []CallsInvariant`, and with it
  `LifecycleTypesHold` and `LifecycleKeepsTheStore` (the store's
  `InductiveInvariant` in the composed system);
- `LifecycleStepsAreStoreSteps`: every step of manager, daemon and recovery is a
  transaction of `RefStore` or changes nothing of it, so what `RefStoreProofs`
  says of the store holds here;
- `UpperIsRemovedOnPurposeHolds`: whatever crashes, and whether or not Docker fails,
  an Upper is removed only by a removal that was asked for that Run, after its commit
  or by an operation that is meant to drop it;
- `OneContainerHolds`, `LifecycleInvariantHolds`, `CommitScansAQuietUpperHolds`,
  `RecoveryReachesAVerdictHolds`, under `~DockerMayFail`. The hypothesis is
  needed: after a `docker stop` or `docker rm` that fails, the container is left
  and nobody looks for it any more (see the observations in section 4).

The argument goes in two halves. `CallsInvariant` says which calls there can be and
what the store and the directories say of their Runs: `CallsAreWellFormed` (a task
waits for the call of the same name on the same Run), `PhasesServeCalls`,
`RunsAreTheInstances`, `RunsHaveBegun` (no call but its start touches a Run that has
not started), `StartsArePrepared` (while a Run is prepared or its container started,
its row is PREPARING and its directory where the call left it), `DropsOnlyCommitted`
(an operation that saves destroys only what is COMMITTED), `CallsSaveOrDrop` (so
does each removal in the daemon, also one whose manager has crashed),
`DirectoriesAreKnown` (memory, phase and directories agree) and
`RecoveryGoesByItsList` (what a pass has still to visit is what it has to bring to
its end: a Run outside its list is in a final state, or is one the owner has
reopened meanwhile). The parts rest on each other, so each lemma assumes all of them
and proves one for one group of actions: first what every action does to the Runs of
the store, then types and calls, then the others in this order.
`UpperIsRemovedOnPurpose` follows from this half. `ContainersAreInUse` is the second
half: a container belongs to an unresolved Run whose directory is RUNNING, or is
being started; whoever marks, scans or removes has none left. It gives the other
four.

### Objects and installed applications

`StoresProofs` proves, for every number of refs, heads, contents, chunks
and concurrent commits, from `StorageAssumption` alone, `StorageIsSafe`
(`StorageSpec => []StorageInvariant`), and from it `StorageTypes`,
`HeadsStayComplete`, `ProtectedHeadsStayReadable` and `CandidatesStayGarbage`.
That every stored head is complete is not inductive: a commit that still has to
put objects needs to know that what it has put already is there, and that its
parent's history is complete, which is `WritersAreComplete`; what the database,
a pin or the backup names is in the store, which is `ProtectedHeadsAreStored`.
For the garbage scan, `MarksAreClosed` says that a marked head that has been
visited has everything it refers to marked and its parent marked or queued, and
`CandidatesAreUnmarked` that what is reported was never marked; a head of the
scan's beginning is then reachable only through marks.

Of the applications it proves, from `InstalledAppsAssumption`,
`AppsInductiveHolds`, `InstalledAppHasFilesHolds`, `OnlyALateInstallIsTornHolds`
and the action property `OtherRecordsAreKeptHolds`. A request has its files in
place long before it writes the record, and a failed one removes them again, so
the invariant needs `RequestsAreInOrder`: at most one request has the lock;
until it writes, the records are as it read them; before it writes a record the
directory is there, complete or late; and the directory that `undo` removes is
not the one the record names. `OnlyTheExpiredIsTorn` says that only the cleanup
of an expired inspection tears a staged directory.

### Access to files

`AccessProofs` proves `CapabilitiesInvariantHolds` and `NoBlindOverwriteHolds` (from
`CapabilitiesAssumption` and `NoneIsNoJob`), `SessionsInvariantHolds`,
`ExpiredLeaseIsNotRevivedHolds` and `SaveReplacesItsBaseHolds` (from
`SessionsAssumption`: files and session ids are finitely many, so that the map can
be counted against its limit), and, for both registries beside each other,
`SavesReplaceTheirBaseHolds`. That a save replaces what its request found when it
began is not a matter of the compare-and-swap alone, which only compares revisions:
`JobsMatchTheRegistry` and `UsesMatchTheSessions` say that the content was compared
at the revision that was loaded, so that it is the one in the file unless the
revision has moved, and that then the swap fails. They also say which window or
session the request of each token belongs to.

It also proves `LaunchesInvariantHolds` and
`BrowserSessionsInvariantHolds`, from the assumptions of the two modules (again
finitely many ids, which are random of a fixed length in the code). A launch is
handed over once because the claim takes it out of the registry before it awaits
anything: `ClaimsAreTaken`. `BrowserSessionsInductive` only adds the types of
the keys, since the maps are counted.

### Updates and the environment

`ServicesProofs` proves `ImageUpdateInvariantHolds`, `StoppedIsRestartedHolds`
(both from `ImageUpdateAssumption`) and `EnvironmentInvariantHolds` (from
`EnvironmentAssumption`). Two facts make `ImageUpdateInductive`: `CallersWait`,
an update that called an operation waits for it with that Instance at the head
of its list, so that an operation that ends is the one the update looked for;
and `StepsMatchTheRun`, an operation is on a Run in the state its step is for, so
that no user's start slips a Run past the check before the change of the image.
`EnvironmentInvariant` speaks of a manager at rest. `EnvironmentInductive` says
what it is made of in between: `CallsAreInOrder`, and `OneEditAtATime`, that as
long as no two edits have overlapped and none broke off, the one that runs read
what is in the file, and file and database differ only in what it is about to
write.

### Trees

A tree hangs together: everything is reached from the root, so nothing is below
itself. Every claim about trees rests on that, and an operation on the tree, or a
path through it, is defined by a recursion. `FileTreeProofs` proves what these
recursions give, for every tree:

- `SetInduction`: a set that has 0, and with every number the next one, has all
  numbers. It follows from the well-foundedness of `<` in the library, and needs
  no operator as a parameter; `TreeInduction` is the same for a tree, from parents
  to children. With these, a recursive function is shown to be what its equation
  says (`DownFromUnfolds`, `PathOfUnfolds`, `SegmentUnfolds`), and then what it
  does: `DownFromIsLeast`, that what is below an entry is the least set closed
  under children.
- Which operations leave a tree a tree. Creating an entry, replacing a content and
  removing a subtree always do; `MoveKeepsTree`: a move does unless it goes into
  the subtree of what it moves, so that the check of the services
  (`requireAcyclicMove`, `ensureNotDescendant`) is all there is to do.
- A path leads to one entry, a set that is listed by an order has each element
  once and earlier ones first, and the fresh ids of a copy differ from each other
  and from all that were used.

### The clients of a tree

`TreeClientsProofs` proves, for every starting tree and number of requests,
clients, locks and revisions, from `TreeAssumption`, `RefusedAssumption` and
`ClientsAssumption`: `ClientsInductiveHolds`, and from it `NothingUnseenIsLostHolds`,
`SelectionArrivesWholeHolds` and `WormholeAddsNoCaseConflictHolds`. A request is
planned on one revision and published on a later one. `RequestsInductive` says why
that is safe: either it is held to the revision it has seen, and then what it has
seen is the tree as long as that revision is there; or it only replaces the
content of one file and expects the old content, which the segment checks. So what
it plans needs to be right for the tree it has seen only: `PlansArrive` says that
its segment, applied there, brings each outermost entry of the selection once, whole
and under the name given, leaves the rest as it was, and adds no conflict of case if a
WebDAV client asked. The long part is
that for copies: `CopyOperations` makes parents first, each with a fresh id, so
that every operation of the segment is allowed when its turn comes, and the copy
has the shape of what was copied.

### Commits and exchanges

`WorkspaceTreesProofs` proves the rest, for every base tree, Upper and request.

`MaterializedAsScannedHolds` comes from `CommitInductive`: what the Run leaves has
its stamp until the scan, and a node that still has it is as it was scanned, so a
file that looks the same before its first byte and after its last was not written
in between. `verifyStat` compares device, inode, size and the two times, which is
what the stamp stands for.

`CommitTreesInductiveHolds` gives `CommittedTreeIsWhatTheRunLeftHolds` and
`RefusedForCauseHolds`, and `EntriesKeepTheirIdentity` with them. It
has three steps.

1. *The Upper is one that overlayfs leaves behind* (`Overlays`): above all that is
   in it there are directories, and a whiteout is only where the base would show.
   Each write of the Run keeps that, and the scan has it. It is why no projection
   is refused for what it meets: the parent of each path is there, and is a directory.
2. *The projection shows what the Run saw* (`TargetShows`). After the first `n`
   paths the tree shows, at every path, what the base shows through these `n`
   (`ShowsAs`). A path that is projected later is above none of the earlier ones,
   because parents come first; it hides what is below it in the base, unless it is
   a directory that is not opaque, and nothing else. `ProjectedSoFar` says that the
   tree is one, that the entries which are kept have their ids and their place, and
   that there is room for the paths to come.
3. *The plan reproduces the target* (`PlanReproducesTheTarget`): the removals leave
   exactly the entries the target has in common with the base, the creations come
   parents first and each is allowed, and the new contents are given to files that
   had the content they expect. So `ApplySegment` refuses none of them, and what it
   returns is the target.

That is why `RefusedForCause` can name all causes: what is left are the checks of the
scanner, of times, of limits and of names, each of which is a condition on the Upper,
on what the Run left or on the length of the change.

For the exchange, `AddedOnlyToAQuietWorkspaceHolds` and
`DiffDescribesTheWorkspaceHolds` come from `ExchangeInductive`: what a request has
read of a ref is the tree of an earlier revision, or the tree that is there now
(`ReadAtItsRevision`); a ref never returns to a revision.
`ExchangeCopiesInductiveHolds` adds that what a request is about to publish fits
the tree it has read and copies the top level of what was selected under names
that are free (`CopiesWell`), which gives `ExchangeTypeOKHolds` and
`ExchangeCopiesWhatWasShownHolds`.

`StoresInvariantHolds` and `TreesInvariantHolds` put the parts of the two runs
together: a behaviour of the run is one of its part's specification, and the
others stand still.

### What the proofs assume

Of the constants, besides that bounds are numbers and names are different:

- The trees at the start are trees (`CommitAssumption`, `ExchangeAssumption`,
  `ClientsAssumption`): a checkpoint that does not validate is not read.
- The marks of the models are none of the values they are put beside: `None` is no
  id and no revision, `Refused` no tree (`RefusedAssumption`), `Absent` no content
  (`AbsentAssumption`). In the code they are `null`, an exception and a missing
  entry.
- There are ids enough for the Upper of a Run (`IdsSuffice`), and the paths of the
  Upper are finitely many. The code draws 16 random bytes until they are new; there
  `MaxEntry` ids stand for them. The other services stop at the bound instead, as
  the models of their requests say (`RoomFor`).
- Ids of sessions, launches and requests are finitely many where maps are counted
  against a limit.

### What stays with the model checker

- Liveness: `OperationsEnd`, `ExitIsFinalized`, `CommitIsDecided`,
  `DaemonComesBack` (`BwaLifecycle`) and `EveryUpdateEnds` (`BwaImageUpdate`).
  They rest on fairness and `ENABLED`, out of this prover's reach.
- The four violation runs, which are traces.

Every other property of a passing run is a theorem, or a conjunct of one.

TLC has checked each inductive invariant with the constants of the run that has
its module: those that a proof module states with that module in the place of the
run's (`CommitTreesInductive` and `ExchangeCopiesInductive` with
`WorkspaceTrees.cfg`, `ClientsInductive`, `StorageInvariant` and `AppsInductive`
with `Stores.cfg`). For `ClientsInductive`, `IsOperation` has to look at the kind
of an operation before its fields, since TLC does not ask a record for a field it
has not.

## 6. Not modelled

- HTTP routing and parsing, configuration, the desktop client, the desktop
  surface document and rendering: they transform data and hold no protocol of
  their own beyond what the modules take as requests. A download that waits for
  `drain` on a socket that has gone is never closed
  (`http/fileTransferRouter.ts:91`, `http/resourceContentRouter.ts:108`); what
  Express emits is outside the models.
- The native tools in `crates/`: the log's format and the mount; `FileTree` has
  the meaning of the operations the server asks them for.
- Time of the store. Every transition refuses a timestamp older than the row's
  (`sqliteRefStore.ts:881`): the assumption is that the clock does not go back.
- The read and the write of a manifest (`runDirectoryManager.ts:193`) are one
  step. The lifecycle's lock keeps two calls of one Run apart except after a
  manager crash, where the model is coarser than the code.
- The address a proxied request is sent to (`bwaRuntimeProxy.ts:92`) may have
  become another container's; addresses are Docker's.
- Snapshots other than as pins of `ObjectStorage`, retention, FROZEN, the
  executor Runs of the old `prepare` call, the mount supervisor's retries, the
  chunk cache, schema migration and the installation scripts.
