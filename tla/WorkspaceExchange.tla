-------------------------- MODULE WorkspaceExchange --------------------------
(***************************************************************************)
(* What goes between the main Workspace and another one (WorkspaceControl- *)
(* Service with WorkspaceDeriver, WorkspaceImportService, WorkspaceContent-*)
(* ImportService and WorkspaceDiffService): selected entries are copied,   *)
(* with new ids, into a new Workspace, from a Workspace into main, or from *)
(* main into a Workspace, and a Workspace is compared with its baseline.   *)
(*                                                                         *)
(* Each of them reads refs, awaits the indexes, plans, awaits the objects  *)
(* and publishes; Runs start, commit and fail in the Workspace, and        *)
(* everybody writes main, between these steps.                             *)
(***************************************************************************)
EXTENDS FileTree

CONSTANTS
    MainTrees, WorkspaceTrees,  \* trees at the start
    Spare,                      \* the name availableName falls back to
    ExchangeIds,                \* each names one request: the bound of their number
    Answered,                   \* a request that has been answered
    MaxMainRevision, MaxWorkspaceRevision

ASSUME ExchangeAssumption ==
    /\ {MaxMainRevision, MaxWorkspaceRevision} \subseteq Nat
    /\ Spare \in Names
    /\ \A t \in MainTrees \cup WorkspaceTrees : IsTree(t)

VARIABLES
    main, mainRev, mainIds,     \* the ref "main", and the ids used in it
    ws, wsRev, wsIds,           \* the Workspace's ref
    baseline,                   \* the tree of its baseline Head
    running,                    \* activeWriteRunId is set
    unresolved,                 \* it has a FAILED Run
    exchange,                   \* the requests
    derived,                    \* a Workspace that was derived: its tree, and
                                \* the tree of its source Head
    diff                        \* the last diff that was answered

exchangeVars == <<main, mainRev, mainIds, ws, wsRev, wsIds, baseline, running, unresolved,
                  exchange, derived, diff>>
mainRef == <<main, mainRev, mainIds>>
workspaceRef == <<ws, wsRev, wsIds>>
workspaceRow == <<baseline, running, unresolved>>
answers == <<derived, diff>>

Open(x) == exchange[x] \notin {None, Answered}
Answer(x) == exchange' = [exchange EXCEPT ![x] = Answered]

\* One type invariant: both heads are trees, and a failed Run keeps the
\* Workspace from having another.
ExchangeTypeOK ==
    /\ IsTree(main) /\ IsTree(ws) /\ IsTree(baseline)
    /\ DOMAIN main \subseteq mainIds /\ DOMAIN ws \subseteq wsIds
    /\ mainRev \in 0..MaxMainRevision /\ wsRev \in 0..MaxWorkspaceRevision
    /\ ~(running /\ unresolved)

ExchangeInit ==
    /\ main \in MainTrees /\ mainRev = 0 /\ mainIds = DOMAIN main
    /\ ws \in WorkspaceTrees /\ wsRev = 0 /\ wsIds = DOMAIN ws
    /\ baseline = ws
    /\ running = FALSE /\ unresolved = FALSE
    /\ exchange = [x \in ExchangeIds |-> None]
    /\ derived = None /\ diff = None

-----------------------------------------------------------------------------
(* What the requests meet.                                                 *)

\* Somebody else's transaction on a tree.
Edits(t, used) ==
    {SetContent(e, t[e].content, c) : e \in {d \in DOMAIN t : IsFile(t, d)}, c \in Contents}
    \cup {RemoveEntry(e, TRUE) : e \in DOMAIN t \ {Root}}
    \cup {CreateEntry(FreshId(used, 1), Root, n, c) :
             n \in {m \in Names : ~NameTaken(t, Root, m, None)}, c \in Contents}

Advances(t, used, rev, max, ops, t1, used1, rev1) ==
    /\ rev < max
    /\ t1 = ApplySegment(t, ops)
    /\ used1 = used \cup CreatedIds(ops)
    /\ rev1 = rev + 1

AdvanceMain(ops) == Advances(main, mainIds, mainRev, MaxMainRevision, ops, main', mainIds', mainRev')
AdvanceWorkspace(ops) == Advances(ws, wsIds, wsRev, MaxWorkspaceRevision, ops, ws', wsIds', wsRev')

EditMain ==
    /\ RoomFor(mainIds, 1)
    /\ \E op \in Edits(main, mainIds) : AdvanceMain(<<op>>)
    /\ UNCHANGED <<workspaceRef, workspaceRow, exchange, answers>>

StartRun ==
    /\ ~running /\ ~unresolved
    /\ running' = TRUE
    /\ UNCHANGED <<mainRef, workspaceRef, baseline, unresolved, exchange, answers>>

CommitRun ==
    /\ running /\ RoomFor(wsIds, 1)
    /\ \E op \in Edits(ws, wsIds) : AdvanceWorkspace(<<op>>)
    /\ running' = FALSE
    /\ UNCHANGED <<mainRef, baseline, unresolved, exchange, answers>>

FailOrDiscardRun ==
    /\ \/ running /\ running' = FALSE /\ unresolved' = TRUE
       \/ unresolved /\ unresolved' = FALSE /\ UNCHANGED running
    /\ UNCHANGED <<mainRef, workspaceRef, baseline, exchange, answers>>

-----------------------------------------------------------------------------
(* Planning: planWorkspaceImport, planWorkspaceContentImport.              *)

\* A name that is free whatever its case: the entry's own, or one with a
\* suffix; None when there is none, or the owner prefers to cancel.  A
\* derivation keeps the names as they are.
AvailableName(taken, n, policy) ==
    LET folded == {Fold(m) : m \in taken}
    IN  IF policy = "keep" \/ Fold(n) \notin folded THEN n
        ELSE IF policy = "rename" /\ Fold(Spare) \notin folded THEN Spare ELSE None

NamesIn(t, p) == {t[c].name : c \in Children(t, p)}

\* The selected entries, one after the other, with the names they get.
CopyInto(from, E, to, ids, p, policy) ==
    LET top == TopLevel(from, E)
        order == InOrder(top, ById(top))
        added[k \in 0..Cardinality(top)] ==
          IF k = 0 THEN [ops |-> << >>, ids |-> ids, names |-> NamesIn(to, p)]
          ELSE LET acc == added[k - 1]
                   e == order[k]
                   n == AvailableName(acc.names, from[e].name, policy)
                   ops == CopyOperations(from, acc.ids, e, p, n)
               IN  IF \/ acc.ops = Refused \/ n = None
                      \/ ~RoomFor(acc.ids, Cardinality(DownFrom(from, {e})))
                   THEN [acc EXCEPT !.ops = Refused]
                   ELSE [ops |-> acc.ops \o ops, ids |-> acc.ids \cup CreatedIds(ops),
                         names |-> acc.names \cup {n}]
    IN  added[Cardinality(top)].ops

Selections(t) == (SUBSET (DOMAIN t \ {Root})) \ {{}}
Directories(t) == {e \in DOMAIN t : IsDirectory(t, e)}

\* A request with what it has read: both indexes and their revisions.
Ask(x, kind, select, into, policy) ==
    /\ exchange' = [exchange EXCEPT ![x] =
           [kind |-> kind, main |-> main, mainRev |-> mainRev, ws |-> ws, wsRev |-> wsRev,
            select |-> select, into |-> into, policy |-> policy, ops |-> None]]
    /\ UNCHANGED <<mainRef, workspaceRef, workspaceRow, answers>>

\* After the awaits, with the operations it will publish.
Proceed(x, ops) ==
    /\ IF ops = Refused THEN Answer(x) ELSE exchange' = [exchange EXCEPT ![x].ops = ops]
    /\ UNCHANGED <<mainRef, workspaceRef, workspaceRow, answers>>

\* What was selected is too much (100 entries, 10,000 copies or 100,000 in a
\* derivation, 128 levels), or an await fails.
GiveUp(x) ==
    /\ Open(x) /\ Answer(x)
    /\ UNCHANGED <<mainRef, workspaceRef, workspaceRow, answers>>

Asked(x, kind) == Open(x) /\ exchange[x].kind = kind /\ exchange[x].ops = None
Planned(x, kind) == Open(x) /\ exchange[x].kind = kind /\ exchange[x].ops # None

-----------------------------------------------------------------------------
(* WorkspaceImportService: from the Workspace into main.                   *)

AskImport(x) ==
    /\ ~running
    /\ \E E \in Selections(ws), p \in Directories(main), policy \in {"cancel", "rename"} :
          Ask(x, "import", E, p, policy)

\* The Workspace's ref is read again, and main's by the transaction.
PlanImport(x) ==
    /\ Asked(x, "import")
    /\ LET r == exchange[x]
       IN  Proceed(x, IF r.wsRev # wsRev \/ r.mainRev # mainRev THEN Refused
                      ELSE CopyInto(r.ws, r.select, r.main, mainIds, r.into, r.policy))

PublishImport(x) ==
    /\ Planned(x, "import")
    /\ IF exchange[x].mainRev = mainRev THEN AdvanceMain(exchange[x].ops) ELSE UNCHANGED mainRef
    /\ Answer(x)
    /\ UNCHANGED <<workspaceRef, workspaceRow, answers>>

-----------------------------------------------------------------------------
(* WorkspaceContentImportService: from main into the Workspace.            *)

\* assertWorkspaceWritable, before the indexes, before the transaction and,
\* with the revision of main, inside its compare-and-swap.
Writable == ~running /\ ~unresolved

AskAdd(x) ==
    /\ Writable
    /\ \E E \in Selections(main), p \in Directories(ws) : Ask(x, "add", E, p, "rename")

PlanAdd(x) ==
    /\ Asked(x, "add")
    /\ LET r == exchange[x]
       IN  Proceed(x, IF ~Writable \/ r.wsRev # wsRev THEN Refused
                      ELSE CopyInto(r.main, r.select, r.ws, wsIds, r.into, "rename"))

\* Mutant of Guarded: a plain compare-and-swap on the Workspace's ref.
Unguarded(x) == exchange[x].wsRev = wsRev

\* compareAndSwapGuarded
Guarded(x) == exchange[x].wsRev = wsRev /\ exchange[x].mainRev = mainRev /\ Writable

PublishAdd(x) ==
    /\ Planned(x, "add")
    /\ IF Guarded(x) THEN AdvanceWorkspace(exchange[x].ops) ELSE UNCHANGED workspaceRef
    /\ Answer(x)
    /\ UNCHANGED <<mainRef, workspaceRow, answers>>

-----------------------------------------------------------------------------
(* WorkspaceDeriver: entries of one directory become a new Workspace.      *)

AskDerive(x) ==
    \E E \in Selections(main) :
       /\ \A d, e \in E : main[d].parent = main[e].parent
       /\ Ask(x, "derive", E, Root, "keep")

PublishDerived(x) ==
    /\ Asked(x, "derive")
    /\ LET r == exchange[x]
           ops == CopyInto(r.main, r.select, GenesisTree, {Root}, Root, "keep")
       IN  derived' = IF ops = Refused THEN derived
                      ELSE [tree |-> ApplySegment(GenesisTree, ops), source |-> r.main,
                            select |-> r.select]
    /\ Answer(x)
    /\ UNCHANGED <<mainRef, workspaceRef, workspaceRow, diff>>

-----------------------------------------------------------------------------
(* WorkspaceDiffService.                                                   *)

PathsOf(t) == {PathOf(t, e) : e \in DOMAIN t \ {Root}}
\* compareIndexes: paths, with what was there before and after.
CompareIndexes(t, u) ==
    {[path |-> p, before |-> EntryAt(t, p), after |-> EntryAt(u, p)] :
        p \in {q \in PathsOf(t) \cup PathsOf(u) :
                 \/ EntryAt(t, q) # EntryAt(u, q)
                 \/ t[EntryAt(t, q)].content # u[EntryAt(u, q)].content}}

AskDiff(x) == Ask(x, "diff", {}, Root, "keep")

\* Mutant of FinishDiff: the ref is not read a second time.
FinishDiffAnyway(x) ==
    /\ Asked(x, "diff")
    /\ diff' = CompareIndexes(baseline, exchange[x].ws)
    /\ Answer(x)
    /\ UNCHANGED <<mainRef, workspaceRef, workspaceRow, derived>>

FinishDiff(x) ==
    /\ Asked(x, "diff")
    /\ diff' = IF exchange[x].wsRev = wsRev THEN CompareIndexes(baseline, exchange[x].ws) ELSE diff
    /\ Answer(x)
    /\ UNCHANGED <<mainRef, workspaceRef, workspaceRow, derived>>

-----------------------------------------------------------------------------
ExchangeNext ==
    \/ EditMain \/ StartRun \/ CommitRun \/ FailOrDiscardRun
    \/ \E x \in ExchangeIds :
          \/ exchange[x] = None /\ (AskImport(x) \/ AskAdd(x) \/ AskDerive(x) \/ AskDiff(x))
          \/ PlanImport(x) \/ PublishImport(x) \/ PlanAdd(x) \/ PublishAdd(x)
          \/ PublishDerived(x) \/ FinishDiff(x) \/ GiveUp(x)

ExchangeSpec == ExchangeInit /\ [][ExchangeNext]_exchangeVars

-----------------------------------------------------------------------------
\* Nothing is added to a Workspace under a running or failed Run, whose Upper
\* was made over the tree without it, nor from a main that has moved on; the
\* Run may have started after both checks (compareAndSwapGuarded).
AddedOnlyToAQuietWorkspace ==
    [][\A x \in ExchangeIds : (Planned(x, "add") /\ wsRev' # wsRev /\ ~Open(x)') =>
          /\ ~running /\ ~unresolved
          /\ exchange[x].main = main]_exchangeVars

NewTops(t, t1) == {e \in DOMAIN t1 \ DOMAIN t : t1[e].parent \in DOMAIN t}

\* The names a copied entry may have.
NamesFor(from, E, policy) ==
    {<<e, from[e].name>> : e \in E} \cup (IF policy = "rename" THEN {<<e, Spare>> : e \in E} ELSE {})

\* What arrives in a directory is one copy for each entry that was selected
\* with none above it, with everything below it, and what was there stays: as
\* the page showed both trees, though they have changed since.
Arrives(from, E, to, after, p, policy) ==
    /\ DOMAIN to \subseteq DOMAIN after
    /\ ArrivedWhole(from, Outermost(from, E), to, after, p, NamesFor(from, E, policy))

ArrivesAsShown(x) ==
    LET r == exchange[x]
    IN  /\ r.kind = "import" /\ main' # main =>
              Arrives(r.ws, r.select, r.main, main', r.into, r.policy)
        /\ r.kind = "add" /\ ws' # ws =>
              Arrives(r.main, r.select, r.ws, ws', r.into, r.policy)
        /\ r.kind = "derive" /\ derived' # derived =>
              Arrives(r.main, r.select, GenesisTree, derived'.tree, Root, r.policy)

SameButCase(t) ==
    {y \in (DOMAIN t) \X (DOMAIN t) :
        /\ y[1] # y[2]
        /\ t[y[1]].parent = t[y[2]].parent /\ Fold(t[y[1]].name) = Fold(t[y[2]].name)}

\* An import or an addition puts no entry beside another, old or new, whose
\* name differs in case only: through the Wormhole such a directory could not
\* be changed from a machine that folds case (availableName, fold).  Nothing
\* is said of the names inside a copied directory, which are taken as they
\* are, nor of a derivation.
AddsNoCaseConflict(x) ==
    LET top(t, t1) == \E y \in SameButCase(t1) \ SameButCase(t) : y[1] \in NewTops(t, t1)
    IN  exchange[x].kind # "derive" => ~top(main, main') /\ ~top(ws, ws')

\* What an import, an addition or a derivation publishes is what its page
\* showed and nothing else, whatever was done to both trees meanwhile.
ExchangeCopiesWhatWasShown ==
    [][\A x \in ExchangeIds : Open(x) /\ ~Open(x)' => ArrivesAsShown(x) /\ AddsNoCaseConflict(x)
      ]_exchangeVars

\* A diff that is answered turns the baseline into the Workspace as it is at
\* that moment: the paths it does not name are the same in both.
DiffDescribesTheWorkspace ==
    [][diff' # diff =>
          LET named == {c.path : c \in diff'}
          IN  \A p \in PathsOf(baseline) \cup PathsOf(ws) :
                 p \notin named =>
                    /\ EntryAt(baseline, p) = EntryAt(ws, p)
                    /\ baseline[EntryAt(baseline, p)].content = ws[EntryAt(ws, p)].content]_exchangeVars

-----------------------------------------------------------------------------
\* What the proofs need to know of what a request has read: it is a tree of an
\* earlier revision, or the tree of this one.
IsRequest(row) ==
    row = [kind |-> row.kind, main |-> row.main, mainRev |-> row.mainRev, ws |-> row.ws,
           wsRev |-> row.wsRev, select |-> row.select, into |-> row.into,
           policy |-> row.policy, ops |-> row.ops]
ReadAtItsRevision(row) ==
    /\ IsRequest(row)
    /\ row.mainRev \in 0..mainRev /\ (row.mainRev = mainRev => row.main = main)
    /\ row.wsRev \in 0..wsRev /\ (row.wsRev = wsRev => row.ws = ws)

\* The inductive invariant of the requests.
ExchangeInductive ==
    /\ mainRev \in Nat /\ wsRev \in Nat /\ DOMAIN exchange = ExchangeIds
    /\ \A x \in ExchangeIds : Open(x) => ReadAtItsRevision(exchange[x])
=============================================================================
