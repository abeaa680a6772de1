---------------------------- MODULE TreeClients ----------------------------
(***************************************************************************)
(* Who changes the main Workspace's tree by name (InternalFileManager-     *)
(* Service for the desktop's file manager, WormholeFileService behind the  *)
(* WebDAV router and its locks) and the transactions they use              *)
(* (FileSystemTransactions).                                               *)
(*                                                                         *)
(* A request plans its operations on the index of one revision; then it    *)
(* awaits (the upload, the index itself); its transaction loads the ref    *)
(* again, awaits the objects it writes, and publishes by a compare-and-    *)
(* swap.  Other requests, and the owner who closes the Wormhole, come      *)
(* between these three steps.                                              *)
(***************************************************************************)
EXTENDS FileTree

CONSTANTS
    Clients,        \* WebDAV clients
    Manager,        \* the file manager's page
    Tokens,         \* lock tokens
    EmptyFile,      \* the content of no bytes
    RequestIds,     \* each names one request: the bound of their number
    Ended,          \* a request that has been answered
    LockPaths,      \* paths a client locks
    FirstTrees,     \* trees the Workspace may have at the start
    MaxRevision

ASSUME ClientsAssumption ==
    /\ Manager \notin Clients
    /\ EmptyFile \in Contents
    /\ MaxRevision \in Nat /\ None \notin 0..MaxRevision
    /\ \A t \in FirstTrees : IsTree(t)

VARIABLES
    tree, revision,     \* the main ref and the tree of its head
    used,               \* ids that have been used: ids are random
    request,            \* per id: a request on its way, or None: who asked, the
                        \* selection it copies or moves, the operations, the index
                        \* they were planned on (seen), the revision it is held to
                        \* and the one it has loaded
    enabled,            \* WormholeRuntime has a password
    locks,              \* WormholeLockRegistry: path -> token
    holds               \* the lock tokens a client has been given

treeVars == <<tree, revision, used, request, enabled, locks, holds>>

End(r) == request' = [request EXCEPT ![r] = Ended]
Waiting(r) == request[r] \notin {None, Ended}

\* One type invariant: the head's tree is a tree, locks have known tokens,
\* and no request is ahead of the ref.
TreeClientsTypeOK ==
    /\ IsTree(tree)
    /\ DOMAIN tree \subseteq used /\ used \subseteq EntryIds
    /\ revision \in 0..MaxRevision
    /\ enabled \in BOOLEAN
    /\ \A p \in DOMAIN locks : locks[p] \in Tokens
    /\ holds \in [Clients -> SUBSET Tokens]
    /\ \A r \in RequestIds : Waiting(r) =>
          /\ request[r].expects \in 0..revision \cup {None}
          /\ request[r].loaded \in 0..revision \cup {None}

TreeClientsInit ==
    /\ tree \in FirstTrees
    /\ revision = 0
    /\ used = DOMAIN tree
    /\ request = [r \in RequestIds |-> None]
    /\ enabled = TRUE
    /\ locks = << >>
    /\ holds = [c \in Clients |-> {}]

-----------------------------------------------------------------------------
(* The transactions.                                                       *)

\* A planned request: its operations are those of one index.  Creating,
\* moving and removing hold it to the index's revision, a new content only
\* to the old one.
Planned(r, by, method, asked, ops, held) ==
    /\ request' = [request EXCEPT ![r] =
           [by |-> by, method |-> method, asked |-> asked, ops |-> ops,
            expects |-> IF held THEN revision ELSE None, seen |-> tree,
            loaded |-> None, aborted |-> FALSE]]
    /\ UNCHANGED <<tree, revision, used, enabled, locks, holds>>

Plan(r, by, method, ops, held) == Planned(r, by, method, None, ops, held)

\* A request that copies or moves a selection into a directory, with the name
\* each of its entries gets there.
PlanSelection(r, by, method, E, p, named, ops) ==
    Planned(r, by, method, [what |-> E, to |-> p, named |-> named], ops, TRUE)
OwnNames(E) == [e \in E |-> tree[e].name]

Dirs == {e \in DOMAIN tree : IsDirectory(tree, e)}
Inner == DOMAIN tree \ {Root}

\* Mutant of LoadState: the revision the caller planned on is not compared.
LoadAnyState(r) ==
    /\ Waiting(r) /\ request[r].loaded = None
    /\ request' = [request EXCEPT ![r].loaded = revision]
    /\ UNCHANGED <<tree, revision, used, enabled, locks, holds>>

\* #loadCurrentState
LoadState(r) ==
    /\ Waiting(r) /\ request[r].loaded = None
    /\ IF request[r].expects \in {None, revision}
       THEN request' = [request EXCEPT ![r].loaded = revision]
       ELSE End(r)
    /\ UNCHANGED <<tree, revision, used, enabled, locks, holds>>

\* #publish: the segment is applied to what was loaded, the objects are
\* stored, and the ref is moved if it still is what was loaded.
PublishTree(r) ==
    /\ Waiting(r) /\ request[r].loaded # None
    /\ LET next == ApplySegment(tree, request[r].ops)
       IN  IF request[r].loaded = revision /\ next # Refused
           THEN /\ revision < MaxRevision
                /\ tree' = next
                /\ revision' = revision + 1
                /\ used' = used \cup CreatedIds(request[r].ops)
           ELSE UNCHANGED <<tree, revision, used>>
    /\ End(r)
    /\ UNCHANGED <<enabled, locks, holds>>

\* The body of an upload breaks off, or an object cannot be stored.
BreakOff(r) ==
    /\ Waiting(r)
    /\ End(r)
    /\ UNCHANGED <<tree, revision, used, enabled, locks, holds>>

-----------------------------------------------------------------------------
(* InternalFileManagerService.  The page names the revision it displays,   *)
(* and is refused unless that is the current one: its requests start from  *)
(* the current tree.                                                       *)

\* createDirectory, createFile (empty), copyFile
ManagerCreate(r) ==
    \E p \in Dirs, n \in Names, c \in {None, EmptyFile} \cup {tree[e].content : e \in Inner} :
        /\ ~NameTaken(tree, p, n, None)
        /\ RoomFor(used, 1)
        /\ Plan(r, Manager, "create", <<CreateEntry(FreshId(used, 1), p, n, c)>>, TRUE)

ManagerMove(r) ==
    \E e \in Inner, p \in Dirs, n \in Names :
        /\ ~(tree[e].parent = p /\ tree[e].name = n)
        /\ ~NameTaken(tree, p, n, e)
        /\ ~Inside(tree, p, e)
        /\ PlanSelection(r, Manager, "move", {e}, p, [x \in {e} |-> n], <<MoveEntry(e, p, n)>>)

ManagerRemove(r) ==
    \E e \in Inner, recursive \in BOOLEAN :
        /\ recursive \/ Children(tree, e) = {}
        /\ Plan(r, Manager, "remove", <<RemoveEntry(e, recursive)>>, TRUE)

DistinctNames(E) == \A d, e \in E : tree[d].name = tree[e].name => d = e
Listed(E) == InOrder(E, ById(E))

\* moveEntries: the names are compared with everything in the destination
\* that does not move itself.
ManagerMoveEntries(r) ==
    \E E \in (SUBSET Inner) \ {{}}, p \in Dirs :
        LET top == TopLevel(tree, E)
        IN  /\ DistinctNames(top)
            /\ \A e \in top : /\ \A d \in Children(tree, p) \ top : tree[d].name # tree[e].name
                              /\ tree[e].parent # p
                              /\ ~Inside(tree, p, e)
            /\ PlanSelection(r, Manager, "move", E, p, OwnNames(E),
                    [i \in 1..Cardinality(top) |-> MoveEntry(Listed(top)[i], p, tree[Listed(top)[i]].name)])

\* The copies of several entries take their ids one after the other.
CopyAll(t, ids, E, p) ==
    LET order == Listed(E)
        copied[k \in 0..Cardinality(E)] ==
          IF k = 0 THEN [ops |-> << >>, used |-> ids]
          ELSE LET acc == copied[k - 1]
                   e == order[k]
                   ops == CopyOperations(t, acc.used, e, p, t[e].name)
               IN  [ops |-> acc.ops \o ops, used |-> acc.used \cup CreatedIds(ops)]
    IN  copied[Cardinality(E)].ops

ManagerCopyEntries(r) ==
    \E E \in (SUBSET Inner) \ {{}}, p \in Dirs :
        LET top == TopLevel(tree, E)
        IN  /\ DistinctNames(top)
            /\ \A e \in top : ~NameTaken(tree, p, tree[e].name, None)
            /\ \A e \in top : IsDirectory(tree, e) => ~Inside(tree, p, e)
            /\ RoomFor(used, Cardinality(DownFrom(tree, top)))
            /\ PlanSelection(r, Manager, "copy", E, p, OwnNames(E), CopyAll(tree, used, top, p))

ManagerRemoveEntries(r) ==
    \E E \in (SUBSET Inner) \ {{}} :
        LET top == TopLevel(tree, E)
        IN  Plan(r, Manager, "remove",
                 [i \in 1..Cardinality(top) |->
                    RemoveEntry(Listed(top)[i], IsDirectory(tree, Listed(top)[i]))], TRUE)

-----------------------------------------------------------------------------
(* Wormhole: authentication, the lock check and the index are read before  *)
(* the request's first await.                                              *)

\* assertAllowed: a lock on the path or above it must be the client's own.
Free(c, path) ==
    \A p \in DOMAIN locks : IsPrefix(p, path) => locks[p] \in holds[c]
MayWrite(c, path) == enabled /\ Free(c, path)

\* Mutant of Found: names are compared as they are.
FoundExactly(t, p, n) ==
    LET same == {d \in Children(t, p) : t[d].name = n}
    IN  IF same = {} THEN None ELSE CHOOSE d \in same : TRUE

\* destination: what is at a name, by the name folded; of several, the list
\* has the upper case first.
Found(t, p, n) ==
    LET same == {d \in Children(t, p) : Fold(t[d].name) = Fold(n)}
    IN  IF same = {} THEN None
        ELSE IF \E d \in same : t[d].name = UpperName
             THEN CHOOSE d \in same : t[d].name = UpperName
             ELSE CHOOSE d \in same : TRUE

DestinationPath(t, p, n) == Append(PathOf(t, p), n)

\* put: an etag in If-Match or If-None-Match only ends the request here.
WormholePut(r, c) ==
    \E p \in Dirs, n \in Names, body \in Contents :
        LET old == Found(tree, p, n)
        IN  /\ MayWrite(c, DestinationPath(tree, p, n))
            /\ \/ /\ old = None
                  /\ RoomFor(used, 1)
                  /\ Plan(r, c, "put", <<CreateEntry(FreshId(used, 1), p, n, body)>>, TRUE)
               \/ /\ old # None /\ IsFile(tree, old)
                  /\ Plan(r, c, "put", <<SetContent(old, tree[old].content, body)>>, FALSE)

WormholeCreateDirectory(r, c) ==
    \E p \in Dirs, n \in Names :
        /\ MayWrite(c, DestinationPath(tree, p, n))
        /\ Found(tree, p, n) = None
        /\ RoomFor(used, 1)
        /\ Plan(r, c, "mkcol", <<CreateDirectory(FreshId(used, 1), p, n)>>, TRUE)

\* PROPPATCH with a modification time: the same content once more.  Its lock
\* was checked before its body was awaited, and may be another's by now.
WormholeSetMtime(r, c) ==
    \E e \in Inner :
        /\ IsFile(tree, e)
        /\ Plan(r, c, "proppatch", <<SetContent(e, tree[e].content, tree[e].content)>>, FALSE)

WormholeRemove(r, c) ==
    \E e \in Inner :
        /\ MayWrite(c, PathOf(tree, e))
        /\ Plan(r, c, "remove", <<RemoveEntry(e, TRUE)>>, TRUE)

\* What is replaced at the destination is removed in the same batch; a
\* directory is only replaced when it is empty.
Replacing(p, n) ==
    LET old == Found(tree, p, n)
    IN  IF old = None THEN << >> ELSE <<RemoveEntry(old, TRUE)>>
MayReplace(p, n, overwrite) ==
    LET old == Found(tree, p, n) IN old # None => overwrite /\ Children(tree, old) = {}

WormholeMove(r, c) ==
    \E e \in Inner, p \in Dirs, n \in Names, overwrite \in BOOLEAN :
        /\ MayWrite(c, PathOf(tree, e)) /\ MayWrite(c, DestinationPath(tree, p, n))
        /\ ~Inside(tree, p, e)
        /\ Found(tree, p, n) # e        \* nothing to do, whatever its case
        /\ MayReplace(p, n, overwrite)
        /\ PlanSelection(r, c, "move", {e}, p, [x \in {e} |-> n],
                         Replacing(p, n) \o <<MoveEntry(e, p, n)>>)

WormholeCopy(r, c) ==
    \E e \in Inner, p \in Dirs, n \in Names, overwrite \in BOOLEAN :
        /\ MayWrite(c, PathOf(tree, e)) /\ MayWrite(c, DestinationPath(tree, p, n))
        /\ ~Inside(tree, p, e)
        /\ MayReplace(p, n, overwrite)
        /\ RoomFor(used, Cardinality(DownFrom(tree, {e})))
        /\ PlanSelection(r, c, "copy", {e}, p, [x \in {e} |-> n],
                         Replacing(p, n) \o CopyOperations(tree, used, e, p, n))

-----------------------------------------------------------------------------
(* WormholeLockRegistry and WormholeRuntime.                               *)

OnlyLocks == UNCHANGED <<tree, revision, used, request, enabled>>
NewToken(k) == k \notin UNION {holds[c] : c \in Clients}

\* lock: a path that is locked already answers with the lock there is.  The
\* password was checked before the body was awaited, and may be gone by now.
Lock(c, path) ==
    /\ \E k \in Tokens :
          /\ IF path \in DOMAIN locks THEN k = locks[path] ELSE NewToken(k)
          /\ locks' = [p \in DOMAIN locks \cup {path} |-> IF p = path THEN k ELSE locks[p]]
          /\ holds' = [holds EXCEPT ![c] = @ \cup {k}]
    /\ OnlyLocks

WithoutLock(path) == locks' = [p \in DOMAIN locks \ {path} |-> locks[p]]

Unlock(c, path) ==
    /\ enabled
    /\ path \in DOMAIN locks /\ locks[path] \in holds[c]
    /\ WithoutLock(path)
    /\ OnlyLocks /\ UNCHANGED holds

\* #purge, by any later call; a refresh only puts it off.
LockExpires(path) ==
    /\ path \in DOMAIN locks
    /\ WithoutLock(path)
    /\ OnlyLocks /\ UNCHANGED holds

\* #revoke, by disable and by rotate, which enables again at once.
Revoke(again) ==
    /\ enabled
    /\ enabled' = again
    /\ locks' = << >>
    /\ request' = [r \in RequestIds |->
                     IF Waiting(r) /\ request[r].by \in Clients
                     THEN [request[r] EXCEPT !.aborted = TRUE]
                     ELSE request[r]]
    /\ UNCHANGED <<tree, revision, used, holds>>

Enable ==
    /\ ~enabled
    /\ enabled' = TRUE
    /\ UNCHANGED <<tree, revision, used, request, locks, holds>>

-----------------------------------------------------------------------------
MayAsk(r) == request[r] = None /\ revision < MaxRevision

ManagerRequest(r) ==
    /\ MayAsk(r)
    /\ \/ ManagerCreate(r) \/ ManagerMove(r) \/ ManagerRemove(r)
       \/ ManagerMoveEntries(r) \/ ManagerCopyEntries(r) \/ ManagerRemoveEntries(r)

WormholeRequest(r, c) ==
    /\ MayAsk(r)
    /\ \/ WormholePut(r, c) \/ WormholeCreateDirectory(r, c) \/ WormholeSetMtime(r, c)
       \/ WormholeRemove(r, c) \/ WormholeMove(r, c) \/ WormholeCopy(r, c)

TreeClientsNext ==
    \/ \E r \in RequestIds :
          \/ LoadState(r) \/ PublishTree(r) \/ BreakOff(r)
          \/ ManagerRequest(r)
          \/ \E c \in Clients : WormholeRequest(r, c)
    \/ \E c \in Clients, path \in LockPaths : Lock(c, path) \/ Unlock(c, path)
    \/ \E path \in DOMAIN locks : LockExpires(path)
    \/ Enable \/ \E again \in BOOLEAN : Revoke(again)

TreeClientsSpec == TreeClientsInit /\ [][TreeClientsNext]_treeVars

-----------------------------------------------------------------------------
(* Properties.                                                             *)

Publishes(r) == Waiting(r) /\ request'[r] = Ended /\ revision' # revision

\* No request removes, overwrites, moves or renames anything but what its
\* client's index showed: a file saved or created meanwhile by somebody else
\* is never in the way of a recursive removal, a move or an upload that
\* started before (expectedRevision, expectedContentFid and the CAS).
NothingUnseenIsLost ==
    [][\A r \in RequestIds : Publishes(r) =>
          \A e \in DOMAIN tree :
             (e \notin DOMAIN tree' \/ tree'[e] # tree[e])
               => /\ e \in DOMAIN request[r].seen
                  /\ request[r].seen[e].content = tree[e].content]_treeVars

\* An entry that has moved into the directory p, under its new name.
MovedTo(t, e, p, named) == [parent |-> p, name |-> named[e], content |-> t[e].content]

\* A move leaves the contents, puts each outermost entry of the selection
\* where it was sent under the name it was given, and nothing else anywhere.
Moved(t, u, asked) ==
    LET top == Outermost(t, asked.what)
    IN  /\ top \subseteq DOMAIN u /\ DOMAIN u \subseteq DOMAIN t
        /\ \A e \in DOMAIN u :
              u[e] = IF e \in top
                     THEN MovedTo(t, e, asked.to, asked.named)
                     ELSE t[e]

Copied(t, u, asked) ==
    ArrivedWhole(t, Outermost(t, asked.what), t, u, asked.to,
                 {<<e, asked.named[e]>> : e \in asked.what})

\* A published copy or move is the one that was asked for, of the tree its
\* client saw: each outermost entry of the selection arrives once, whole, in
\* the directory and under the name given, nothing else arrives or changes,
\* and only the Wormhole, which replaces what is at a destination, removes;
\* whatever nested entries or own destination the selection had, and whatever
\* was written meanwhile (normalizeTopLevelEntries, appendCopyOperations,
\* expectedRevision).
SelectionArrivesWhole ==
    [][\A r \in RequestIds : (Publishes(r) /\ request[r].method \in {"copy", "move"}) =>
          LET seen == request[r].seen
          IN  /\ request[r].method = "copy" => Copied(seen, tree', request[r].asked)
              /\ request[r].method = "move" => Moved(seen, tree', request[r].asked)
              /\ request[r].by = Manager => DOMAIN seen \subseteq DOMAIN tree']_treeVars

CaseConflicts(t) ==
    {y \in (DOMAIN t) \X (DOMAIN t) :
        /\ y[1] # y[2]
        /\ t[y[1]].parent = t[y[2]].parent /\ Fold(t[y[1]].name) = Fold(t[y[2]].name)}

\* A Wormhole write gives no directory that was there two names that differ
\* in case only, though the tree itself allows them and the file manager may
\* create one while the upload runs (destination).
WormholeAddsNoCaseConflict ==
    [][\A r \in RequestIds : (Publishes(r) /\ request[r].by \in Clients) =>
          \A x \in CaseConflicts(tree') :
             \/ tree'[x[1]].parent \notin DOMAIN tree
             \/ \E y \in CaseConflicts(tree) : tree[y[1]].parent = tree'[x[1]].parent]_treeVars

-----------------------------------------------------------------------------
\* What the proofs need to know of a request: what it has planned on.
IsAsked(row) ==
    row = [by |-> row.by, method |-> row.method, asked |-> row.asked, ops |-> row.ops,
           expects |-> row.expects, seen |-> row.seen, loaded |-> row.loaded,
           aborted |-> row.aborted]

\* Without a revision it is held to, a request only gives a file that it has
\* seen a new content, and expects the old one.
OnlySetsContent(row) ==
    \E e \in DOMAIN row.seen, c \in Contents :
       /\ row.seen[e].content # None
       /\ row.ops = <<SetContent(e, row.seen[e].content, c)>>

\* With one it has seen the tree of that revision, and loads no other.
PlannedOnItsIndex(row) ==
    /\ IsAsked(row)
    /\ row.expects \in {None} \cup 0..revision /\ row.loaded \in {None} \cup 0..revision
    /\ row.expects = revision => row.seen = tree
    /\ row.loaded # None => row.expects \in {None, row.loaded}
    /\ row.expects = None => OnlySetsContent(row)

\* The inductive invariant of the requests.
RequestsInductive ==
    /\ DOMAIN request = RequestIds
    /\ \A r \in RequestIds : Waiting(r) => PlannedOnItsIndex(request[r])
=============================================================================
