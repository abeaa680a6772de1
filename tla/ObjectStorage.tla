---------------------------- MODULE ObjectStorage ----------------------------
(***************************************************************************)
(* The immutable objects under the refs.  A commit puts its contents, a    *)
(* segment, a checkpoint and a head into the object store, each under the  *)
(* hash of its bytes, and only then moves a ref of the control database;   *)
(* nothing is ever deleted.  FileServiceGcScanner marks what the database  *)
(* protects and reports the rest, FileServiceBackup copies the database,   *)
(* and both run beside the commits.                                        *)
(***************************************************************************)
EXTENDS Naturals

CONSTANTS
    Refs,      \* main and the Workspaces
    HeadIds,   \* the heads of every commit that is begun
    FileContents,  \* contents of files
    Pieces,    \* chunks
    PiecesOf,  \* per content: its chunks, of which equal ones are one object
    Large,     \* contents of several chunks: those have a manifest
    Writers,   \* commits under way
    Absent     \* no head

ASSUME StorageAssumption ==
    /\ Absent \notin HeadIds
    /\ PiecesOf \in [FileContents -> SUBSET Pieces]
    /\ Large \subseteq FileContents

VARIABLES
    heads,     \* per head: its parent and the contents of its checkpoint
    store,     \* the objects in the store
    refs,      \* the database: per ref its head, or Absent
    pinned,    \* the database: heads of snapshots and of Workspace Runs
    writer,    \* per commit under way: the new contents, the head it makes on
               \* which ref, and the objects it has yet to put
    scan,      \* the garbage scan, of which there is one at a time
    backup     \* the heads in the last backup of the database

storageVars == <<heads, store, refs, pinned, writer, scan, backup>>

\* What a head refers to, and the head itself.
Part   == ({"segments", "checkpoints"} \X HeadIds)
          \cup ({"manifests"} \X FileContents) \cup ({"chunks"} \X Pieces)
Object == ({"heads"} \X HeadIds) \cup Part
Kinds  == {"heads", "segments", "checkpoints", "manifests", "chunks"}

HeadRow == [parent : HeadIds \cup {Absent}, tree : SUBSET FileContents]
NoRow   == [parent |-> Absent, tree |-> {}]

\* FileContentStore: a large content is its chunks and a manifest.
ContentObjects(c) ==
    ({"chunks"} \X PiecesOf[c]) \cup ({"manifests"} \X ({c} \cap Large))
TreeObjects(tree) == UNION {ContentObjects(c) : c \in tree}
OwnObjects(h)     == {<<"segments", h>>, <<"checkpoints", h>>}

\* What reading the head needs, its history aside.
Needed(h) == OwnObjects(h) \cup TreeObjects(heads[h].tree)

Idle == [new |-> {}, head |-> Absent, ref |-> Absent, pending |-> {}]
WriterRow == [new : SUBSET FileContents, head : HeadIds \cup {Absent},
              ref : Refs \cup {Absent}, pending : SUBSET Part]

\* from: the heads that were protected when the scan began, todo: heads to
\* mark, kinds: what is left to list.
ScanRow == [phase : {"idle", "mark", "list", "report"}, from : SUBSET HeadIds,
            todo : SUBSET HeadIds, reachable : SUBSET Object, kinds : SUBSET Kinds,
            candidates : SUBSET Object]
NoScan == [phase |-> "idle", from |-> {}, todo |-> {}, reachable |-> {}, kinds |-> {},
           candidates |-> {}]

RefHeads == {refs[r] : r \in Refs} \ {Absent}

\* listAllProtectedHeadFids
ProtectedHeads == RefHeads \cup pinned

\* A store that genesis has just initialized: one head, of an empty tree.
StorageInit ==
    \E genesis \in HeadIds, main \in Refs :
        /\ heads = [h \in HeadIds |-> NoRow]
        /\ store = {<<"heads", genesis>>} \cup OwnObjects(genesis)
        /\ refs = [r \in Refs |-> IF r = main THEN genesis ELSE Absent]
        /\ pinned = {}
        /\ writer = [w \in Writers |-> Idle]
        /\ scan = NoScan
        /\ backup = {}
-----------------------------------------------------------------------------
(***************************************************************************)
(* A commit                                                                *)
(***************************************************************************)

Used(h) == <<"heads", h>> \in store \/ \E w \in Writers : writer[w].head = h

\* Contents that some ref has: an import copies them without their bytes.
KnownContents == UNION {heads[h].tree : h \in RefHeads}

\* The bytes of new files come first; they are put even if the store has them.
Upload(w, new) ==
    /\ writer[w] = Idle /\ new # {}
    /\ writer' = [writer EXCEPT ![w].new = new, ![w].pending = TreeObjects(new)]
    /\ UNCHANGED <<heads, store, refs, pinned, scan, backup>>

\* Writing, copying, importing, moving and removing files: a tree of contents
\* of the refs and of the new ones, on the head that the ref has now.
Begin(w, r, h) ==
    /\ writer[w].head = Absent /\ writer[w].pending = {}
    /\ refs[r] # Absent /\ ~Used(h)
    /\ \E kept \in SUBSET KnownContents :
          heads' = [heads EXCEPT ![h] = [parent |-> refs[r], tree |-> kept \cup writer[w].new]]
    /\ writer' = [writer EXCEPT ![w].head = h, ![w].ref = r, ![w].pending = OwnObjects(h)]
    /\ UNCHANGED <<store, refs, pinned, scan, backup>>

\* Mutant of ReadyForHead: the head goes out with the objects it refers to.
ReadyForHeadAlways(w) == TRUE

ReadyForHead(w) == writer[w].pending = {}

\* The kinds are put in this order, and the head last.
Rank == [chunks |-> 1, manifests |-> 2, segments |-> 3, checkpoints |-> 4]
Earliest(w) == {o \in writer[w].pending : \A p \in writer[w].pending : Rank[o[1]] <= Rank[p[1]]}

\* ImmutableObjectRepository.put: an object that is there already is compared
\* and counts as put.
Put(w, object) ==
    /\ object \in Earliest(w)
    /\ store' = store \cup {object}
    /\ writer' = [writer EXCEPT ![w].pending = @ \ {object}]
    /\ UNCHANGED <<heads, refs, pinned, scan, backup>>

\* A put that fails ends the commit, and may have stored the object all the same.
FailPut(w, object) ==
    /\ object \in Earliest(w)
    /\ store' \in {store, store \cup {object}}
    /\ writer' = [writer EXCEPT ![w] = Idle]
    /\ UNCHANGED <<heads, refs, pinned, scan, backup>>

PutHead(w) ==
    /\ writer[w].head # Absent /\ <<"heads", writer[w].head>> \notin store
    /\ ReadyForHead(w)
    /\ store' = store \cup {<<"heads", writer[w].head>>}
    /\ \/ UNCHANGED writer
       \/ writer' = [writer EXCEPT ![w] = Idle]
    /\ UNCHANGED <<heads, refs, pinned, scan, backup>>

\* compareAndSwap; a conflict, or a crash, ends the commit.
Publish(w) ==
    LET row == writer[w]
    IN  /\ row.head # Absent /\ <<"heads", row.head>> \in store
        /\ refs' = IF refs[row.ref] = heads[row.head].parent
                   THEN [refs EXCEPT ![row.ref] = row.head] ELSE refs
        /\ writer' = [writer EXCEPT ![w] = Idle]
        /\ UNCHANGED <<heads, store, pinned, scan, backup>>

Abandon(w) ==
    /\ writer[w] # Idle
    /\ writer' = [writer EXCEPT ![w] = Idle]
    /\ UNCHANGED <<heads, store, refs, pinned, scan, backup>>
-----------------------------------------------------------------------------
(***************************************************************************)
(* The rest of the database, as far as it holds heads                      *)
(***************************************************************************)

\* createWorkspace starts a ref at a head of another.
CreateRef(r, source) ==
    /\ refs[r] = Absent /\ refs[source] # Absent
    /\ refs' = [refs EXCEPT ![r] = refs[source]]
    /\ UNCHANGED <<heads, store, pinned, writer, scan, backup>>

\* createWorkspaceRun and createSnapshot take the current head of a ref.
Pin(r) ==
    /\ refs[r] # Absent
    /\ pinned' = pinned \cup {refs[r]}
    /\ UNCHANGED <<heads, store, refs, writer, scan, backup>>

\* deleteWorkspace drops the ref and its Runs; main has no Workspace.
DeleteRef(r) ==
    /\ refs[r] # Absent /\ \E q \in Refs \ {r} : refs[q] # Absent
    /\ refs' = [refs EXCEPT ![r] = Absent]
    /\ \E kept \in SUBSET pinned : pinned' = kept
    /\ UNCHANGED <<heads, store, writer, scan, backup>>
-----------------------------------------------------------------------------
(***************************************************************************)
(* FileServiceGcScanner.scan                                               *)
(***************************************************************************)

\* Mutant of Roots: the scan protects what the refs point at.
RootsOfRefs == RefHeads

Roots == ProtectedHeads

StartScan ==
    /\ scan.phase = "idle"
    /\ scan' = [NoScan EXCEPT !.phase = "mark", !.from = ProtectedHeads, !.todo = Roots]
    /\ UNCHANGED <<heads, store, refs, pinned, writer, backup>>

NextHeads(h) == {p \in {heads[h].parent} \ {Absent} : <<"heads", p>> \notin scan.reachable}

\* One round of #markHeadHistory: the head, what it needs, and then its parent
\* unless that was marked before.
MarkHead(h) ==
    LET marked == {<<"heads", h>>} \cup Needed(h)
    IN  /\ scan.phase = "mark" /\ h \in scan.todo
        /\ scan' = [scan EXCEPT !.reachable = @ \cup marked, !.todo = (@ \ {h}) \cup NextHeads(h)]
        /\ UNCHANGED <<heads, store, refs, pinned, writer, backup>>

StartList ==
    /\ scan.phase = "mark" /\ scan.todo = {}
    /\ scan' = [scan EXCEPT !.phase = "list", !.kinds = Kinds]
    /\ UNCHANGED <<heads, store, refs, pinned, writer, backup>>

\* list goes through the kinds; the objects put meanwhile are in it or not.
ListKind(kind) ==
    /\ scan.phase = "list" /\ kind \in scan.kinds
    /\ scan' = [scan EXCEPT !.kinds = @ \ {kind},
          !.candidates = @ \cup {o \in store : o[1] = kind /\ o \notin scan.reachable},
          !.phase = IF scan.kinds = {kind} THEN "report" ELSE "list"]
    /\ UNCHANGED <<heads, store, refs, pinned, writer, backup>>

\* The report is returned, or the store failed to answer.  Nothing is deleted.
EndScan ==
    /\ scan.phase # "idle"
    /\ scan' = NoScan
    /\ UNCHANGED <<heads, store, refs, pinned, writer, backup>>
-----------------------------------------------------------------------------
(***************************************************************************)
(* FileServiceBackup: the database alone, into a file that replaces the    *)
(* previous backup once it is verified                                     *)
(***************************************************************************)

\* The online backup ends with one state of the database; a copy that fails,
\* or is not verified, leaves the previous one.
BackUp ==
    /\ backup' = ProtectedHeads
    /\ UNCHANGED <<heads, store, refs, pinned, writer, scan>>

StorageNext ==
    \/ \E w \in Writers :
          \/ \E new \in SUBSET FileContents : Upload(w, new)
          \/ \E r \in Refs, h \in HeadIds : Begin(w, r, h)
          \/ \E object \in Part : Put(w, object) \/ FailPut(w, object)
          \/ PutHead(w) \/ Publish(w) \/ Abandon(w)
    \/ \E r \in Refs : Pin(r) \/ DeleteRef(r) \/ \E q \in Refs : CreateRef(r, q)
    \/ StartScan \/ StartList \/ EndScan
    \/ \E h \in HeadIds : MarkHead(h)
    \/ \E kind \in Kinds : ListKind(kind)
    \/ BackUp

StorageSpec == StorageInit /\ [][StorageNext]_storageVars
-----------------------------------------------------------------------------
StorageTypeOK ==
    /\ heads \in [HeadIds -> HeadRow]
    /\ store \subseteq Object
    /\ refs \in [Refs -> HeadIds \cup {Absent}]
    /\ pinned \subseteq HeadIds
    /\ writer \in [Writers -> WriterRow]
    /\ scan \in ScanRow
    /\ backup \subseteq HeadIds

Readable(h) == <<"heads", h>> \in store /\ Needed(h) \subseteq store

(***************************************************************************)
(* Every head in the store can be read, down to the chunks of every file   *)
(* and back to the first head of its history, whatever commits failed, or  *)
(* stopped half-way, beside it (FileSystemTransactions, FileContentStore). *)
(***************************************************************************)
HeadsAreComplete ==
    \A h \in HeadIds : <<"heads", h>> \in store =>
        /\ Readable(h)
        /\ heads[h].parent # Absent => <<"heads", heads[h].parent>> \in store

(***************************************************************************)
(* What the database protects, and what the last backup of it would        *)
(* protect if it were restored, is readable (SqliteRefStore, FileService-  *)
(* Backup.createLatest).                                                   *)
(***************************************************************************)
ProtectedHeadsAreReadable == \A h \in ProtectedHeads \cup backup : Readable(h)

\* The heads and all that came before them: the least set that has them and
\* the parent of every head in it.
History(from) ==
    {h \in HeadIds : \A s \in SUBSET HeadIds :
        from \subseteq s /\ (\A x \in s : heads[x].parent \in s \cup {Absent}) => h \in s}

(***************************************************************************)
(* A garbage candidate is nothing that the refs, snapshots and Runs of the *)
(* start of the scan reach, though commits go on while it marks and lists  *)
(* (FileServiceGcScanner.scan).                                            *)
(***************************************************************************)
CandidatesAreGarbage ==
    \A h \in History(scan.from) :
        scan.candidates \cap ({<<"heads", h>>} \cup Needed(h)) = {}
=============================================================================
