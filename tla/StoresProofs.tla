---------------------------- MODULE StoresProofs ----------------------------
(***************************************************************************)
(* Two stores of the server, proved for every value of their constants:    *)
(* the object storage (ObjectStorage), for any number of refs and of       *)
(* concurrent commits, and the installed applications (InstalledApps), for *)
(* any number of applications, inspections and requests.                   *)
(*                                                                         *)
(* Of the objects, HeadsAreComplete is not inductive: a head goes out      *)
(* complete because of what its commit has put before, which               *)
(* WritersAreComplete says, and on a parent that a ref had, which          *)
(* ProtectedHeadsAreStored says.  The scan is right because what it has    *)
(* marked is closed under history, except for the heads it has still to    *)
(* do: MarksAreClosed.                                                     *)
(*                                                                         *)
(* Of the applications, the files of a record are there because the        *)
(* request with the lock put them there before it wrote the record, and    *)
(* because what a failed one removes is of no record: RequestsAreInOrder.  *)
(*                                                                         *)
(* With the clients of the tree (TreeClientsProofs) they make the run's    *)
(* StoresInvariant, whose parts share no variable.                         *)
(***************************************************************************)
EXTENDS MCStores, TreeClientsProofs

\* A head whose object is there.
Stored(h) == <<"heads", h>> \in store

\* What is missing of a commit is still to be put.
IsComplete(row, hs, st) ==
    IF row.head = Absent
    THEN TreeObjects(row.new) \subseteq st \cup row.pending
    ELSE /\ OwnObjects(row.head) \cup TreeObjects(hs[row.head].tree) \subseteq st \cup row.pending
         /\ hs[row.head].parent # Absent => <<"heads", hs[row.head].parent>> \in st

\* What the commits on their way have put, or will.
WritersAreComplete == \A w \in Writers : IsComplete(writer[w], heads, store)

\* What the database and its backup name is there.
ProtectedHeadsAreStored == \A h \in ProtectedHeads \cup backup : Stored(h)

\* A head that the scan has been to.
Marked(h) == <<"heads", h>> \in scan.reachable

\* With a head the scan marks what it needs, and its parent, or has it to do.
MarksAreClosed ==
    /\ \A h \in HeadIds : h \in scan.from \cup scan.todo \/ Marked(h) => Stored(h)
    /\ scan.phase # "idle" => \A h \in scan.from : h \in scan.todo \/ Marked(h)
    /\ \A h \in HeadIds : Marked(h) =>
          /\ Needed(h) \subseteq scan.reachable
          /\ \/ heads[h].parent = Absent
             \/ heads[h].parent \in scan.todo
             \/ Marked(heads[h].parent)

\* What the scan lists it has not marked.
CandidatesAreUnmarked ==
    /\ scan.phase = "idle" => scan.from = {} /\ scan.todo = {}
    /\ scan.phase \in {"list", "report"} => scan.todo = {}
    /\ scan.phase = "mark" => scan.candidates = {}
    /\ scan.candidates \cap scan.reachable = {}

\* The inductive invariant of the objects.
StorageInvariant ==
    /\ StorageTypeOK
    /\ HeadsAreComplete
    /\ WritersAreComplete
    /\ ProtectedHeadsAreStored
    /\ MarksAreClosed
    /\ CandidatesAreUnmarked

USE DEF Stored, Marked

-----------------------------------------------------------------------------
\* The operators on objects.

\* What FileContentStore puts and reads for a tree are objects of the store.
LEMMA ObjectsOfATree ==
    ASSUME NEW files \in SUBSET FileContents
    PROVE  TreeObjects(files) \subseteq Part
BY StorageAssumption DEF TreeObjects, ContentObjects, Part

\* A head is read through objects of the store (FileSystemTransactions.#publish).
LEMMA ObjectsOfAHead ==
    ASSUME StorageTypeOK, NEW h \in HeadIds
    PROVE  OwnObjects(h) \subseteq Part /\ Needed(h) \subseteq Part
<1>1. OwnObjects(h) \subseteq Part
  BY DEF OwnObjects, Part
<1>2. heads[h].tree \in SUBSET FileContents
  BY DEF StorageTypeOK, HeadRow
<1> QED
  BY <1>1, <1>2, ObjectsOfATree DEF Needed

\* A tree of contents that some refs have, and of new ones, is of their objects: an import
\* puts nothing of what it copies.
LEMMA ObjectsOfACommit ==
    ASSUME HeadsAreComplete, ProtectedHeadsAreStored, StorageTypeOK,
           NEW kept \in SUBSET KnownContents, NEW new
    PROVE  TreeObjects(kept \cup new) \subseteq store \cup TreeObjects(new)
<1>1. ASSUME NEW c \in kept PROVE ContentObjects(c) \subseteq store
  <2>1. PICK h \in RefHeads : c \in heads[h].tree
    BY <1>1 DEF KnownContents
  <2>2. h \in HeadIds /\ Stored(h)
    BY <2>1 DEF RefHeads, ProtectedHeads, ProtectedHeadsAreStored, StorageTypeOK
  <2> QED
    BY <2>1, <2>2 DEF HeadsAreComplete, Readable, Needed, TreeObjects
<1> QED
  BY <1>1 DEF TreeObjects

-----------------------------------------------------------------------------
\* Types.

\* Genesis writes values of the right types (genesisFileSystem.ts).
LEMMA TypesAtGenesis == StorageInit => StorageTypeOK
<1> SUFFICES ASSUME StorageInit PROVE StorageTypeOK
  OBVIOUS
<1>1. store \subseteq Object
  BY DEF StorageInit, Object, Part, OwnObjects
<1>2. NoRow \in HeadRow /\ Idle \in WriterRow /\ NoScan \in ScanRow
  BY DEF NoRow, HeadRow, Idle, WriterRow, NoScan, ScanRow
<1> QED
  BY <1>1, <1>2 DEF StorageInit, StorageTypeOK

\* Every step of a commit, of the database, of the scan and of the backup keeps the types
\* (fileSystemTransactions.ts, sqliteRefStore.ts, fileServiceGcScanner.ts, fileServiceBackup.ts).
LEMMA TypesAreKept == StorageTypeOK /\ [StorageNext]_storageVars => StorageTypeOK'
<1> SUFFICES ASSUME StorageTypeOK, [StorageNext]_storageVars PROVE StorageTypeOK'
  OBVIOUS
<1> USE DEF StorageTypeOK
<1>1. ASSUME NEW w \in Writers, NEW new \in SUBSET FileContents, Upload(w, new)
      PROVE  StorageTypeOK'
  BY <1>1, ObjectsOfATree DEF Upload, WriterRow
<1>2. ASSUME NEW w \in Writers, NEW r \in Refs, NEW h \in HeadIds, Begin(w, r, h)
      PROVE  StorageTypeOK'
  <2>1. KnownContents \subseteq FileContents
    BY DEF KnownContents, RefHeads, HeadRow
  <2>2. heads' \in [HeadIds -> HeadRow]
    BY <1>2, <2>1 DEF Begin, HeadRow, WriterRow
  <2>3. writer' \in [Writers -> WriterRow]
    <3>1. writer[w] \in WriterRow /\ OwnObjects(h) \in SUBSET Part
      BY ObjectsOfAHead
    <3>2. [writer[w] EXCEPT !.head = h, !.ref = r, !.pending = OwnObjects(h)] \in WriterRow
      BY <3>1 DEF WriterRow
    <3>3. writer' = [writer EXCEPT
                ![w] = [@ EXCEPT !.head = h, !.ref = r, !.pending = OwnObjects(h)]]
      BY <1>2 DEF Begin
    <3> QED
      BY <3>2, <3>3
  <2> QED
    BY <1>2, <2>2, <2>3 DEF Begin
<1>3. ASSUME NEW w \in Writers, NEW object \in Part, Put(w, object) \/ FailPut(w, object)
      PROVE  StorageTypeOK'
  <2>1. writer' \in [Writers -> WriterRow]
    BY <1>3 DEF Put, FailPut, WriterRow, Idle
  <2> QED
    BY <1>3, <2>1 DEF Put, FailPut, Object
<1>4. ASSUME NEW w \in Writers, PutHead(w) PROVE StorageTypeOK'
  <2>1. writer[w].head \in HeadIds /\ writer' \in [Writers -> WriterRow]
    BY <1>4 DEF PutHead, WriterRow, Idle
  <2> QED
    BY <1>4, <2>1 DEF PutHead, Object
<1>5. ASSUME NEW w \in Writers, Publish(w) \/ Abandon(w) PROVE StorageTypeOK'
  <2>1. writer' \in [Writers -> WriterRow]
    BY <1>5 DEF Publish, Abandon, WriterRow, Idle
  <2>2. refs' \in [Refs -> HeadIds \cup {Absent}]
    BY <1>5 DEF Publish, Abandon, WriterRow
  <2> QED
    BY <1>5, <2>1, <2>2 DEF Publish, Abandon
<1>6. ASSUME NEW r \in Refs, NEW q \in Refs, Pin(r) \/ DeleteRef(r) \/ CreateRef(r, q)
      PROVE  StorageTypeOK'
  BY <1>6 DEF Pin, DeleteRef, CreateRef
<1>7. StartScan \/ StartList \/ EndScan \/ BackUp => StorageTypeOK'
  <2>1. ProtectedHeads \subseteq HeadIds
    BY DEF ProtectedHeads, RefHeads
  <2>2. StartScan => scan' \in ScanRow
    BY <2>1 DEF StartScan, ScanRow, NoScan, Roots
  <2>3. StartList => scan' \in ScanRow
    BY DEF StartList, ScanRow
  <2>4. NoScan \in ScanRow
    BY DEF NoScan, ScanRow
  <2> QED
    BY <2>1, <2>2, <2>3, <2>4 DEF StartScan, StartList, EndScan, BackUp
<1>8. ASSUME NEW h \in HeadIds, MarkHead(h) PROVE StorageTypeOK'
  <2>1. {<<"heads", h>>} \cup Needed(h) \subseteq Object
    BY ObjectsOfAHead DEF Object
  <2>2. NextHeads(h) \subseteq HeadIds
    BY DEF NextHeads, HeadRow
  <2>3. scan' \in ScanRow
    BY <1>8, <2>1, <2>2 DEF MarkHead, ScanRow
  <2> QED
    BY <1>8, <2>3 DEF MarkHead
<1>9. ASSUME NEW kind \in Kinds, ListKind(kind) PROVE StorageTypeOK'
  <2>1. scan' \in ScanRow
    BY <1>9 DEF ListKind, ScanRow
  <2> QED
    BY <1>9, <2>1 DEF ListKind
<1>10. UNCHANGED storageVars => StorageTypeOK'
  BY DEF storageVars
<1> QED
  BY <1>1, <1>2, <1>3, <1>4, <1>5, <1>6, <1>7, <1>8, <1>9, <1>10 DEF StorageNext

-----------------------------------------------------------------------------
\* Commits.

\* A complete commit stays so as the store grows and other heads are made.
LEMMA CompletenessIsKept ==
    ASSUME NEW row, NEW hs, NEW st, NEW hs2, NEW st2, IsComplete(row, hs, st), st \subseteq st2,
           row.head = Absent \/ hs2[row.head] = hs[row.head]
    PROVE  IsComplete(row, hs2, st2)
BY DEF IsComplete

\* No commit that has not begun lacks anything.
LEMMA NothingIsComplete == ASSUME NEW hs, NEW st PROVE IsComplete(Idle, hs, st)
BY DEF IsComplete, Idle, TreeObjects

\* A scan minds neither new objects nor what commits and the database do.
LEMMA ScanIgnoresCommits ==
    ASSUME MarksAreClosed, CandidatesAreUnmarked,
           heads' = heads, store \subseteq store', scan' = scan
    PROVE  MarksAreClosed' /\ CandidatesAreUnmarked'
<1>1. \A h \in HeadIds : Needed(h)' = Needed(h)
  BY DEF Needed
<1> QED
  BY <1>1 DEF MarksAreClosed, CandidatesAreUnmarked

\* The heads of the database stay stored.
LEMMA ProtectionIsKept ==
    ASSUME ProtectedHeadsAreStored, store \subseteq store', UNCHANGED <<refs, pinned, backup>>
    PROVE  ProtectedHeadsAreStored'
BY DEF ProtectedHeadsAreStored, ProtectedHeads, RefHeads

\* Bytes are uploaded before any head refers to them (FileContentStore.putStream).
LEMMA UploadIsSafe ==
    ASSUME StorageInvariant, NEW w \in Writers, NEW new \in SUBSET FileContents, Upload(w, new)
    PROVE  /\ HeadsAreComplete' /\ WritersAreComplete' /\ ProtectedHeadsAreStored'
           /\ MarksAreClosed' /\ CandidatesAreUnmarked'
<1> USE DEF StorageInvariant
<1>1. HeadsAreComplete'
  BY DEF HeadsAreComplete, Readable, Needed, Upload
<1>2. UNCHANGED <<heads, store, refs, pinned, scan, backup>>
  BY DEF Upload
<1>3. IsComplete(writer'[w], heads, store)
  <2>1. writer'[w].head = Absent /\ writer'[w].new = new /\ writer'[w].pending = TreeObjects(new)
    BY DEF Upload, Idle, StorageTypeOK, WriterRow
  <2> QED
    BY <2>1 DEF IsComplete
<1>4. \A v \in Writers : IsComplete(writer'[v], heads, store)
  BY <1>3 DEF Upload, StorageTypeOK, WritersAreComplete
<1>5. WritersAreComplete'
  BY <1>2, <1>4 DEF WritersAreComplete
<1>6. ProtectedHeadsAreStored'
  BY <1>2, ProtectionIsKept
<1>7. MarksAreClosed' /\ CandidatesAreUnmarked'
  BY <1>2, ScanIgnoresCommits
<1> QED
  BY <1>1, <1>5, <1>6, <1>7

\* A commit begins on a stored head, of contents that are stored or its own, and with a head
\* that nobody knows (FileSystemTransactions.#loadCurrentState, #publish).
LEMMA BeginIsSafe ==
    ASSUME StorageInvariant, NEW w \in Writers, NEW r \in Refs, NEW h \in HeadIds, Begin(w, r, h)
    PROVE  /\ HeadsAreComplete' /\ WritersAreComplete' /\ ProtectedHeadsAreStored'
           /\ MarksAreClosed' /\ CandidatesAreUnmarked'
<1> USE DEF StorageInvariant
<1>1. PICK kept \in SUBSET KnownContents :
          heads' = [heads EXCEPT ![h] = [parent |-> refs[r], tree |-> kept \cup writer[w].new]]
  BY DEF Begin
<1>2. /\ heads'[h] = [parent |-> refs[r], tree |-> kept \cup writer[w].new]
      /\ \A x \in HeadIds : x # h => heads'[x] = heads[x]
  BY <1>1 DEF StorageTypeOK
<1>3. \A x \in HeadIds : x # h => Needed(x)' = Needed(x)
  BY <1>2 DEF Needed
<1>4. ~Stored(h) /\ (\A v \in Writers : writer[v].head # h) /\ UNCHANGED <<store, refs, pinned, scan, backup>>
  BY DEF Begin, Used
<1>5. HeadsAreComplete'
  BY <1>2, <1>3, <1>4 DEF HeadsAreComplete, Readable
<1>6. TreeObjects(kept \cup writer[w].new) \subseteq store
  <2>1. TreeObjects(writer[w].new) \subseteq store
    BY DEF Begin, WritersAreComplete, IsComplete
  <2> QED
    BY <2>1, ObjectsOfACommit
<1>7. Stored(refs[r])
  BY DEF Begin, ProtectedHeadsAreStored, ProtectedHeads, RefHeads
<1>8. ASSUME NEW v \in Writers PROVE IsComplete(writer'[v], heads', store')
  <2>1. CASE v = w
    <3>1. writer'[w].head = h /\ writer'[w].pending = OwnObjects(h)
      BY DEF Begin, StorageTypeOK, WriterRow
    <3>2. h # Absent
      BY StorageAssumption
    <3>3. heads'[h].tree = kept \cup writer[w].new /\ heads'[h].parent = refs[r]
      BY <1>2
    <3> QED
      BY <2>1, <3>1, <3>2, <3>3, <1>4, <1>6, <1>7 DEF IsComplete
  <2>2. CASE v # w
    <3>1. writer'[v] = writer[v] /\ writer[v] \in WriterRow
      BY <2>2 DEF Begin, StorageTypeOK
    <3>2. writer[v].head = Absent \/ heads'[writer[v].head] = heads[writer[v].head]
      BY <3>1, <1>2, <1>4 DEF WriterRow
    <3>3. IsComplete(writer[v], heads, store)
      BY DEF WritersAreComplete
    <3> QED
      BY <3>1, <3>2, <3>3, <1>4, CompletenessIsKept
  <2> QED
    BY <2>1, <2>2
<1>9. WritersAreComplete'
  BY <1>8 DEF WritersAreComplete
<1>10. ProtectedHeadsAreStored'
  BY <1>4, ProtectionIsKept
<1>11. MarksAreClosed'
  <2>1. \A x \in HeadIds : Marked(x) => x # h
    BY <1>4 DEF MarksAreClosed
  <2> QED
    BY <1>2, <1>3, <1>4, <2>1 DEF MarksAreClosed
<1>12. CandidatesAreUnmarked'
  BY <1>4 DEF CandidatesAreUnmarked
<1> QED
  BY <1>5, <1>9, <1>10, <1>11, <1>12

\* Putting an object, or failing to, or giving up, leaves no head without its objects: a head
\* goes out when its commit has nothing else to put (FileSystemTransactions.#publish).
LEMMA PutIsSafe ==
    ASSUME StorageInvariant, NEW w \in Writers,
           \/ \E object \in Part : Put(w, object) \/ FailPut(w, object)
           \/ PutHead(w) \/ Abandon(w)
    PROVE  /\ HeadsAreComplete' /\ WritersAreComplete' /\ ProtectedHeadsAreStored'
           /\ MarksAreClosed' /\ CandidatesAreUnmarked'
<1> USE DEF StorageInvariant
<1>1. store \subseteq store' /\ UNCHANGED <<heads, refs, pinned, scan, backup>>
  BY DEF Put, FailPut, PutHead, Abandon
<1>2. \A h \in HeadIds : Needed(h)' = Needed(h)
  BY <1>1 DEF Needed
<1>3. ASSUME NEW h \in HeadIds, Stored(h)', ~Stored(h)
      PROVE  PutHead(w) /\ writer[w].head = h
  <2>1. ASSUME NEW object \in Part PROVE object # <<"heads", h>>
    BY DEF Part
  <2>2. ~\E object \in Part : Put(w, object) \/ FailPut(w, object)
    BY <1>3, <2>1 DEF Put, FailPut
  <2>3. ~Abandon(w)
    BY <1>3 DEF Abandon
  <2>4. PutHead(w)
    BY <2>2, <2>3
  <2> QED
    BY <1>3, <2>4 DEF PutHead
<1>4. PutHead(w) => IsComplete(writer[w], heads, store) /\ writer[w].head # Absent /\ writer[w].pending = {}
  BY DEF PutHead, ReadyForHead, WritersAreComplete
<1>5. HeadsAreComplete'
  <2> SUFFICES ASSUME NEW h \in HeadIds, Stored(h)'
               PROVE  Readable(h)' /\ (heads[h].parent # Absent => Stored(heads[h].parent))'
    BY DEF HeadsAreComplete
  <2>1. CASE Stored(h)
    BY <2>1, <1>1, <1>2 DEF HeadsAreComplete, Readable
  <2>2. CASE ~Stored(h)
    <3>1. Needed(h) \subseteq store /\ (heads[h].parent # Absent => Stored(heads[h].parent))
      BY <2>2, <1>3, <1>4 DEF IsComplete, Needed
    <3> QED
      BY <3>1, <1>1, <1>2 DEF Readable
  <2> QED
    BY <2>1, <2>2
<1>6. ASSUME NEW v \in Writers PROVE IsComplete(writer'[v], heads', store')
  <2>1. IsComplete(writer[v], heads', store')
    BY <1>1, CompletenessIsKept DEF WritersAreComplete
  <2>2. CASE writer'[v] \in {writer[v], Idle}
    BY <2>1, <2>2, NothingIsComplete
  <2>3. ASSUME NEW object \in Part, Put(w, object), v = w PROVE IsComplete(writer'[v], heads', store')
    <3>1. /\ writer'[w].head = writer[w].head /\ writer'[w].new = writer[w].new
          /\ writer'[w].pending = writer[w].pending \ {object}
      BY <2>3 DEF Put, StorageTypeOK, WriterRow
    <3>2. object \in store'
      BY <2>3 DEF Put
    <3> QED
      BY <2>1, <2>3, <3>1, <3>2 DEF IsComplete
  <2>4. writer'[v] \in {writer[v], Idle} \/ \E object \in Part : Put(w, object) /\ v = w
    BY DEF Put, FailPut, PutHead, Abandon, StorageTypeOK
  <2> QED
    BY <2>2, <2>3, <2>4
<1>7. WritersAreComplete'
  BY <1>6 DEF WritersAreComplete
<1>8. ProtectedHeadsAreStored'
  BY <1>1, ProtectionIsKept
<1>9. MarksAreClosed' /\ CandidatesAreUnmarked'
  BY <1>1, ScanIgnoresCommits
<1> QED
  BY <1>5, <1>7, <1>8, <1>9

\* A compare-and-swap that succeeds puts a stored head on the ref (SqliteRefStore.compareAndSwap).
LEMMA PublishIsSafe ==
    ASSUME StorageInvariant, NEW w \in Writers, Publish(w)
    PROVE  /\ HeadsAreComplete' /\ WritersAreComplete' /\ ProtectedHeadsAreStored'
           /\ MarksAreClosed' /\ CandidatesAreUnmarked'
<1> USE DEF StorageInvariant
<1>1. UNCHANGED <<heads, store, pinned, scan, backup>>
  BY DEF Publish
<1>2. HeadsAreComplete'
  BY <1>1 DEF HeadsAreComplete, Readable, Needed
<1>3. \A v \in Writers : writer'[v] \in {writer[v], Idle}
  BY DEF Publish, StorageTypeOK
<1>4. WritersAreComplete'
  BY <1>1, <1>3, NothingIsComplete DEF WritersAreComplete
<1>5. RefHeads' \subseteq RefHeads \cup {writer[w].head}
  BY DEF Publish, RefHeads, StorageTypeOK, WriterRow
<1>6. ProtectedHeadsAreStored'
  BY <1>1, <1>5 DEF Publish, ProtectedHeadsAreStored, ProtectedHeads
<1>7. MarksAreClosed' /\ CandidatesAreUnmarked'
  BY <1>1, ScanIgnoresCommits
<1> QED
  BY <1>2, <1>4, <1>6, <1>7

\* The database protects only what it protected before, a backup what it protects now
\* (SqliteRefStore, FileServiceBackup.createLatest).
LEMMA DatabaseIsSafe ==
    ASSUME StorageInvariant,
           BackUp \/ \E r, q \in Refs : Pin(r) \/ DeleteRef(r) \/ CreateRef(r, q)
    PROVE  /\ HeadsAreComplete' /\ WritersAreComplete' /\ ProtectedHeadsAreStored'
           /\ MarksAreClosed' /\ CandidatesAreUnmarked'
<1> USE DEF StorageInvariant
<1>1. UNCHANGED <<heads, store, writer, scan>>
  BY DEF Pin, DeleteRef, CreateRef, BackUp
<1>2. HeadsAreComplete'
  BY <1>1 DEF HeadsAreComplete, Readable, Needed
<1>3. WritersAreComplete'
  BY <1>1 DEF WritersAreComplete
<1>4. RefHeads' \subseteq RefHeads
  BY DEF Pin, DeleteRef, CreateRef, BackUp, RefHeads, StorageTypeOK
<1>5. (ProtectedHeads \cup backup)' \subseteq ProtectedHeads \cup backup
  BY <1>4 DEF Pin, DeleteRef, CreateRef, BackUp, RefHeads, ProtectedHeads
<1>6. ProtectedHeadsAreStored'
  BY <1>1, <1>5 DEF ProtectedHeadsAreStored
<1>7. MarksAreClosed' /\ CandidatesAreUnmarked'
  BY <1>1, ScanIgnoresCommits
<1> QED
  BY <1>2, <1>3, <1>6, <1>7

-----------------------------------------------------------------------------
\* The scan.

\* A scan changes nothing but its own variables.
LEMMA CommitsIgnoreTheScan ==
    ASSUME StorageInvariant, UNCHANGED <<heads, store, refs, pinned, writer, backup>>
    PROVE  HeadsAreComplete' /\ WritersAreComplete' /\ ProtectedHeadsAreStored'
<1> USE DEF StorageInvariant
<1>1. HeadsAreComplete'
  BY DEF HeadsAreComplete, Readable, Needed
<1>2. WritersAreComplete'
  BY DEF WritersAreComplete
<1>3. ProtectedHeadsAreStored'
  BY ProtectionIsKept
<1> QED
  BY <1>1, <1>2, <1>3

\* The scan starts with all that the database protects, ends with nothing, and lists when it has
\* no head left to mark (FileServiceGcScanner.scan).
LEMMA PhasesAreSafe ==
    ASSUME StorageInvariant, StartScan \/ StartList \/ EndScan
    PROVE  MarksAreClosed' /\ CandidatesAreUnmarked'
<1> USE DEF StorageInvariant
<1>1. UNCHANGED <<heads, store>> /\ \A h \in HeadIds : Needed(h)' = Needed(h)
  BY DEF StartScan, StartList, EndScan, Needed
<1>2. CASE StartScan
  <2>1. /\ scan'.phase = "mark" /\ scan'.from = ProtectedHeads /\ scan'.todo = ProtectedHeads
        /\ scan'.reachable = {} /\ scan'.candidates = {}
    BY <1>2 DEF StartScan, NoScan, Roots
  <2> QED
    BY <2>1, <1>1 DEF MarksAreClosed, CandidatesAreUnmarked, ProtectedHeadsAreStored
<1>3. CASE StartList
  <2>1. /\ scan.phase = "mark" /\ scan.todo = {} /\ scan'.phase = "list" /\ scan'.todo = {}
        /\ scan'.from = scan.from /\ scan'.reachable = scan.reachable
        /\ scan'.candidates = scan.candidates
    BY <1>3 DEF StartList, StorageTypeOK, ScanRow
  <2> QED
    BY <2>1, <1>1 DEF MarksAreClosed, CandidatesAreUnmarked
<1>4. CASE EndScan
  <2>1. /\ scan'.phase = "idle" /\ scan'.from = {} /\ scan'.todo = {}
        /\ scan'.reachable = {} /\ scan'.candidates = {}
    BY <1>4 DEF EndScan, NoScan
  <2> QED
    BY <2>1, <1>1 DEF MarksAreClosed, CandidatesAreUnmarked
<1> QED
  BY <1>2, <1>3, <1>4

\* A head is marked with all it needs, and its parent is marked or next
\* (FileServiceGcScanner.#markHeadHistory).
LEMMA MarkHeadIsSafe ==
    ASSUME StorageInvariant, NEW h \in HeadIds, MarkHead(h)
    PROVE  MarksAreClosed' /\ CandidatesAreUnmarked'
<1> USE DEF StorageInvariant
<1>1. UNCHANGED <<heads, store>> /\ \A x \in HeadIds : Needed(x)' = Needed(x)
  BY DEF MarkHead, Needed
<1>2. /\ scan.phase = "mark" /\ scan'.phase = "mark" /\ scan'.from = scan.from
      /\ scan'.candidates = scan.candidates
      /\ scan'.reachable = scan.reachable \cup ({<<"heads", h>>} \cup Needed(h))
      /\ scan'.todo = (scan.todo \ {h}) \cup NextHeads(h)
  BY DEF MarkHead, StorageTypeOK, ScanRow
<1>3. ASSUME NEW x \in HeadIds PROVE Marked(x)' <=> x = h \/ Marked(x)
  <2>1. <<"heads", x>> \notin Needed(h)
    BY ObjectsOfAHead DEF Part
  <2> QED
    BY <2>1, <1>2
<1>4. /\ Stored(h) /\ heads[h].parent \in HeadIds \cup {Absent}
      /\ heads[h].parent # Absent => Stored(heads[h].parent)
  <2>1. h \in scan.todo
    BY DEF MarkHead
  <2> QED
    BY <2>1 DEF MarksAreClosed, HeadsAreComplete, StorageTypeOK, HeadRow
<1>5. \A x \in HeadIds : x \in scan'.from \cup scan'.todo \/ Marked(x)' => Stored(x)'
  BY <1>1, <1>2, <1>3, <1>4 DEF MarksAreClosed, NextHeads
<1>6. \A x \in scan'.from : x \in scan'.todo \/ Marked(x)'
  <2>1. scan'.from \subseteq HeadIds
    BY <1>2 DEF StorageTypeOK, ScanRow
  <2> QED
    BY <2>1, <1>2, <1>3 DEF MarksAreClosed
<1>7. ASSUME NEW x \in HeadIds, Marked(x)'
      PROVE  /\ Needed(x) \subseteq scan'.reachable
             /\ \/ heads[x].parent = Absent
                \/ heads[x].parent \in scan'.todo
                \/ <<"heads", heads[x].parent>> \in scan'.reachable
  <2>1. CASE x = h
    BY <2>1, <1>2, <1>4 DEF NextHeads
  <2>2. CASE x # h
    <3>1. Marked(x)
      BY <2>2, <1>3, <1>7
    <3> QED
      BY <3>1, <1>2 DEF MarksAreClosed
  <2> QED
    BY <2>1, <2>2
<1>8. MarksAreClosed'
  BY <1>1, <1>5, <1>6, <1>7 DEF MarksAreClosed
<1>9. CandidatesAreUnmarked'
  BY <1>2 DEF CandidatesAreUnmarked
<1> QED
  BY <1>8, <1>9

\* What is listed as a candidate is not marked (FileServiceGcScanner.scan).
LEMMA ListKindIsSafe ==
    ASSUME StorageInvariant, NEW kind \in Kinds, ListKind(kind)
    PROVE  MarksAreClosed' /\ CandidatesAreUnmarked'
<1> USE DEF StorageInvariant
<1>1. UNCHANGED <<heads, store>> /\ \A h \in HeadIds : Needed(h)' = Needed(h)
  BY DEF ListKind, Needed
<1>2. /\ scan.phase = "list" /\ scan'.phase \in {"list", "report"} /\ scan'.from = scan.from
      /\ scan'.todo = scan.todo /\ scan'.reachable = scan.reachable
      /\ scan'.candidates = scan.candidates
            \cup {o \in store : o[1] = kind /\ o \notin scan.reachable}
  BY DEF ListKind, StorageTypeOK, ScanRow
<1> QED
  BY <1>1, <1>2 DEF MarksAreClosed, CandidatesAreUnmarked

-----------------------------------------------------------------------------
\* Theorems.

\* Genesis stores one complete head (genesisFileSystem.ts).
LEMMA GenesisIsSafe == StorageInit => StorageInvariant
<1> SUFFICES ASSUME StorageInit PROVE StorageInvariant
  OBVIOUS
<1>1. StorageTypeOK
  BY TypesAtGenesis
<1>2. \A h \in HeadIds : Needed(h) = OwnObjects(h) /\ heads[h].parent = Absent
  BY DEF StorageInit, NoRow, Needed, TreeObjects
<1>3. \A h \in HeadIds : Stored(h) => OwnObjects(h) \subseteq store
  BY DEF StorageInit, OwnObjects
<1>4. HeadsAreComplete
  BY <1>2, <1>3 DEF HeadsAreComplete, Readable
<1>5. WritersAreComplete
  BY NothingIsComplete DEF StorageInit, WritersAreComplete
<1>6. ProtectedHeadsAreStored
  BY DEF StorageInit, ProtectedHeadsAreStored, ProtectedHeads, RefHeads
<1>7. MarksAreClosed /\ CandidatesAreUnmarked
  BY DEF StorageInit, NoScan, MarksAreClosed, CandidatesAreUnmarked
<1> QED
  BY <1>1, <1>4, <1>5, <1>6, <1>7 DEF StorageInvariant

\* Every step keeps the invariant.
LEMMA StepsAreSafe == StorageInvariant /\ [StorageNext]_storageVars => StorageInvariant'
<1> SUFFICES ASSUME StorageInvariant, [StorageNext]_storageVars PROVE StorageInvariant'
  OBVIOUS
<1> DEFINE Rest == /\ HeadsAreComplete /\ WritersAreComplete /\ ProtectedHeadsAreStored
                   /\ MarksAreClosed /\ CandidatesAreUnmarked
<1>1. StorageTypeOK'
  BY TypesAreKept DEF StorageInvariant
<1>2. ASSUME NEW w \in Writers, NEW new \in SUBSET FileContents, Upload(w, new) PROVE Rest'
  BY <1>2, UploadIsSafe
<1>3. ASSUME NEW w \in Writers, NEW r \in Refs, NEW h \in HeadIds, Begin(w, r, h) PROVE Rest'
  BY <1>3, BeginIsSafe
<1>4. ASSUME NEW w \in Writers, \/ \E object \in Part : Put(w, object) \/ FailPut(w, object)
                               \/ PutHead(w) \/ Abandon(w)
      PROVE  Rest'
  BY <1>4, PutIsSafe
<1>5. ASSUME NEW w \in Writers, Publish(w) PROVE Rest'
  BY <1>5, PublishIsSafe
<1>6. ASSUME BackUp \/ \E r, q \in Refs : Pin(r) \/ DeleteRef(r) \/ CreateRef(r, q) PROVE Rest'
  BY <1>6, DatabaseIsSafe
<1>7. ASSUME StartScan \/ StartList \/ EndScan PROVE Rest'
  <2>1. UNCHANGED <<heads, store, refs, pinned, writer, backup>>
    BY <1>7 DEF StartScan, StartList, EndScan
  <2> QED
    BY <1>7, <2>1, PhasesAreSafe, CommitsIgnoreTheScan
<1>8. ASSUME NEW h \in HeadIds, MarkHead(h) PROVE Rest'
  <2>1. UNCHANGED <<heads, store, refs, pinned, writer, backup>>
    BY <1>8 DEF MarkHead
  <2> QED
    BY <1>8, <2>1, MarkHeadIsSafe, CommitsIgnoreTheScan
<1>9. ASSUME NEW kind \in Kinds, ListKind(kind) PROVE Rest'
  <2>1. UNCHANGED <<heads, store, refs, pinned, writer, backup>>
    BY <1>9 DEF ListKind
  <2> QED
    BY <1>9, <2>1, ListKindIsSafe, CommitsIgnoreTheScan
<1>10. ASSUME UNCHANGED storageVars PROVE Rest'
  <2>1. UNCHANGED <<heads, store, refs, pinned, writer, scan, backup>>
    BY <1>10 DEF storageVars
  <2> QED
    BY <2>1, CommitsIgnoreTheScan, ScanIgnoresCommits DEF StorageInvariant
<1>11. Rest'
  BY <1>2, <1>3, <1>4, <1>5, <1>6, <1>7, <1>8, <1>9, <1>10 DEF StorageNext
<1> QED
  BY <1>1, <1>11 DEF StorageInvariant

\* The storage invariant holds of every behaviour: complete heads, complete commits, stored
\* protection, and a scan that marks whole histories.
THEOREM StorageIsSafe == StorageSpec => []StorageInvariant
BY GenesisIsSafe, StepsAreSafe, PTL DEF StorageSpec

\* The values of the storage keep their types.
THEOREM StorageTypes == StorageSpec => []StorageTypeOK
<1>1. StorageInvariant => StorageTypeOK
  BY DEF StorageInvariant
<1> QED
  BY <1>1, StorageIsSafe, PTL

\* However many commits run, fail or stop beside each other, every head in the store can be read
\* with all its files and its history (FileSystemTransactions.#publish, FileContentStore).
THEOREM HeadsStayComplete == StorageSpec => []HeadsAreComplete
<1>1. StorageInvariant => HeadsAreComplete
  BY DEF StorageInvariant
<1> QED
  BY <1>1, StorageIsSafe, PTL

\* The refs, snapshots and Runs of the database, and of its last backup, can be read
\* (SqliteRefStore.listAllProtectedHeadFids, FileServiceBackup.createLatest).
THEOREM ProtectedHeadsStayReadable == StorageSpec => []ProtectedHeadsAreReadable
<1>1. StorageInvariant => ProtectedHeadsAreReadable
  <2> SUFFICES ASSUME StorageInvariant, NEW h \in ProtectedHeads \cup backup PROVE Readable(h)
    BY DEF ProtectedHeadsAreReadable
  <2>1. h \in HeadIds
    BY DEF StorageInvariant, StorageTypeOK, ProtectedHeads, RefHeads
  <2> QED
    BY <2>1 DEF StorageInvariant, ProtectedHeadsAreStored, HeadsAreComplete
<1> QED
  BY <1>1, StorageIsSafe, PTL

\* The garbage scan reports nothing that was reachable when it began, although commits put and
\* publish objects while it marks and lists (FileServiceGcScanner.scan).
THEOREM CandidatesStayGarbage == StorageSpec => []CandidatesAreGarbage
<1>1. StorageInvariant => CandidatesAreGarbage
  <2> SUFFICES ASSUME StorageInvariant, NEW h \in History(scan.from)
               PROVE  scan.candidates \cap ({<<"heads", h>>} \cup Needed(h)) = {}
    BY DEF CandidatesAreGarbage
  <2> USE DEF StorageInvariant
  <2>1. CASE scan.phase \in {"list", "report"}
    <3> DEFINE marks == {x \in HeadIds : Marked(x)}
    <3>1. scan.todo = {} /\ scan.from \subseteq marks
      BY <2>1 DEF CandidatesAreUnmarked, MarksAreClosed, StorageTypeOK, ScanRow
    <3>2. \A x \in marks : heads[x].parent \in marks \cup {Absent}
      <4>1. \A x \in HeadIds : heads[x].parent \in HeadIds \cup {Absent}
        BY DEF StorageTypeOK, HeadRow
      <4> QED
        BY <4>1, <3>1 DEF MarksAreClosed
    <3>3. h \in marks
      BY <3>1, <3>2 DEF History
    <3>4. <<"heads", h>> \in scan.reachable /\ Needed(h) \subseteq scan.reachable
      BY <3>3 DEF MarksAreClosed
    <3> QED
      BY <3>4 DEF CandidatesAreUnmarked
  <2>2. CASE scan.phase = "mark"
    BY <2>2 DEF CandidatesAreUnmarked
  <2>3. CASE scan.phase = "idle"
    <3>1. {} \in SUBSET HeadIds /\ scan.from \subseteq {}
      BY <2>3 DEF CandidatesAreUnmarked
    <3> QED
      BY <3>1 DEF History
  <2> QED
    BY <2>1, <2>2, <2>3 DEF StorageTypeOK, ScanRow
<1> QED
  BY <1>1, StorageIsSafe, PTL


-----------------------------------------------------------------------------
(* Installed applications: requests and their lock.                        *)

\* The files of what is installed.
FilesOfRecords ==
    \A a \in AppIds : records[a] # Nil =>
        VersionOf(a) # "absent" /\ (VersionOf(a) = "torn" => a \in late)

\* The parts of the inductive invariant.
LEMMA AppsParts ==
    /\ AppsInductive <=>
          AppsTypeOK /\ FilesOfRecords /\ RequestsAreInOrder /\ OnlyTheExpiredIsTorn
    /\ AppsInductive' <=>
          AppsTypeOK' /\ FilesOfRecords' /\ RequestsAreInOrder' /\ OnlyTheExpiredIsTorn'
BY DEF AppsInductive, InstalledAppHasFiles, OnlyALateInstallIsTorn, FilesOfRecords

\* A request that is not there, and one that failed.
LEMMA IdleRows ==
    /\ NewRequest \in RequestRows /\ [NewRequest EXCEPT !.step = "failed"] \in RequestRows
    /\ NewRequest.step = "none" /\ [NewRequest EXCEPT !.step = "failed"].step = "failed"
<1>1. NothingInstalled \in [AppIds -> Record \cup {Nil}]
  BY DEF NothingInstalled
<1> HIDE DEF NothingInstalled
<1> QED  BY <1>1 DEF NewRequest, RequestRows

\* The request that has the lock, or takes it, goes on: the others are idle.
LEMMA HolderGoesOn ==
    ASSUME AppsInductive, NEW r \in Requests, Busy(r) \/ LockIsFree,
           NEW row \in RequestRows, call' = [call EXCEPT ![r] = row],
           Busy(r)' => RequestIsInOrder(r)'
    PROVE  call' \in [Requests -> RequestRows] /\ RequestsAreInOrder'
<1>1. call \in [Requests -> RequestRows] /\ RequestsAreInOrder
  BY AppsParts DEF AppsTypeOK
<1>2. call' \in [Requests -> RequestRows] /\ \A q \in Requests \ {r} : call'[q] = call[q]
  BY <1>1
<1>3. \A q \in Requests \ {r} : ~Busy(q)
  BY <1>1 DEF RequestsAreInOrder, LockIsFree
<1>4. \A q \in Requests \ {r} : ~Busy(q)'
  BY <1>2, <1>3 DEF Busy
<1>5. RequestsAreInOrder'
  BY <1>4 DEF RequestsAreInOrder
<1> QED  BY <1>2, <1>5

\* The request that has the lock is answered.
LEMMA HolderEnds ==
    ASSUME AppsInductive, NEW r \in Requests, Busy(r) \/ LockIsFree, Done(r) \/ Fail(r)
    PROVE  call' \in [Requests -> RequestRows] /\ RequestsAreInOrder'
<1>1. PICK row \in RequestRows :
          call' = [call EXCEPT ![r] = row] /\ row.step \in {"none", "failed"}
  BY IdleRows DEF Done, Fail
<1>2. ~Busy(r)'
  BY <1>1, AppsParts DEF Busy, AppsTypeOK
<1> QED  BY <1>1, <1>2, HolderGoesOn

\* The request that has the lock gets to another step.
LEMMA HolderSteps ==
    ASSUME AppsInductive, NEW r \in Requests, Busy(r),
           NEW step \in {"move", "write", "undo", "consume", "trash"}, Goto(r, step)
    PROVE  /\ call'[r].step = step /\ call'[r].kind = call[r].kind /\ call'[r].app = call[r].app
           /\ call'[r].id = call[r].id /\ call'[r].from = call[r].from
           /\ call'[r].apps = call[r].apps
           /\ RequestIsInOrder(r)' => call' \in [Requests -> RequestRows] /\ RequestsAreInOrder'
<1> DEFINE row == [call[r] EXCEPT !.step = step]
<1>1. call \in [Requests -> RequestRows]
  BY AppsParts DEF AppsTypeOK
<1>2. /\ row \in RequestRows /\ row.step = step /\ row.kind = call[r].kind
      /\ row.app = call[r].app /\ row.id = call[r].id /\ row.from = call[r].from
      /\ row.apps = call[r].apps
  BY <1>1 DEF RequestRows
<1>3. call' = [call EXCEPT ![r] = row]
  BY <1>1 DEF Goto
<1> HIDE DEF row
<1>4. call'[r] = row
  BY <1>1, <1>3
<1>5. RequestIsInOrder(r)' => call' \in [Requests -> RequestRows] /\ RequestsAreInOrder'
  BY <1>2, <1>3, HolderGoesOn
<1> QED  BY <1>2, <1>4, <1>5

\* What is known of the request that has the lock.
LEMMA HolderKnows ==
    ASSUME AppsInductive, NEW r \in Requests, Busy(r)
    PROVE  /\ call[r] \in RequestRows /\ RequestIsInOrder(r) /\ call[r].app \in AppIds
           /\ records[call[r].app] \in Record \cup {Nil}
           /\ IsInstallOrUpdate(r) => Commit(r) \in Commits
BY AppsParts DEF AppsTypeOK, RequestRows, RequestsAreInOrder, RequestIsInOrder, Commit, Inspected

\* Files and staged directories stay when nothing is written.
LEMMA OnlyTheCallChanges ==
    ASSUME AppsInductive, UNCHANGED <<records, versions, staging, inspected, removing, late, expired>>
    PROVE  FilesOfRecords' /\ OnlyTheExpiredIsTorn' /\
           (call' \in [Requests -> RequestRows] => AppsTypeOK')
BY AppsParts DEF FilesOfRecords, VersionOf, OnlyTheExpiredIsTorn, AppsTypeOK

-----------------------------------------------------------------------------
(* Installed applications: inspections.                                    *)

\* When no request, record or file changes, the requests stay in order: what is
\* staged may only become less.
LEMMA RequestsStayInOrder ==
    ASSUME AppsInductive, UNCHANGED <<records, versions, call, late>>,
           \A n \in Inspections : staging[n] # "unused" => staging'[n] # "unused"
    PROVE  RequestsAreInOrder' /\ FilesOfRecords'
<1>1. RequestsAreInOrder /\ FilesOfRecords
  BY AppsParts
<1>2. \A r \in Requests : Busy(r)' <=> Busy(r)
  BY DEF Busy
<1>3. \A r \in Requests : RequestIsInOrder(r) => RequestIsInOrder(r)'
  BY DEF RequestIsInOrder, IsInstallOrUpdate, Accepts, FilesAreIn, Commit
<1> QED  BY <1>1, <1>2, <1>3 DEF RequestsAreInOrder, FilesOfRecords, VersionOf

\* An inspection that passes: its directory is whole.
LEMMA InspectIsSafe ==
    ASSUME AppsInductive, NEW n \in Inspections, NEW a \in AppIds, NEW c \in Commits, Inspect(n, a, c)
    PROVE  AppsInductive'
<1>1. AppsTypeOK /\ OnlyTheExpiredIsTorn
  BY AppsParts
<1>2. /\ staging[n] = "unused" /\ staging' = [staging EXCEPT ![n] = "whole"]
      /\ UNCHANGED <<records, versions, call, removing, late, expired>>
  BY DEF Inspect, Prepare
<1>3. PICK i \in Inspected : inspected' = [inspected EXCEPT ![n] = i]
  <2>1. ASSUME NEW operation \in {"install", "update"}
        PROVE  [app |-> a, commit |-> c, operation |-> operation] \in Inspected
    BY DEF Inspected
  <2> QED  BY <2>1 DEF Inspect
<1>4. AppsTypeOK'
  BY <1>1, <1>2, <1>3 DEF AppsTypeOK, Directory
<1>5. OnlyTheExpiredIsTorn'
  BY <1>1, <1>2, <1>3 DEF AppsTypeOK, OnlyTheExpiredIsTorn
<1>6. RequestsAreInOrder' /\ FilesOfRecords'
  BY <1>1, <1>2, RequestsStayInOrder DEF AppsTypeOK
<1> QED  BY <1>4, <1>5, <1>6, AppsParts

\* An inspection expires: what it staged may be torn from now on.
LEMMA ExpireIsSafe ==
    ASSUME AppsInductive, NEW n \in Inspections, Expire(n)
    PROVE  AppsInductive'
<1>1. AppsTypeOK /\ OnlyTheExpiredIsTorn
  BY AppsParts
<1>2. /\ expired' = expired \cup {n}
      /\ UNCHANGED <<records, versions, staging, inspected, call, removing, late>>
  BY DEF Expire
<1>3. AppsTypeOK' /\ OnlyTheExpiredIsTorn'
  BY <1>1, <1>2 DEF AppsTypeOK, OnlyTheExpiredIsTorn
<1>4. RequestsAreInOrder' /\ FilesOfRecords'
  BY <1>2, RequestsStayInOrder
<1> QED  BY <1>3, <1>4, AppsParts

\* What is removed has expired.
LEMMA CleanupExpiredIsSafe ==
    ASSUME AppsInductive, CleanupExpired
    PROVE  AppsInductive'
<1>1. AppsTypeOK /\ OnlyTheExpiredIsTorn
  BY AppsParts
<1>2. /\ inspected' = [n \in Inspections |-> IF n \in Expired THEN Nil ELSE inspected[n]]
      /\ removing' = removing \cup Expired
      /\ UNCHANGED <<records, versions, staging, call, late, expired>>
  BY DEF CleanupExpired
<1>3. Expired \subseteq expired
  BY DEF Expired, Valid
<1>4. AppsTypeOK' /\ OnlyTheExpiredIsTorn'
  BY <1>1, <1>2, <1>3 DEF AppsTypeOK, OnlyTheExpiredIsTorn
<1>5. RequestsAreInOrder' /\ FilesOfRecords'
  BY <1>2, RequestsStayInOrder
<1> QED  BY <1>4, <1>5, AppsParts

\* A removal tears the directory, or ends.
LEMMA RemoveStagingIsSafe ==
    ASSUME AppsInductive, NEW n \in Inspections, RemoveStaging(n)
    PROVE  AppsInductive'
<1>1. AppsTypeOK /\ OnlyTheExpiredIsTorn
  BY AppsParts
<1>2. /\ n \in removing /\ UNCHANGED <<records, versions, inspected, call, late, expired>>
      /\ \/ staging' = [staging EXCEPT ![n] = "torn"] /\ removing' = removing
         \/ staging' = [staging EXCEPT ![n] = "absent"] /\ removing' = removing \ {n}
  BY DEF RemoveStaging
<1>3. AppsTypeOK' /\ OnlyTheExpiredIsTorn'
  <2>1. CASE staging' = [staging EXCEPT ![n] = "torn"] /\ removing' = removing
    BY <1>1, <1>2, <2>1 DEF AppsTypeOK, OnlyTheExpiredIsTorn, Directory
  <2>2. CASE staging' = [staging EXCEPT ![n] = "absent"] /\ removing' = removing \ {n}
    BY <1>1, <1>2, <2>2 DEF AppsTypeOK, OnlyTheExpiredIsTorn, Directory
  <2> QED  BY <1>2, <2>1, <2>2
<1>4. RequestsAreInOrder' /\ FilesOfRecords'
  BY <1>1, <1>2, RequestsStayInOrder DEF AppsTypeOK
<1> QED  BY <1>3, <1>4, AppsParts

-----------------------------------------------------------------------------
(* Installed applications: operations under the lock.                      *)

\* get takes the lock, or fails at once.
LEMMA UseInspectionIsSafe ==
    ASSUME AppsInductive, NEW r \in Requests, NEW n \in Inspections,
           NEW kind \in {"install", "update"}, UseInspection(r, n, kind)
    PROVE  AppsInductive'
<1>1. AppsTypeOK /\ FilesOfRecords /\ OnlyTheExpiredIsTorn
  BY AppsParts
<1>2. /\ LockIsFree /\ inspected[n] # Nil
      /\ UNCHANGED <<records, versions, staging, removing, late, expired>>
  BY DEF UseInspection
<1>3. inspected[n] \in Inspected /\ inspected[n].app \in AppIds
  BY <1>1, <1>2 DEF AppsTypeOK, Inspected
<1>4. call' \in [Requests -> RequestRows] /\ RequestsAreInOrder'
  <2> DEFINE row == [NewRequest EXCEPT !.kind = kind, !.app = inspected[n].app, !.id = n,
                                       !.from = inspected[n], !.step = "read"]
  <2>1. CASE call' = [call EXCEPT ![r] = row]
    <3>1. row \in RequestRows
      BY <1>3, IdleRows DEF RequestRows
    <3>2. /\ row.kind = kind /\ row.step = "read" /\ row.app = inspected[n].app
          /\ row.id = n /\ row.from = inspected[n]
      BY IdleRows DEF RequestRows
    <3> HIDE DEF row
    <3>3. call'[r] = row
      BY <1>1, <2>1 DEF AppsTypeOK
    <3>4. RequestIsInOrder(r)'
      BY <1>1, <1>2, <1>3, <3>2, <3>3 DEF RequestIsInOrder, OnlyTheExpiredIsTorn
    <3> QED  BY <1>2, <2>1, <3>1, <3>4, HolderGoesOn
  <2>2. CASE Fail(r)
    BY <1>2, <2>2, HolderEnds
  <2> QED  BY <2>1, <2>2 DEF UseInspection
<1>5. inspected' \in [Inspections -> Inspected \cup {Nil}]
      /\ \A m \in Inspections : inspected'[m] # Nil => inspected[m] # Nil
  BY <1>1 DEF UseInspection, AppsTypeOK
<1>6. AppsTypeOK'
  BY <1>1, <1>2, <1>4, <1>5 DEF AppsTypeOK
<1>7. FilesOfRecords' /\ OnlyTheExpiredIsTorn'
  BY <1>1, <1>2, <1>5 DEF FilesOfRecords, VersionOf, OnlyTheExpiredIsTorn
<1> QED  BY <1>4, <1>6, <1>7, AppsParts

\* A patch or an uninstall takes the lock.
LEMMA UseRecordIsSafe ==
    ASSUME AppsInductive, NEW r \in Requests, NEW a \in AppIds,
           NEW kind \in {"patch", "uninstall"}, UseRecord(r, a, kind)
    PROVE  AppsInductive'
<1> DEFINE row == [NewRequest EXCEPT !.kind = kind, !.app = a, !.step = "read"]
<1>1. /\ LockIsFree /\ call' = [call EXCEPT ![r] = row]
      /\ UNCHANGED <<records, versions, staging, inspected, removing, late, expired>>
  BY DEF UseRecord
<1>2. row \in RequestRows /\ row.kind = kind /\ row.step = "read" /\ row.app = a
  BY IdleRows DEF RequestRows
<1> HIDE DEF row
<1>3. call'[r] = row
  BY <1>1, AppsParts DEF AppsTypeOK
<1>4. RequestIsInOrder(r)'
  BY <1>2, <1>3 DEF RequestIsInOrder, IsInstallOrUpdate
<1>5. call' \in [Requests -> RequestRows] /\ RequestsAreInOrder'
  BY <1>1, <1>2, <1>4, HolderGoesOn
<1> QED  BY <1>1, <1>5, OnlyTheCallChanges, AppsParts

\* The state file is read.
LEMMA ReadRecordsIsSafe ==
    ASSUME AppsInductive, NEW r \in Requests, ReadRecords(r)
    PROVE  AppsInductive'
<1>1. /\ call[r].step = "read" /\ Busy(r)
      /\ UNCHANGED <<records, versions, staging, inspected, removing, late, expired>>
  BY DEF ReadRecords, Busy
<1>2. call[r] \in RequestRows /\ RequestIsInOrder(r)
  BY <1>1, HolderKnows
<1>3. call' \in [Requests -> RequestRows] /\ RequestsAreInOrder'
  <2>1. CASE Accepts(r, records[call[r].app])
    <3> DEFINE row == [call[r] EXCEPT !.step = IF IsInstallOrUpdate(r) THEN "move" ELSE "write",
                                      !.apps = records]
    <3>1. /\ row \in RequestRows /\ row.kind = call[r].kind /\ row.app = call[r].app
          /\ row.id = call[r].id /\ row.from = call[r].from /\ row.apps = records
          /\ row.step = IF IsInstallOrUpdate(r) THEN "move" ELSE "write"
      BY <1>2, AppsParts DEF RequestRows, AppsTypeOK
    <3>2. call' = [call EXCEPT ![r] = row]
      BY <2>1, AppsParts DEF ReadRecords, AppsTypeOK
    <3> HIDE DEF row
    <3>3. call'[r] = row
      BY <3>2, AppsParts DEF AppsTypeOK
    <3>4. RequestIsInOrder(r)'
      BY <1>1, <1>2, <2>1, <3>1, <3>3
         DEF RequestIsInOrder, IsInstallOrUpdate, Accepts, Commit
    <3> QED  BY <1>1, <3>1, <3>2, <3>4, HolderGoesOn
  <2>2. CASE Fail(r)
    BY <1>1, <2>2, HolderEnds
  <2> QED  BY <2>1, <2>2 DEF ReadRecords
<1> QED  BY <1>1, <1>3, OnlyTheCallChanges, AppsParts

\* The directory is moved in place, where there was none.
LEMMA MoveFilesIsSafe ==
    ASSUME AppsInductive, NEW r \in Requests, MoveFiles(r)
    PROVE  AppsInductive'
<1> DEFINE a == call[r].app
           n == call[r].id
           c == Commit(r)
<1>1. /\ call[r].step = "move" /\ Busy(r) /\ UNCHANGED <<records, inspected, removing, expired>>
      /\ \/ /\ staging[n] # "absent" /\ versions[a][c] = "absent"
            /\ versions' = [versions EXCEPT ![a][c] = staging[n]]
            /\ staging' = [staging EXCEPT ![n] = "absent"]
            /\ late' = IF n \in expired THEN late \cup {a} ELSE late
            /\ Goto(r, "write")
         \/ Fail(r) /\ UNCHANGED <<versions, staging, late>>
  BY DEF MoveFiles, Busy
<1>2. /\ RequestIsInOrder(r) /\ IsInstallOrUpdate(r) /\ a \in AppIds /\ c \in Commits
      /\ n \in Inspections /\ staging[n] # "unused"
      /\ AppsTypeOK /\ FilesOfRecords /\ OnlyTheExpiredIsTorn
  BY <1>1, HolderKnows, AppsParts DEF RequestIsInOrder
<1>3. CASE Fail(r) /\ UNCHANGED <<versions, staging, late>>
  <2>1. call' \in [Requests -> RequestRows] /\ RequestsAreInOrder'
    BY <1>1, <1>3, HolderEnds
  <2> QED  BY <1>1, <1>3, <2>1, OnlyTheCallChanges, AppsParts
<1>4. CASE /\ staging[n] # "absent" /\ versions[a][c] = "absent"
           /\ versions' = [versions EXCEPT ![a][c] = staging[n]]
           /\ staging' = [staging EXCEPT ![n] = "absent"]
           /\ late' = IF n \in expired THEN late \cup {a} ELSE late
           /\ Goto(r, "write")
  <2>1. staging[n] \in Directory \ {"absent"} /\ (staging[n] = "torn" => n \in expired)
    BY <1>2, <1>4 DEF AppsTypeOK, OnlyTheExpiredIsTorn
  <2>2. /\ versions' \in [AppIds -> [Commits -> Directory]]
        /\ versions'[a][c] = staging[n]
        /\ \A b \in AppIds, d \in Commits : b # a \/ d # c => versions'[b][d] = versions[b][d]
    BY <1>2, <1>4, <2>1 DEF AppsTypeOK
  <2>3. /\ staging' \in [Inspections -> Directory \cup {"unused"}]
        /\ staging'[n] = "absent" /\ \A m \in Inspections \ {n} : staging'[m] = staging[m]
        /\ late' \subseteq AppIds /\ late \subseteq late' /\ (n \in expired => a \in late')
    BY <1>2, <1>4 DEF AppsTypeOK, Directory
  <2>4. /\ call'[r].step = "write" /\ call'[r].kind = call[r].kind /\ call'[r].app = a
        /\ call'[r].id = n /\ call'[r].from = call[r].from /\ call'[r].apps = call[r].apps
    BY <1>1, <1>4, HolderSteps
  <2>5. FilesAreIn(r)'
    BY <2>1, <2>2, <2>3, <2>4 DEF FilesAreIn, Commit
  <2>6. RequestIsInOrder(r)'
    BY <1>1, <1>2, <2>3, <2>4, <2>5 DEF RequestIsInOrder, IsInstallOrUpdate, Accepts, Commit
  <2>7. call' \in [Requests -> RequestRows] /\ RequestsAreInOrder'
    BY <1>1, <1>4, <2>6, HolderSteps
  <2>8. AppsTypeOK'
    BY <1>1, <1>2, <2>2, <2>3, <2>7 DEF AppsTypeOK
  <2>9. FilesOfRecords'
    BY <1>1, <1>2, <2>1, <2>2, <2>3 DEF FilesOfRecords, VersionOf, AppsTypeOK, Record
  <2>10. OnlyTheExpiredIsTorn'
    BY <1>1, <1>2, <2>3 DEF OnlyTheExpiredIsTorn
  <2> QED  BY <2>7, <2>8, <2>9, <2>10, AppsParts
<1> QED  BY <1>1, <1>3, <1>4

\* The record that is written is of a version that is there.
LEMMA NewRecordsAreSafe ==
    ASSUME AppsInductive, NEW r \in Requests, call[r].step = "write",
           NEW record \in NewRecords(r)
    PROVE  /\ record \in Record \cup {Nil}
           /\ record # Nil => /\ versions[call[r].app][record.commit] # "absent"
                              /\ versions[call[r].app][record.commit] = "torn" => call[r].app \in late
           /\ call[r].kind = "uninstall" => record = Nil
<1> DEFINE a == call[r].app
           old == records[a]
<1>1. /\ call[r] \in RequestRows /\ RequestIsInOrder(r) /\ a \in AppIds
      /\ IsInstallOrUpdate(r) => Commit(r) \in Commits
  BY HolderKnows DEF Busy
<1>2. call[r].apps[a] = old /\ Accepts(r, old) /\ (IsInstallOrUpdate(r) => FilesAreIn(r))
  BY <1>1 DEF RequestIsInOrder
<1>3. old \in Record \cup {Nil}
  BY <1>1, AppsParts DEF AppsTypeOK
<1>4. old # Nil => /\ versions[a][old.commit] # "absent"
                   /\ versions[a][old.commit] = "torn" => a \in late
  BY <1>1, AppsParts DEF FilesOfRecords, VersionOf
<1>5. CASE call[r].kind = "install"
  <2>1. record = [commit |-> Commit(r), status |-> "active"]
    BY <1>5 DEF NewRecords
  <2>2. record.commit = Commit(r) /\ record \in Record
    BY <1>1, <1>5, <2>1 DEF IsInstallOrUpdate, Record
  <2> QED  BY <1>2, <1>5, <2>2 DEF IsInstallOrUpdate, FilesAreIn
<1>6. CASE call[r].kind = "update"
  <2>1. record = [old EXCEPT !.commit = Commit(r)] /\ old \in Record
    BY <1>2, <1>3, <1>6 DEF NewRecords, Accepts
  <2>2. record.commit = Commit(r) /\ record \in Record
    BY <1>1, <1>6, <2>1 DEF IsInstallOrUpdate, Record
  <2> QED  BY <1>2, <1>6, <2>2 DEF IsInstallOrUpdate, FilesAreIn
<1>7. CASE call[r].kind = "patch"
  <2>1. old \in Record /\ old # Nil
    BY <1>2, <1>3, <1>7 DEF Accepts
  <2>2. PICK status \in {"active", "disabled"} : record = [old EXCEPT !.status = status]
    BY <1>2, <1>7 DEF NewRecords
  <2>3. record.commit = old.commit /\ record \in Record
    BY <2>1, <2>2 DEF Record
  <2> QED  BY <1>4, <1>7, <2>1, <2>3
<1>8. CASE call[r].kind = "uninstall"
  BY <1>8 DEF NewRecords
<1> QED  BY <1>1, <1>5, <1>6, <1>7, <1>8 DEF RequestRows

\* The state file is replaced, or the files go again.
LEMMA WriteRecordsIsSafe ==
    ASSUME AppsInductive, NEW r \in Requests, WriteRecords(r)
    PROVE  AppsInductive'
<1> DEFINE a == call[r].app
           c == Commit(r)
<1>1. /\ call[r].step = "write" /\ Busy(r) /\ UNCHANGED <<staging, inspected, removing, late, expired>>
  BY DEF WriteRecords, Busy
<1>2. /\ RequestIsInOrder(r) /\ a \in AppIds /\ call[r].apps = records /\ Accepts(r, records[a])
      /\ IsInstallOrUpdate(r) => c \in Commits
      /\ call[r].kind \in {"install", "update", "patch", "uninstall"}
      /\ AppsTypeOK /\ FilesOfRecords /\ OnlyTheExpiredIsTorn
  BY <1>1, HolderKnows, AppsParts DEF RequestIsInOrder, RequestRows
<1>3. OnlyTheExpiredIsTorn'
  BY <1>1, <1>2 DEF OnlyTheExpiredIsTorn
<1>4. ASSUME NEW record \in NewRecords(r), records' = [call[r].apps EXCEPT ![a] = record],
             CASE IsInstallOrUpdate(r) -> Goto(r, "consume")
               [] call[r].kind = "patch" -> Done(r)
               [] OTHER -> Goto(r, "trash"),
             UNCHANGED versions
      PROVE  AppsInductive'
  <2>1. /\ record \in Record \cup {Nil}
        /\ record # Nil => /\ versions[a][record.commit] # "absent"
                           /\ versions[a][record.commit] = "torn" => a \in late
        /\ call[r].kind = "uninstall" => record = Nil
    BY <1>1, NewRecordsAreSafe
  <2>2. /\ records' \in [AppIds -> Record \cup {Nil}] /\ records'[a] = record
        /\ \A b \in AppIds \ {a} : records'[b] = records[b]
    BY <1>2, <1>4, <2>1 DEF AppsTypeOK
  <2>3. FilesOfRecords'
    BY <1>1, <1>2, <1>4, <2>1, <2>2 DEF FilesOfRecords, VersionOf
  <2>4. call' \in [Requests -> RequestRows] /\ RequestsAreInOrder'
    <3>1. CASE IsInstallOrUpdate(r)
      <4>1. Goto(r, "consume")
        BY <1>4, <3>1 DEF IsInstallOrUpdate
      <4>2. /\ call'[r].step = "consume" /\ call'[r].kind = call[r].kind /\ call'[r].app = a
            /\ call'[r].id = call[r].id /\ call'[r].from = call[r].from
        BY <1>1, <4>1, HolderSteps
      <4>3. RequestIsInOrder(r)'
        BY <1>1, <1>2, <3>1, <4>2 DEF RequestIsInOrder, IsInstallOrUpdate
      <4> QED  BY <1>1, <4>1, <4>3, HolderSteps
    <3>2. CASE call[r].kind = "patch"
      <4>1. Done(r)
        BY <1>4, <3>2 DEF IsInstallOrUpdate
      <4> QED  BY <1>1, <4>1, HolderEnds
    <3>3. CASE call[r].kind = "uninstall"
      <4>1. Goto(r, "trash")
        BY <1>4, <3>3 DEF IsInstallOrUpdate
      <4>2. call'[r].step = "trash" /\ call'[r].kind = call[r].kind /\ call'[r].app = a
        BY <1>1, <4>1, HolderSteps
      <4>3. RequestIsInOrder(r)'
        BY <1>2, <2>1, <2>2, <3>3, <4>2 DEF RequestIsInOrder, IsInstallOrUpdate
      <4> QED  BY <1>1, <4>1, <4>3, HolderSteps
    <3> QED  BY <1>2, <3>1, <3>2, <3>3 DEF IsInstallOrUpdate
  <2>5. AppsTypeOK'
    BY <1>1, <1>2, <1>4, <2>2, <2>4 DEF AppsTypeOK
  <2> QED  BY <1>3, <2>3, <2>4, <2>5, AppsParts
<1>5. ASSUME IsInstallOrUpdate(r), versions' = [versions EXCEPT ![a][c] = "torn"],
             Goto(r, "undo"), UNCHANGED records
      PROVE  AppsInductive'
  <2>1. records[a] = Nil \/ records[a].commit # c
    BY <1>2, <1>5 DEF Accepts, IsInstallOrUpdate
  <2>2. /\ versions' \in [AppIds -> [Commits -> Directory]]
        /\ \A b \in AppIds, d \in Commits : b # a \/ d # c => versions'[b][d] = versions[b][d]
    BY <1>2, <1>5 DEF AppsTypeOK, Directory
  <2>3. FilesOfRecords'
    BY <1>1, <1>2, <1>5, <2>1, <2>2 DEF FilesOfRecords, VersionOf, AppsTypeOK, Record
  <2>4. /\ call'[r].step = "undo" /\ call'[r].kind = call[r].kind /\ call'[r].app = a
        /\ call'[r].id = call[r].id /\ call'[r].from = call[r].from
    BY <1>1, <1>5, HolderSteps
  <2>5. RequestIsInOrder(r)'
    BY <1>1, <1>2, <1>5, <2>1, <2>4 DEF RequestIsInOrder, IsInstallOrUpdate, Commit
  <2>6. call' \in [Requests -> RequestRows] /\ RequestsAreInOrder'
    BY <1>1, <1>5, <2>5, HolderSteps
  <2>7. AppsTypeOK'
    BY <1>1, <1>2, <1>5, <2>2, <2>6 DEF AppsTypeOK
  <2> QED  BY <1>3, <2>3, <2>6, <2>7, AppsParts
<1>6. ASSUME Fail(r), UNCHANGED <<versions, records>>
      PROVE  AppsInductive'
  <2>1. call' \in [Requests -> RequestRows] /\ RequestsAreInOrder'
    BY <1>1, <1>6, HolderEnds
  <2> QED  BY <1>1, <1>6, <2>1, OnlyTheCallChanges, AppsParts
<1> QED  BY <1>4, <1>5, <1>6 DEF WriteRecords

\* The directory that goes is not the one of the record.
LEMMA RemoveVersionIsSafe ==
    ASSUME AppsInductive, NEW r \in Requests, RemoveVersion(r)
    PROVE  AppsInductive'
<1> DEFINE a == call[r].app
           c == Commit(r)
<1>1. /\ call[r].step = "undo" /\ Busy(r) /\ Fail(r)
      /\ versions' = [versions EXCEPT ![a][c] = "absent"]
      /\ UNCHANGED <<records, staging, inspected, removing, late, expired>>
  BY DEF RemoveVersion, Busy
<1>2. /\ a \in AppIds /\ c \in Commits /\ (records[a] = Nil \/ records[a].commit # c)
      /\ AppsTypeOK /\ FilesOfRecords /\ OnlyTheExpiredIsTorn
  BY <1>1, HolderKnows, AppsParts DEF RequestIsInOrder
<1>3. call' \in [Requests -> RequestRows] /\ RequestsAreInOrder'
  BY <1>1, HolderEnds
<1>4. /\ versions' \in [AppIds -> [Commits -> Directory]]
      /\ \A b \in AppIds, d \in Commits : b # a \/ d # c => versions'[b][d] = versions[b][d]
  BY <1>1, <1>2 DEF AppsTypeOK, Directory
<1>5. AppsTypeOK' /\ OnlyTheExpiredIsTorn'
  BY <1>1, <1>2, <1>3, <1>4 DEF AppsTypeOK, OnlyTheExpiredIsTorn
<1>6. FilesOfRecords'
  BY <1>1, <1>2, <1>4 DEF FilesOfRecords, VersionOf, AppsTypeOK, Record
<1> QED  BY <1>3, <1>5, <1>6, AppsParts

\* The inspection is forgotten, and what is left of its directory with it.
LEMMA ConsumeIsSafe ==
    ASSUME AppsInductive, NEW r \in Requests, Consume(r)
    PROVE  AppsInductive'
<1> DEFINE n == call[r].id
<1>1. /\ call[r].step = "consume" /\ Busy(r) /\ (Done(r) \/ Fail(r))
      /\ inspected' = [inspected EXCEPT ![n] = Nil]
      /\ staging' = [staging EXCEPT ![n] = "absent"] \/ staging' = staging
      /\ UNCHANGED <<records, versions, removing, late, expired>>
  BY DEF Consume, Busy
<1>2. AppsTypeOK /\ FilesOfRecords /\ OnlyTheExpiredIsTorn
  BY AppsParts
<1>3. call' \in [Requests -> RequestRows] /\ RequestsAreInOrder'
  BY <1>1, HolderEnds
<1>4. /\ inspected' \in [Inspections -> Inspected \cup {Nil}]
      /\ \A m \in Inspections : inspected'[m] # Nil => inspected[m] # Nil
  BY <1>1, <1>2 DEF AppsTypeOK
<1>5. /\ staging' \in [Inspections -> Directory \cup {"unused"}]
      /\ \A m \in Inspections : staging'[m] = "absent" \/ staging'[m] = staging[m]
  BY <1>1, <1>2 DEF AppsTypeOK, Directory
<1>6. AppsTypeOK' /\ OnlyTheExpiredIsTorn'
  BY <1>1, <1>2, <1>3, <1>4, <1>5 DEF AppsTypeOK, OnlyTheExpiredIsTorn
<1>7. FilesOfRecords'
  BY <1>1, <1>2 DEF FilesOfRecords, VersionOf
<1> QED  BY <1>3, <1>6, <1>7, AppsParts

\* What goes to the trash is of no record.
LEMMA MoveToTrashIsSafe ==
    ASSUME AppsInductive, NEW r \in Requests, MoveToTrash(r)
    PROVE  AppsInductive'
<1> DEFINE a == call[r].app
<1>1. /\ call[r].step = "trash" /\ Busy(r) /\ Done(r)
      /\ UNCHANGED <<records, staging, inspected, removing, late, expired>>
      /\ \/ versions' = [versions EXCEPT ![a] = [c \in Commits |-> "absent"]]
         \/ versions' = versions
  BY DEF MoveToTrash, Busy
<1>2. a \in AppIds /\ records[a] = Nil /\ AppsTypeOK /\ FilesOfRecords /\ OnlyTheExpiredIsTorn
  BY <1>1, HolderKnows, AppsParts DEF RequestIsInOrder
<1>3. call' \in [Requests -> RequestRows] /\ RequestsAreInOrder'
  BY <1>1, HolderEnds
<1>4. /\ versions' \in [AppIds -> [Commits -> Directory]]
      /\ \A b \in AppIds \ {a} : versions'[b] = versions[b]
  BY <1>1, <1>2 DEF AppsTypeOK, Directory
<1>5. AppsTypeOK' /\ OnlyTheExpiredIsTorn'
  BY <1>1, <1>2, <1>3, <1>4 DEF AppsTypeOK, OnlyTheExpiredIsTorn
<1>6. FilesOfRecords'
  BY <1>1, <1>2, <1>4 DEF FilesOfRecords, VersionOf
<1> QED  BY <1>3, <1>5, <1>6, AppsParts

\* The server stops and starts at any point of an operation.
LEMMA AppsRestartIsSafe ==
    ASSUME AppsInductive, Restart
    PROVE  AppsInductive'
<1>1. /\ call' = [r \in Requests |-> NewRequest] /\ removing' = {}
      /\ inspected' = [n \in Inspections |-> Nil]
      /\ UNCHANGED <<records, versions, staging, late, expired>>
  BY DEF Restart
<1>2. AppsTypeOK /\ FilesOfRecords /\ OnlyTheExpiredIsTorn
  BY AppsParts
<1>3. RequestsAreInOrder'
  BY <1>1, IdleRows DEF RequestsAreInOrder, Busy
<1>4. AppsTypeOK' /\ OnlyTheExpiredIsTorn' /\ FilesOfRecords'
  BY <1>1, <1>2, IdleRows DEF AppsTypeOK, OnlyTheExpiredIsTorn, FilesOfRecords, VersionOf
<1> QED  BY <1>3, <1>4, AppsParts

-----------------------------------------------------------------------------
(* Installed applications: the theorems.                                   *)

\* Nothing is installed at first.
LEMMA AppsInitHolds == InstalledAppsInit => AppsInductive
<1> SUFFICES ASSUME InstalledAppsInit PROVE AppsInductive
  OBVIOUS
<1>1. AppsTypeOK
  BY IdleRows DEF InstalledAppsInit, AppsTypeOK, NothingInstalled, Directory
<1>2. FilesOfRecords /\ RequestsAreInOrder /\ OnlyTheExpiredIsTorn
  BY IdleRows DEF InstalledAppsInit, NothingInstalled, FilesOfRecords, RequestsAreInOrder, Busy,
     OnlyTheExpiredIsTorn
<1> QED  BY <1>1, <1>2, AppsParts

\* Every step keeps the inductive invariant.
LEMMA AppsStepHolds == AppsInductive /\ [InstalledAppsNext]_appVars => AppsInductive'
<1> SUFFICES ASSUME AppsInductive, [InstalledAppsNext]_appVars PROVE AppsInductive'
  OBVIOUS
<1>1. CASE UNCHANGED appVars
  <2>1. AppsTypeOK' /\ RequestsAreInOrder' /\ FilesOfRecords' /\ OnlyTheExpiredIsTorn'
    BY <1>1, RequestsStayInOrder, OnlyTheCallChanges, AppsParts DEF appVars, AppsTypeOK
  <2> QED  BY <2>1, AppsParts
<1>2. ASSUME NEW n \in Inspections, NEW a \in AppIds, NEW c \in Commits, Inspect(n, a, c)
      PROVE  AppsInductive'
  BY <1>2, InspectIsSafe
<1>3. ASSUME NEW n \in Inspections, Expire(n) \/ RemoveStaging(n)
      PROVE  AppsInductive'
  BY <1>3, ExpireIsSafe, RemoveStagingIsSafe
<1>4. ASSUME NEW r \in Requests, NEW n \in Inspections, NEW kind \in {"install", "update"},
             UseInspection(r, n, kind)
      PROVE  AppsInductive'
  BY <1>4, UseInspectionIsSafe
<1>5. ASSUME NEW r \in Requests, NEW a \in AppIds, NEW kind \in {"patch", "uninstall"},
             UseRecord(r, a, kind)
      PROVE  AppsInductive'
  BY <1>5, UseRecordIsSafe
<1>6. ASSUME NEW r \in Requests,
             \/ ReadRecords(r) \/ MoveFiles(r) \/ WriteRecords(r) \/ RemoveVersion(r)
             \/ Consume(r) \/ MoveToTrash(r)
      PROVE  AppsInductive'
  BY <1>6, ReadRecordsIsSafe, MoveFilesIsSafe, WriteRecordsIsSafe, RemoveVersionIsSafe,
     ConsumeIsSafe, MoveToTrashIsSafe
<1> QED  BY <1>1, <1>2, <1>3, <1>4, <1>5, <1>6, CleanupExpiredIsSafe, AppsRestartIsSafe
            DEF InstalledAppsNext

\* The inductive invariant holds of every behaviour.
THEOREM AppsInductiveHolds == InstalledAppsSpec => []AppsInductive
BY AppsInitHolds, AppsStepHolds, PTL DEF InstalledAppsSpec

\* An installed application has the directory of its commit, after any failure
\* or restart (AppService install, update, uninstall).
THEOREM InstalledAppHasFilesHolds == InstalledAppsSpec => []InstalledAppHasFiles
<1>1. AppsInductive => InstalledAppHasFiles
  BY DEF AppsInductive
<1> QED  BY <1>1, AppsInductiveHolds, PTL

\* No file of it is missing, unless it was moved in after its inspection had
\* expired (AppService, InspectionService.cleanupExpired).
THEOREM OnlyALateInstallIsTornHolds == InstalledAppsSpec => []OnlyALateInstallIsTorn
<1>1. AppsInductive => OnlyALateInstallIsTorn
  BY DEF AppsInductive
<1> QED  BY <1>1, AppsInductiveHolds, PTL

\* A record that changes in a step is the one of the operation that steps.
RecordsOfTheCall ==
    \A a \in AppIds : records'[a] # records[a] =>
        \E r \in Requests : call[r].app = a /\ call'[r].step # call[r].step

\* Only WriteRecords changes records, and one of them.
LEMMA OneRecordChanges ==
    AppsInductive /\ [InstalledAppsNext]_appVars => [RecordsOfTheCall]_appVars
<1> SUFFICES ASSUME AppsInductive, InstalledAppsNext PROVE RecordsOfTheCall
  OBVIOUS
<1>1. CASE records' = records
  BY <1>1 DEF RecordsOfTheCall
<1>2. ASSUME NEW r \in Requests, WriteRecords(r) PROVE RecordsOfTheCall
  <2>1. CASE records' = records
    BY <2>1 DEF RecordsOfTheCall
  <2>2. CASE \E record \in NewRecords(r) : records' = [call[r].apps EXCEPT ![call[r].app] = record]
    <3>1. /\ call[r].step = "write" /\ Busy(r)
          /\ Goto(r, "consume") \/ Goto(r, "trash") \/ Done(r) \/ Goto(r, "undo") \/ Fail(r)
      BY <1>2 DEF WriteRecords, Busy
    <3>2. call[r].apps = records /\ records \in [AppIds -> Record \cup {Nil}]
      BY <3>1, HolderKnows, AppsParts DEF RequestIsInOrder, AppsTypeOK
    <3>3. \A a \in AppIds : a # call[r].app => records'[a] = records[a]
      BY <2>2, <3>2
    <3>4. call'[r].step # "write"
      <4>1. CASE Done(r) \/ Fail(r)
        BY <4>1, IdleRows, AppsParts DEF Done, Fail, AppsTypeOK
      <4>2. CASE Goto(r, "consume") \/ Goto(r, "trash") \/ Goto(r, "undo")
        BY <3>1, <4>2, HolderSteps
      <4> QED  BY <3>1, <4>1, <4>2
    <3> QED  BY <3>1, <3>3, <3>4 DEF RecordsOfTheCall
  <2> QED  BY <1>2, <2>1, <2>2 DEF WriteRecords
<1>3. records' = records \/ \E r \in Requests : WriteRecords(r)
  BY DEF InstalledAppsNext, Inspect, CleanupExpired, Expire, RemoveStaging, UseInspection,
     UseRecord, ReadRecords, MoveFiles, RemoveVersion, Consume, MoveToTrash, Restart
<1> QED  BY <1>1, <1>2, <1>3

\* An operation writes the whole state file, and the record of no other
\* application is lost (OperationLock).
THEOREM OtherRecordsAreKeptHolds == InstalledAppsSpec => OtherRecordsAreKept
<1>1. InstalledAppsSpec => [][RecordsOfTheCall]_appVars
  BY AppsInitHolds, AppsStepHolds, OneRecordChanges, PTL DEF InstalledAppsSpec
<1> QED  BY <1>1 DEF OtherRecordsAreKept, RecordsOfTheCall

-----------------------------------------------------------------------------
(* The three parts in one run.                                             *)

\* A step of the run is one of each part, or leaves its state as it was.
LEMMA StoresRunItsParts ==
    StoresSpec => TreeClientsSpec /\ StorageSpec /\ InstalledAppsSpec
<1>1. StoresInit => TreeClientsInit /\ StorageInit /\ InstalledAppsInit
  BY DEF StoresInit
<1>2. [StoresNext /\ part' = part]_<<treeVars, storageVars, appVars, part>>
        => [TreeClientsNext]_treeVars
  BY DEF StoresNext
<1>3. [StoresNext /\ part' = part]_<<treeVars, storageVars, appVars, part>>
        => [StorageNext]_storageVars
  BY DEF StoresNext
<1>4. [StoresNext /\ part' = part]_<<treeVars, storageVars, appVars, part>>
        => [InstalledAppsNext]_appVars
  BY DEF StoresNext
<1> QED
  BY <1>1, <1>2, <1>3, <1>4, PTL
     DEF StoresSpec, TreeClientsSpec, StorageSpec, InstalledAppsSpec

\* The invariant of the run: trees stay trees under any requests, objects and
\* records keep their types, and an installed application has its files
\* (FileSystemTransactions, FileContentStore, AppService).
THEOREM StoresInvariantHolds == StoresSpec => []StoresInvariant
<1>1. ClientsInductive /\ StorageInvariant /\ AppsInductive => StoresInvariant
  BY DEF ClientsInductive, StorageInvariant, AppsInductive, StoresInvariant
<1> QED
  BY <1>1, StoresRunItsParts, ClientsInductiveHolds, StorageIsSafe, AppsInductiveHolds, PTL
=============================================================================
