--------------------------- MODULE WorkspaceCommit ---------------------------
(***************************************************************************)
(* How the Upper of a Run becomes the next tree of its Workspace           *)
(* (WorkspaceCommitCoordinator with UpperScanner, TargetTreeProjector,     *)
(* UpperContentMaterializer, planCommitOperations and                      *)
(* WorkspaceCommitObjectBuilder).  What the control database does with the *)
(* Run around it is in RefStore and BwaLifecycle.                          *)
(*                                                                         *)
(* The Upper is written by the Run through overlayfs, whose rules are      *)
(* external: a directory is copied up when something in it changes, what   *)
(* the lower tree has is hidden by a whiteout, and a directory made over a *)
(* whiteout is opaque.                                                     *)
(***************************************************************************)
EXTENDS FileTree

CONSTANTS
    BaseTrees,      \* trees a Run may start from
    RunPaths,       \* paths the Run works on
    MaxEdits,       \* bound: how much it does to them
    MaxEntries,     \* limits.maxEntries, of the Upper and of the whole target
    MaxDepth,       \* limits.maxDepth, likewise
    MaxOperations,  \* what fits into a segment: 10,000 operations, 4 MiB
    OddNames,       \* names no entry may have: not NFC, or a control character
    Crossed         \* names in one order as UTF-8 and in another as UTF-16

ASSUME CommitAssumption ==
    /\ MaxEdits \in Nat
    /\ \A t \in BaseTrees : IsTree(t)
    /\ RunPaths \subseteq Seq(Names) /\ << >> \notin RunPaths
    /\ {MaxEntries, MaxDepth, MaxOperations} \subseteq Nat
    /\ OddNames \subseteq Names /\ Crossed \subseteq Names \X Names

Above(path) == {SubSeq(path, 1, i) : i \in 1..(Len(path) - 1)}
UpperPaths == RunPaths \cup UNION {Above(path) : path \in RunPaths}

\* The ids are enough for a new entry at each path: the code draws 16 random
\* bytes until they are new, here there are MaxEntry.
ASSUME IdsSuffice ==
    /\ IsFiniteSet(UpperPaths)
    /\ \A t \in BaseTrees : RoomFor(DOMAIN t, Cardinality(UpperPaths))

VARIABLES
    base,       \* the tree of the Run's input Head
    result,     \* the tree the commit publishes
    upper,      \* the Upper on disk: path -> node
    edits,      \* how often the Run has written it
    phase,
    scan,       \* UpperScanResult
    left,       \* history: what the Run saw when the Upper was scanned
    reading,    \* the file being materialized, with its first content
    taken,      \* materialized contents
    late        \* somebody wrote the Upper after it had been scanned

commitVars == <<base, result, upper, edits, phase, scan, left, reading, taken, late>>

\* "stamp" stands for what verifyStat compares, and need only tell a write
\* after the scan; "touched" for a new mtime.  "defect" says why the commit
\* may not take the node: it is what the scanner does not support (a link, a
\* special file, an attribute, a name that is not UTF-8, too many bytes), or
\* its mtime is before 1970.
Node == [kind : {"file", "directory", "whiteout"}, content : Contents \cup {None},
         opaque : BOOLEAN, touched : BOOLEAN, stamp : {"run", "late"},
         defect : {"none", "unsupported", "early"}]
Writer == IF phase = "running" THEN "run" ELSE "late"
File(c, touched) ==
    [kind |-> "file", content |-> c, opaque |-> FALSE, touched |-> touched,
     stamp |-> Writer, defect |-> "none"]
Directory(opaque) ==
    [kind |-> "directory", content |-> None, opaque |-> opaque, touched |-> FALSE,
     stamp |-> Writer, defect |-> "none"]
Whiteout ==
    [kind |-> "whiteout", content |-> None, opaque |-> FALSE, touched |-> FALSE,
     stamp |-> Writer, defect |-> "none"]

\* One type invariant, with what the materializer may have read.
WorkspaceCommitTypeOK ==
    /\ IsTree(base) /\ IsTree(result)
    /\ \A p \in DOMAIN upper : upper[p] \in Node
    /\ edits \in 0..MaxEdits
    /\ phase \in {"running", "stopped", "scanned", "published", "unchanged", "failed"}
    /\ \A p \in DOMAIN taken : scan[p].kind = "file" /\ taken[p] \in Contents
    /\ late \in BOOLEAN

CommitInit ==
    /\ base \in BaseTrees /\ result = base
    /\ upper = << >> /\ edits = 0
    /\ phase = "running"
    /\ scan = << >> /\ left = << >>
    /\ reading = None /\ taken = << >>
    /\ late = FALSE

-----------------------------------------------------------------------------
(* The Run and overlayfs.                                                  *)

HasPath(t, path) == EntryAt(t, path) # None

\* The lower tree shows through unless something above hides it.
ShowsThrough(path) ==
    /\ HasPath(base, path)
    /\ \A q \in Above(path) \cap DOMAIN upper :
          upper[q].kind = "directory" /\ ~upper[q].opaque

Absent == "absent"
ASSUME AbsentAssumption == Absent \notin Contents \cup {None}

\* What the Run sees at a path: a content, None for a directory, or nothing.
Seen(path) ==
    IF path \in DOMAIN upper
    THEN IF upper[path].kind = "whiteout" THEN Absent ELSE upper[path].content
    ELSE IF ShowsThrough(path) THEN base[EntryAt(base, path)].content ELSE Absent

AllPaths == RunPaths \cup {PathOf(base, e) : e \in DOMAIN base \ {Root}}
SeenTree == [p \in {q \in AllPaths : Seen(q) # Absent} |-> Seen(p)]
PathTree(t) == [p \in {PathOf(t, e) : e \in DOMAIN t \ {Root}} |-> t[EntryAt(t, p)].content]

ParentIsThere(path) == \A q \in Above(path) : Seen(q) = None

\* A change at a path, with the directories above it copied up.
Change(path, under, node) ==
    LET up == Above(path) \ DOMAIN upper
        kept == {q \in DOMAIN upper : ~(under /\ IsPrefix(path, q))} \ {path}
    IN  upper' = [q \in kept \cup up \cup (IF node = None THEN {} ELSE {path}) |->
                    IF q = path THEN node
                    ELSE IF q \in kept THEN upper[q] ELSE Directory(FALSE)]

WriteFile(path, c) ==
    /\ ParentIsThere(path) /\ Seen(path) # None
    /\ Change(path, FALSE, File(c, TRUE))

\* A change of its permissions copies a file up as it is.
CopyUp(path) ==
    /\ path \notin DOMAIN upper /\ Seen(path) \in Contents
    /\ Change(path, FALSE, File(Seen(path), FALSE))

MakeDirectory(path) ==
    /\ ParentIsThere(path) /\ Seen(path) = Absent
    /\ Change(path, FALSE, Directory(path \in DOMAIN upper))

Delete(path) ==
    /\ Seen(path) # Absent
    /\ Change(path, TRUE, IF ShowsThrough(path) THEN Whiteout ELSE None)

\* What the Run made becomes something a commit may not take.
Spoil(path) ==
    /\ path \in DOMAIN upper /\ upper[path].kind # "whiteout"
    /\ \E d \in {"unsupported", "early"} : upper' = [upper EXCEPT ![path].defect = d]

RunWrites ==
    /\ phase = "running" /\ edits < MaxEdits
    /\ \E path \in RunPaths :
          \/ \E c \in Contents : WriteFile(path, c)
          \/ CopyUp(path) \/ MakeDirectory(path) \/ Delete(path) \/ Spoil(path)
    /\ edits' = edits + 1
    /\ UNCHANGED <<base, result, phase, scan, left, reading, taken, late>>

Stop ==
    /\ phase = "running"
    /\ phase' = "stopped"
    /\ UNCHANGED <<base, result, upper, edits, scan, left, reading, taken, late>>

\* A process that should be gone writes a file after the scan.
LateWrite ==
    /\ phase = "scanned" /\ ~late
    /\ \E path \in DOMAIN upper :
          /\ upper[path].kind = "file"
          /\ \E c \in Contents : upper' = [upper EXCEPT ![path] = File(c, TRUE)]
    /\ late' = TRUE
    /\ UNCHANGED <<base, result, edits, phase, scan, left, reading, taken>>

-----------------------------------------------------------------------------
(* TargetTreeProjector: the target as a tree, the ids that were new, and   *)
(* the entries whose time changed.                                         *)

Refuse(acc) == [acc EXCEPT !.tree = Refused]

Without(t, path) ==
    IF HasPath(t, path) THEN Effect(t, RemoveEntry(EntryAt(t, path), TRUE)) ELSE t

NewEntry(acc, t, path, c) ==
    LET e == FreshId(acc.used, 1)
    IN  [acc EXCEPT !.tree = Effect(t, CreateEntry(e, EntryAt(t, Front(path)), Last(path), c)),
                    !.used = @ \cup {e}]

\* Mutant of ProjectFile: a file that was there gets a new entry as well.
ReplaceFile(acc, path, node) == NewEntry(acc, Without(acc.tree, path), path, node.content)

\* A file keeps the entry of the file that was there.
ProjectFile(acc, path, node) ==
    LET e == EntryAt(acc.tree, path)
    IN  IF e # None /\ IsFile(acc.tree, e)
        THEN [acc EXCEPT !.tree[e].content = node.content,
                         !.touched = IF node.touched THEN @ \cup {e} ELSE @]
        ELSE NewEntry(acc, Without(acc.tree, path), path, node.content)

\* A directory that is there stays, unless the Upper's is opaque.
ProjectDirectory(acc, path, node) ==
    LET e == EntryAt(acc.tree, path)
    IN  IF e # None /\ IsDirectory(acc.tree, e) /\ ~node.opaque THEN acc
        ELSE NewEntry(acc, Without(acc.tree, path), path, None)

ProjectWhiteout(acc, path) ==
    IF HasPath(acc.tree, path) THEN [acc EXCEPT !.tree = Without(@, path)] ELSE Refuse(acc)

Project(acc, change) ==
    LET path == change[1]
        node == change[2]
        parent == EntryAt(acc.tree, Front(path))
    IN  IF acc.tree = Refused THEN acc
        ELSE IF parent = None \/ ~IsDirectory(acc.tree, parent) THEN Refuse(acc)
        ELSE CASE node.kind = "file" -> ProjectFile(acc, path, node)
               [] node.kind = "directory" -> ProjectDirectory(acc, path, node)
               [] node.kind = "whiteout" -> ProjectWhiteout(acc, path)

\* Parents come before their children, as in the scanner's order of paths.
ParentsFirst(paths) ==
    LET place == CHOOSE f \in Injection(paths, 1..Cardinality(paths)) : TRUE
    IN  {q \in paths \X paths :
           \/ Len(q[1]) < Len(q[2])
           \/ Len(q[1]) = Len(q[2]) /\ place[q[1]] < place[q[2]]}
Sorted(paths) == InOrder(paths, ParentsFirst(paths))

\* What is projected at a path: resolveTargetContent puts the materialized
\* contents in.
Resolved(p) == IF p \in DOMAIN taken THEN [scan[p] EXCEPT !.content = taken[p]] ELSE scan[p]

Target ==
    LET paths == Sorted(DOMAIN scan)
        after[n \in 0..Cardinality(DOMAIN scan)] ==
          IF n = 0 THEN [tree |-> base, used |-> DOMAIN base, touched |-> {}]
          ELSE Project(after[n - 1], <<paths[n], Resolved(paths[n])>>)
    IN  after[Cardinality(DOMAIN scan)]

\* toMtimeMs, of every file and of a directory that gets a new entry; it
\* throws on the way, and what was projected until then has no effect.
TimesAreValid(t) ==
    \A p \in DOMAIN scan :
       scan[p].defect = "early" => scan[p].kind = "directory" /\ EntryAt(t, p) \in DOMAIN base

\* How many paths there may be, and of what length (Limits of the scanner).
WithinLimits(paths) ==
    /\ Cardinality(paths) <= MaxEntries
    /\ \A p \in paths : Len(p) <= MaxDepth

\* validateTarget: the limits of the Upper, of the whole tree and its root.
ValidTarget(t) == WithinLimits(DOMAIN PathTree(t) \cup {<< >>})

-----------------------------------------------------------------------------
(* planCommitOperations: removals, creations, new contents.                *)

ByDepth(t, E) ==
    InOrder(E, {q \in E \X E :
                  \/ Len(PathOf(t, q[1])) < Len(PathOf(t, q[2]))
                  \/ Len(PathOf(t, q[1])) = Len(PathOf(t, q[2])) /\ q[1] < q[2]})

\* An entry that goes with a directory is not removed on its own.
Removals(t) ==
    LET gone == ByDepth(base, TopLevel(base, DOMAIN base \ DOMAIN t))
    IN  [i \in DOMAIN gone |-> RemoveEntry(gone[i], IsDirectory(base, gone[i]))]

Creations(t) ==
    LET new == ByDepth(t, DOMAIN t \ DOMAIN base)
    IN  [i \in DOMAIN new |-> CreateEntry(new[i], t[new[i]].parent, t[new[i]].name, t[new[i]].content)]

Updates(t, touched) ==
    LET files == {e \in DOMAIN t \cap DOMAIN base :
                    t[e].content # base[e].content \/ e \in touched}
        changed == InOrder(files, ById(files))
    IN  [i \in DOMAIN changed |->
           SetContent(changed[i], base[changed[i]].content, t[changed[i]].content)]

\* Mutant of CommitOperations: the removals come last.
CreationsFirst(target) ==
    Creations(target.tree) \o Updates(target.tree, target.touched) \o Removals(target.tree)

CommitOperations(target) ==
    Removals(target.tree) \o Creations(target.tree) \o Updates(target.tree, target.touched)

\* encodeBatchFileSystemSegment, validate_entry_name.
SegmentTakes(ops) ==
    /\ Len(ops) <= MaxOperations
    /\ \A i \in DOMAIN ops : ops[i].kind = "create" => ops[i].name \notin OddNames

-----------------------------------------------------------------------------
(* WorkspaceCommitCoordinator.                                             *)

Fail ==
    /\ phase' = "failed"
    /\ reading' = None
    /\ UNCHANGED <<base, result, upper, edits, scan, left, taken, late>>

\* The scanner sorts the paths as bytes; UpperScanner compares them as
\* strings and takes no two in another order.
Crosses(p, q) ==
    \E i \in DOMAIN p \cap DOMAIN q :
       SubSeq(p, 1, i - 1) = SubSeq(q, 1, i - 1) /\ <<p[i], q[i]>> \in Crossed

ScannerRefuses(u) ==
    \/ \E p \in DOMAIN u : u[p].defect = "unsupported"
    \/ ~WithinLimits(DOMAIN u)
    \/ \E p, q \in DOMAIN u : Crosses(p, q)

\* A scan that is refused is kept here; nothing looks at it.
ScanUpper ==
    /\ phase = "stopped"
    /\ phase' = IF ScannerRefuses(upper) THEN "failed" ELSE "scanned"
    /\ scan' = upper
    /\ left' = SeenTree
    /\ UNCHANGED <<base, result, upper, edits, reading, taken, late>>

ScannedFiles == {p \in DOMAIN scan : scan[p].kind = "file"}

\* verifyStat
AsScanned(p) == p \in DOMAIN upper /\ upper[p].stamp = scan[p].stamp

BeginRead(p) ==
    /\ phase = "scanned" /\ reading = None
    /\ p \in ScannedFiles \ DOMAIN taken
    /\ IF AsScanned(p)
       THEN /\ reading' = [path |-> p, first |-> upper[p].content]
            /\ UNCHANGED <<base, result, upper, edits, phase, scan, left, taken, late>>
       ELSE Fail

\* Mutant of EndRead: the file is not looked at again after its last byte.
EndReadUnverified ==
    /\ phase = "scanned" /\ reading # None
    /\ \E c \in {reading.first, upper[reading.path].content} :
          taken' = [p \in DOMAIN taken \cup {reading.path} |->
                      IF p = reading.path THEN c ELSE taken[p]]
    /\ reading' = None
    /\ UNCHANGED <<base, result, upper, edits, phase, scan, left, late>>

\* What was read may be older or newer than a write in between.
EndRead ==
    /\ phase = "scanned" /\ reading # None
    /\ IF AsScanned(reading.path)
       THEN /\ \E c \in {reading.first, upper[reading.path].content} :
                  taken' = [p \in DOMAIN taken \cup {reading.path} |->
                              IF p = reading.path THEN c ELSE taken[p]]
            /\ reading' = None
            /\ UNCHANGED <<base, result, upper, edits, phase, scan, left, late>>
       ELSE Fail

\* resolveTargetContent refuses what was read for nothing.
Unexpected(target) == \E p \in DOMAIN taken : ~HasPath(target.tree, p)

\* Project, plan, build the objects and publish; nothing to do leaves the ref
\* alone.  The projection is made before the files are read, from the same
\* scan: when it is refused, what was read is not used.
PublishTarget ==
    /\ phase = "scanned" /\ reading = None /\ DOMAIN taken = ScannedFiles
    /\ LET target == Target
           ops == CommitOperations(target)
           next == ApplySegment(base, ops)
       IN  IF \/ target.tree = Refused \/ ~TimesAreValid(target.tree)
              \/ ~ValidTarget(target.tree) \/ Unexpected(target)
              \/ ~SegmentTakes(ops) \/ next = Refused
           THEN Fail
           ELSE /\ result' = next
                /\ phase' = IF ops = << >> THEN "unchanged" ELSE "published"
                /\ UNCHANGED <<base, upper, edits, scan, left, reading, taken, late>>

CommitNext ==
    \/ RunWrites \/ Stop \/ LateWrite
    \/ ScanUpper \/ EndRead \/ PublishTarget
    \/ \E p \in RunPaths : BeginRead(p)

CommitSpec == CommitInit /\ [][CommitNext]_commitVars

-----------------------------------------------------------------------------
\* The published tree is, path by path, what the Run saw when it had stopped:
\* with its whiteouts, opaque directories, files replaced by directories and
\* the other way round, and with the bytes the scan announced, whoever wrote
\* the Upper meanwhile.
CommittedTreeIsWhatTheRunLeft ==
    phase \in {"published", "unchanged"} => PathTree(result) = left

\* Why a commit is refused, when nobody wrote the Upper late: for something
\* in the Upper, or because the whole tree is more than a target may be, or
\* the change more than a segment may be.
Unsupported == \E p \in DOMAIN scan : scan[p].defect = "unsupported"
UpperTooLarge == ~WithinLimits(DOMAIN scan)
PathsCross == \E p, q \in DOMAIN scan : Crosses(p, q)
TimeBefore1970 == ~TimesAreValid(Target.tree)
WholeTreeTooLarge == ~WithinLimits(DOMAIN left \cup {<< >>})
NameIsOdd == \E p \in DOMAIN left : Last(p) \in OddNames
ChangeTooLong == Len(CommitOperations(Target)) > MaxOperations

\* A commit that fails fails for one of these causes: there is no other Upper
\* overlayfs can leave behind which the projection (a whiteout of nothing, a
\* parent that is no directory), the materializer, the plan or the segment
\* would refuse, and so keep the work of the Run from being saved.  Storage
\* that fails aside.
RefusedForCause ==
    phase = "failed" =>
       \/ late \/ Unsupported \/ UpperTooLarge \/ PathsCross
       \/ TimeBefore1970 \/ WholeTreeTooLarge \/ NameIsOdd \/ ChangeTooLong

\* An entry keeps its id, which handles and links refer to, unless the Run
\* replaced it or a directory above it.
Untouched(p, kind) ==
    /\ \A q \in Above(p) \cap DOMAIN scan : scan[q].kind = "directory" /\ ~scan[q].opaque
    /\ p \in DOMAIN scan => scan[p].kind = kind /\ ~scan[p].opaque
EntriesKeepTheirIdentity ==
    phase = "published" =>
       \A e \in DOMAIN base \ {Root} :
          LET p == PathOf(base, e)
          IN  Untouched(p, IF IsDirectory(base, e) THEN "directory" ELSE "file")
                 => e \in DOMAIN result /\ PathOf(result, e) = p

\* The bytes that go into the commit are those the scan announced, also when
\* the Upper is written while they are read: verifyStat looks at a file before
\* its first byte and after its last.
MaterializedAsScanned == \A p \in DOMAIN taken : taken[p] = scan[p].content

-----------------------------------------------------------------------------
\* What the proofs need to know of the Upper: the Run wrote what is in it when
\* it is scanned, and what still has the Run's stamp is as it was scanned.
UpperIsTheRuns ==
    phase \in {"running", "stopped"} =>
        /\ \A p \in DOMAIN upper : upper[p].stamp = "run"
        /\ reading = None /\ taken = << >> /\ ~late
ScanIsOfTheRun ==
    phase \notin {"running", "stopped"} =>
        /\ \A p \in DOMAIN scan : scan[p].stamp = "run"
        /\ DOMAIN upper = DOMAIN scan
        /\ \A p \in DOMAIN upper : upper[p].stamp = "run" \/ ~late => upper[p] = scan[p]
        /\ reading # None => /\ reading.path \in ScannedFiles
                             /\ reading.first = scan[reading.path].content
        /\ DOMAIN taken \subseteq ScannedFiles

\* The inductive invariant of reading the Upper.
CommitInductive == UpperIsTheRuns /\ ScanIsOfTheRun /\ MaterializedAsScanned
=============================================================================
