------------------------------ MODULE FileTree ------------------------------
(***************************************************************************)
(* The tree of a Workspace and the operations on it (crates/pvlog-core,    *)
(* EntryIndex, FileSystemTransactions): a Checkpoint is a set of entries,  *)
(* a Segment a sequence of operations that is applied to it entirely or    *)
(* not at all.  A tree is a function from the ids in use to entries; sizes *)
(* and times are left out.                                                 *)
(***************************************************************************)
EXTENDS Naturals, FiniteSets, Sequences, SequencesExt, FiniteSetsExt

CONSTANTS
    MaxEntry,               \* entry ids are 1..MaxEntry, the root is 1
    Names,
    LowerName, UpperName,   \* two names that differ in case only
    Contents,               \* content ids
    None,
    Refused                 \* a segment that does not apply

ASSUME TreeAssumption ==
    /\ MaxEntry \in Nat \ {0}
    /\ {LowerName, UpperName} \subseteq Names
    /\ None \notin Names \cup Contents
    /\ None \notin 1..MaxEntry

EntryIds == 1..MaxEntry
Root == 1

Entry == [parent : EntryIds \cup {None}, name : Names \cup {None},
          content : Contents \cup {None}]

\* A segment that does not apply leaves no tree.
ASSUME RefusedAssumption == \A D \in SUBSET EntryIds : Refused \notin [D -> Entry]

IsDirectory(t, e) == e \in DOMAIN t /\ t[e].content = None
IsFile(t, e) == e \in DOMAIN t /\ t[e].content # None

Children(t, e) == {c \in DOMAIN t : t[c].parent = e}

\* The entries below some entries, these included.
DownFrom(t, E) ==
    LET size == Cardinality(DOMAIN t)
        down[n \in 0..size] ==
          IF n = 0 THEN E
          ELSE LET above == down[n - 1]
               IN  above \cup {c \in DOMAIN t : t[c].parent \in above}
    IN  down[size]
Below(t, e) == DownFrom(t, {e}) \ {e}

\* The path of an entry from the root, and the entry at a path.
PathOf(t, e) ==
    LET path[x \in DOMAIN t] == IF x = Root THEN << >> ELSE Append(path[t[x].parent], t[x].name)
    IN  path[e]
EntryAt(t, path) ==
    LET there == {e \in DOMAIN t : PathOf(t, e) = path}
    IN  IF there = {} THEN None ELSE CHOOSE e \in there : TRUE

\* The paths and contents below an entry, relative to it.
RelativePath(t, e, d) == SubSeq(PathOf(t, d), Len(PathOf(t, e)) + 1, Len(PathOf(t, d)))
Shape(t, e) == {<<RelativePath(t, e, d), t[d].content>> : d \in DownFrom(t, {e})}

\* validate_checkpoint_entries: everything hangs on the one root directory,
\* which excludes a cycle, and siblings have different names.
ValidTree(t) ==
    /\ {e \in DOMAIN t : t[e].parent = None} = {Root}
    /\ IsDirectory(t, Root)
    /\ \A e \in DOMAIN t \ {Root} : IsDirectory(t, t[e].parent)
    /\ \A d, e \in DOMAIN t :
          (t[d].parent = t[e].parent /\ t[d].name = t[e].name) => d = e
    /\ DownFrom(t, {Root}) = DOMAIN t

\* The tables of a checkpoint that has been read.
IsTree(t) ==
    /\ DOMAIN t \subseteq EntryIds /\ t \in [DOMAIN t -> Entry]
    /\ ValidTree(t)

GenesisTree == [e \in {Root} |-> [parent |-> None, name |-> None, content |-> None]]

-----------------------------------------------------------------------------
(* Operations (enum Operation).                                            *)

CreateEntry(e, p, n, c) == [kind |-> "create", id |-> e, parent |-> p, name |-> n, content |-> c]
CreateDirectory(e, p, n) == CreateEntry(e, p, n, None)
SetContent(e, expected, c) ==
    [kind |-> "set-file-content", id |-> e, expected |-> expected, content |-> c]
MoveEntry(e, p, n) == [kind |-> "move", id |-> e, parent |-> p, name |-> n]
RemoveEntry(e, recursive) == [kind |-> "remove", id |-> e, recursive |-> recursive]

NameTaken(t, p, n, but) == \E d \in Children(t, p) \ {but} : t[d].name = n

\* What ensure_new_entry, ensure_parent_and_name and the arms of
\* apply_segment ask for.
Allowed(t, op) ==
    CASE op.kind = "create" ->
           /\ op.id \notin DOMAIN t
           /\ IsDirectory(t, op.parent)
           /\ ~NameTaken(t, op.parent, op.name, None)
      [] op.kind = "set-file-content" ->
           IsFile(t, op.id) /\ t[op.id].content = op.expected
      [] op.kind = "move" ->
           /\ op.id \in DOMAIN t /\ op.id # Root
           /\ IsDirectory(t, op.parent)
           /\ ~NameTaken(t, op.parent, op.name, op.id)
      [] op.kind = "remove" ->
           /\ op.id \in DOMAIN t /\ op.id # Root
           /\ op.recursive \/ Children(t, op.id) = {}

Effect(t, op) ==
    CASE op.kind = "create" ->
           [e \in DOMAIN t \cup {op.id} |->
              IF e = op.id
              THEN [parent |-> op.parent, name |-> op.name, content |-> op.content]
              ELSE t[e]]
      [] op.kind = "set-file-content" -> [t EXCEPT ![op.id].content = op.content]
      [] op.kind = "move" -> [t EXCEPT ![op.id].parent = op.parent, ![op.id].name = op.name]
      [] op.kind = "remove" -> [e \in DOMAIN t \ DownFrom(t, {op.id}) |-> t[e]]

\* One operation, after which the entries must be a tree again (a move into
\* an entry's own subtree is only found here).
ApplyOperation(t, op) ==
    IF t = Refused THEN Refused
    ELSE IF ~Allowed(t, op) THEN Refused
    ELSE LET u == Effect(t, op) IN IF ValidTree(u) THEN u ELSE Refused

ApplySegment(t, ops) ==
    LET after[n \in 0..Len(ops)] ==
          IF n = 0 THEN t ELSE ApplyOperation(after[n - 1], ops[n])
    IN  after[Len(ops)]

CreatedIds(ops) == {ops[i].id : i \in {k \in DOMAIN ops : ops[k].kind = "create"}}

-----------------------------------------------------------------------------
(* What the services ask of an index before they build a transaction.      *)

\* The elements of a finite set in the order of a relation, and that of ids:
\* written out, where SetToSortSeq would do for TLC, because the proofs look
\* inside.
InOrder(S, before) ==
    [i \in 1..Cardinality(S) |->
       CHOOSE x \in S : Cardinality({y \in S : <<y, x>> \in before}) = i - 1]
ById(S) == {p \in S \X S : p[1] < p[2]}

\* An id that is not in use (allocateEntryId); the k-th smallest stands for
\* a random one.
FreshId(used, k) ==
    LET free == EntryIds \ used IN InOrder(free, ById(free))[k]
RoomFor(used, k) == Cardinality(EntryIds \ used) >= k

\* Mutant of CopyOperations: every copy is put under the destination itself.
CopyFlat(t, used, e, p, n) ==
    LET parts == DownFrom(t, {e})
        order == InOrder(parts, ById(parts))
    IN  [i \in DOMAIN order |->
           CreateEntry(FreshId(used, i), p, IF order[i] = e THEN n ELSE t[order[i]].name,
                       t[order[i]].content)]

\* The directory tree below e, copied with fresh ids in preorder: the ids are
\* handed out in the order of the old ones, which puts a parent before its
\* children (append of copyEntries, appendCopyOperations).
CopyOperations(t, used, e, p, n) ==
    LET parts == DownFrom(t, {e})
        depth(x) == Cardinality({a \in parts : x \in DownFrom(t, {a})})
        order == InOrder(parts, {q \in parts \X parts :
                                   \/ depth(q[1]) < depth(q[2])
                                   \/ depth(q[1]) = depth(q[2]) /\ q[1] < q[2]})
        fresh(x) == FreshId(used, CHOOSE i \in DOMAIN order : order[i] = x)
    IN  [i \in DOMAIN order |->
           LET x == order[i]
           IN  CreateEntry(fresh(x), IF x = e THEN p ELSE fresh(t[x].parent),
                           IF x = e THEN n ELSE t[x].name, t[x].content)]

\* Mutant of TopLevel: the selection as it is.
TopLevelOrNot(t, E) == E

\* normalizeTopLevelEntries: an entry that is selected together with a
\* directory above it goes with the directory.
TopLevel(t, E) == {e \in E : \A d \in E \ {e} : e \notin DownFrom(t, {d})}

\* requireAcyclicMove, ensureNotDescendant.
Inside(t, p, e) == p \in DownFrom(t, {e})

Fold(n) == IF n = UpperName THEN LowerName ELSE n

-----------------------------------------------------------------------------
(* What a copy promises, whoever asks for it.                              *)

\* The entries of a selection with nothing selected above them.
Outermost(t, E) == {e \in E : \A d \in E : e \notin Below(t, d)}

\* What is new in a tree is one whole copy, in the directory p, of each of
\* some entries of another tree, under a name it may have; the rest is as it
\* was.
ArrivedWhole(from, top, to, after, p, named) ==
    LET new == DOMAIN after \ DOMAIN to
    IN  /\ \A e \in DOMAIN after \cap DOMAIN to : after[e] = to[e]
        /\ \E copy \in Injection(top, new) :
              /\ \A e \in top : /\ after[copy[e]].parent = p
                                /\ <<e, after[copy[e]].name>> \in named
                                /\ Shape(after, copy[e]) = Shape(from, e)
              /\ \A y \in new : after[y].parent \in new \/ \E e \in top : y = copy[e]
=============================================================================
