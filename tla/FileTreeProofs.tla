--------------------------- MODULE FileTreeProofs ---------------------------
(***************************************************************************)
(* What the operators on the trees of a Workspace (FileTree) do, for every *)
(* tree: what is below an entry, which operations leave a tree a tree, how *)
(* a segment unfolds, the order entries are listed in, and the fresh ids   *)
(* of a copy.  The proofs about the clients of a tree, the commit of a Run *)
(* and the exchange between Workspaces rest on these facts.                *)
(*                                                                         *)
(* The recursions of FileTree run over numbers, and induction over a       *)
(* number is SetInduction below: a set that has 0 and with each number     *)
(* the next one has them all, because its complement has no least member.  *)
(***************************************************************************)
EXTENDS FileTree, FiniteSetTheorems, FunctionTheorems, SequenceTheorems,
        WellFoundedInduction, TLAPS

\* Induction over a number, with a set in the place of a predicate.
LEMMA SetInduction ==
    ASSUME NEW S, 0 \in S, \A n \in Nat : n \in S => n + 1 \in S
    PROVE  \A n \in Nat : n \in S
<1> DEFINE bad == Nat \ S
<1>1. SUFFICES ASSUME bad # {} PROVE FALSE
  OBVIOUS
<1>2. PICK m \in bad : \A y \in bad : ~ (<<y, m>> \in OpToRel(<, Nat))
  <2>1. bad \subseteq Nat
    OBVIOUS
  <2> HIDE DEF bad
  <2> QED
    BY <1>1, <2>1, NatLessThanWellFounded, WFMin
<1>3. m \in Nat /\ m # 0
  OBVIOUS
<1>4. m - 1 \in Nat /\ (m - 1) + 1 = m
  BY <1>3
<1>5. m - 1 \in bad
  BY <1>3, <1>4
<1>6. <<m - 1, m>> \in OpToRel(<, Nat)
  BY <1>3, <1>4 DEF OpToRel
<1> QED
  BY <1>2, <1>5, <1>6

\* The ids, and with them the entries of a tree, are finitely many.
LEMMA EntryIdsAreFinite ==
    /\ EntryIds \subseteq Nat /\ IsFiniteSet(EntryIds) /\ Root \in EntryIds
    /\ None \notin EntryIds
    /\ \A S \in SUBSET EntryIds : IsFiniteSet(S) /\ Cardinality(S) \in Nat
<1>1. MaxEntry \in Nat \ {0} /\ None \notin EntryIds
  BY TreeAssumption DEF EntryIds
<1>2. IsFiniteSet(EntryIds) /\ EntryIds \subseteq Nat /\ Root \in EntryIds
  BY <1>1, FS_Interval DEF EntryIds, Root
<1> QED
  BY <1>1, <1>2, FS_Subset, FS_CardinalityType

-----------------------------------------------------------------------------
(* What is below some entries.                                             *)

\* A set that has the children of its members.
Closed(t, D) == \A c \in DOMAIN t : t[c].parent \in D => c \in D

\* One round of DownFrom.
Deeper(t, above) == above \cup {c \in DOMAIN t : t[c].parent \in above}

\* The recursion of DownFrom has a solution: its last value.
LEMMA DownFromUnfolds ==
    ASSUME NEW t, NEW E, Cardinality(DOMAIN t) \in Nat
    PROVE  \E down :
              /\ down = [n \in 0..Cardinality(DOMAIN t) |->
                           IF n = 0 THEN E ELSE Deeper(t, down[n - 1])]
              /\ DownFrom(t, E) = down[Cardinality(DOMAIN t)]
<1> DEFINE size == Cardinality(DOMAIN t)
           S == {k \in Nat : \E f : f = [n \in 0..k |->
                                IF n = 0 THEN E ELSE Deeper(t, f[n - 1])]}
<1>1. 0 \in S
  <2> DEFINE f == [n \in 0..0 |-> E]
  <2>1. f = [n \in 0..0 |-> IF n = 0 THEN E ELSE Deeper(t, f[n - 1])]
    OBVIOUS
  <2> HIDE DEF f
  <2> QED
    BY <2>1
<1>2. ASSUME NEW k \in Nat, k \in S PROVE k + 1 \in S
  <2>1. PICK f : f = [n \in 0..k |-> IF n = 0 THEN E ELSE Deeper(t, f[n - 1])]
    BY <1>2
  <2> DEFINE g == [n \in 0..(k + 1) |-> IF n = k + 1 THEN Deeper(t, f[k]) ELSE f[n]]
  <2>2. g = [n \in 0..(k + 1) |-> IF n = 0 THEN E ELSE Deeper(t, g[n - 1])]
    BY <2>1
  <2> HIDE DEF g
  <2> QED
    BY <2>2
<1> HIDE DEF S
<1>3. size \in S
  BY <1>1, <1>2, SetInduction
<1>4. \E f : f = [n \in 0..size |-> IF n = 0 THEN E ELSE Deeper(t, f[n - 1])]
  BY <1>3 DEF S
<1> DEFINE down == CHOOSE f : f = [n \in 0..size |-> IF n = 0 THEN E ELSE Deeper(t, f[n - 1])]
<1>5. down = [n \in 0..size |-> IF n = 0 THEN E ELSE Deeper(t, down[n - 1])]
  BY <1>4
<1>6. DownFrom(t, E) = down[size]
  BY DEF DownFrom, Deeper
<1> HIDE DEF down
<1> QED
  BY <1>5, <1>6

\* DownFrom is the least set that has the entries and with each its children.
LEMMA DownFromIsLeast ==
    ASSUME NEW t, IsFiniteSet(DOMAIN t), NEW E \in SUBSET DOMAIN t
    PROVE  /\ E \subseteq DownFrom(t, E) /\ DownFrom(t, E) \subseteq DOMAIN t
           /\ Closed(t, DownFrom(t, E))
           /\ \A D : E \subseteq D /\ Closed(t, D) => DownFrom(t, E) \subseteq D
<1> DEFINE size == Cardinality(DOMAIN t)
<1>1. size \in Nat
  BY FS_CardinalityType
<1>2. PICK down : /\ down = [n \in 0..size |-> IF n = 0 THEN E ELSE Deeper(t, down[n - 1])]
                  /\ DownFrom(t, E) = down[size]
  BY <1>1, DownFromUnfolds
<1> HIDE DEF size
<1>3. down[0] = E /\ \A n \in Nat : n + 1 <= size => down[n + 1] = Deeper(t, down[n])
  <2>1. 0 \in 0..size /\ \A n \in Nat : n + 1 <= size => n + 1 \in 0..size /\ (n + 1) - 1 = n /\ n + 1 # 0
    BY <1>1
  <2> QED
    BY <1>2, <2>1
\* Every value is between E and the domain.
<1> DEFINE between == {n \in Nat : n <= size => E \subseteq down[n] /\ down[n] \subseteq DOMAIN t}
<1>4. \A n \in Nat : n \in between
  <2>1. 0 \in between
    BY <1>3
  <2>2. ASSUME NEW n \in Nat, n \in between PROVE n + 1 \in between
    BY <1>1, <1>3, <2>2 DEF Deeper
  <2> HIDE DEF between
  <2> QED
    BY <2>1, <2>2, SetInduction
\* It grows until it is closed.
<1> DEFINE grows == {n \in Nat : n <= size => Closed(t, down[n]) \/ Cardinality(down[n]) >= n}
<1>5. \A n \in Nat : n \in grows
  <2>1. 0 \in grows
    <3>1. Cardinality(down[0]) \in Nat
      BY <1>3, FS_Subset, FS_CardinalityType
    <3> QED
      BY <3>1
  <2>2. ASSUME NEW n \in Nat, n \in grows PROVE n + 1 \in grows
    <3>1. SUFFICES ASSUME n + 1 <= size
                   PROVE  Closed(t, down[n + 1]) \/ Cardinality(down[n + 1]) >= n + 1
      OBVIOUS
    <3>2. /\ down[n + 1] = Deeper(t, down[n]) /\ n <= size /\ n \in between /\ n + 1 \in between
      BY <1>1, <1>3, <1>4, <3>1
    <3>3. /\ down[n] \subseteq down[n + 1]
          /\ IsFiniteSet(down[n + 1]) /\ IsFiniteSet(down[n])
          /\ Cardinality(down[n]) \in Nat /\ Cardinality(down[n + 1]) \in Nat
          /\ Cardinality(down[n]) <= Cardinality(down[n + 1])
          /\ Cardinality(down[n]) = Cardinality(down[n + 1]) => down[n] = down[n + 1]
      <4>1. down[n] \subseteq down[n + 1] /\ down[n + 1] \subseteq DOMAIN t
        BY <3>1, <3>2 DEF Deeper
      <4>2. IsFiniteSet(down[n + 1]) /\ IsFiniteSet(down[n])
        BY <4>1, FS_Subset
      <4> QED
        BY <4>1, <4>2, FS_Subset, FS_CardinalityType
    <3>4. CASE down[n] = down[n + 1]
      BY <3>2, <3>4 DEF Deeper, Closed
    <3>5. CASE down[n] # down[n + 1]
      <4>1. ~Closed(t, down[n])
        BY <3>2, <3>5 DEF Deeper, Closed
      <4>2. Cardinality(down[n]) >= n
        BY <2>2, <3>2, <4>1
      <4> QED
        BY <3>3, <3>5, <4>2
    <3> QED
      BY <3>4, <3>5
  <2> HIDE DEF grows
  <2> QED
    BY <2>1, <2>2, SetInduction
<1>6. E \subseteq down[size] /\ down[size] \subseteq DOMAIN t
  BY <1>1, <1>4
<1>7. Closed(t, down[size])
  <2>1. Closed(t, down[size]) \/ Cardinality(down[size]) >= size
    BY <1>1, <1>5
  <2>2. ASSUME Cardinality(down[size]) >= size PROVE down[size] = DOMAIN t
    <3>1. IsFiniteSet(down[size]) /\ Cardinality(down[size]) <= size
      BY <1>6, FS_Subset DEF size
    <3>2. Cardinality(down[size]) = size
      BY <1>1, <2>2, <3>1, FS_CardinalityType
    <3> QED
      BY <1>6, <3>2, FS_Subset DEF size
  <2> QED
    BY <2>1, <2>2 DEF Closed
<1>8. ASSUME NEW D, E \subseteq D, Closed(t, D) PROVE down[size] \subseteq D
  <2> DEFINE inside == {n \in Nat : n <= size => down[n] \subseteq D}
  <2>1. 0 \in inside
    BY <1>3, <1>8
  <2>2. ASSUME NEW n \in Nat, n \in inside PROVE n + 1 \in inside
    BY <1>1, <1>3, <1>8, <2>2 DEF Deeper, Closed
  <2>3. size \in inside
    <3> HIDE DEF inside
    <3> QED
      BY <1>1, <2>1, <2>2, SetInduction
  <2> QED
    BY <1>1, <2>3
<1> QED
  BY <1>2, <1>6, <1>7, <1>8

\* An entry below others is one of them, or its parent is below them.
LEMMA BelowIsReached ==
    ASSUME NEW t, IsFiniteSet(DOMAIN t), NEW E \in SUBSET DOMAIN t, NEW x \in DownFrom(t, E)
    PROVE  x \in E \/ t[x].parent \in DownFrom(t, E)
<1> DEFINE D == {y \in DownFrom(t, E) : y \in E \/ t[y].parent \in DownFrom(t, E)}
<1>1. E \subseteq D /\ Closed(t, D)
  BY DownFromIsLeast DEF Closed
<1>2. DownFrom(t, E) \subseteq D
  <2> HIDE DEF D
  <2> QED
    BY <1>1, DownFromIsLeast
<1> QED
  BY <1>2

\* What is below less is below more; what is below something below is below.
LEMMA BelowIsTransitive ==
    ASSUME NEW t, IsFiniteSet(DOMAIN t), NEW E \in SUBSET DOMAIN t,
           NEW F \in SUBSET DownFrom(t, E)
    PROVE  DownFrom(t, F) \subseteq DownFrom(t, E)
<1>1. F \subseteq DOMAIN t
  BY DownFromIsLeast
<1> QED
  BY <1>1, DownFromIsLeast

-----------------------------------------------------------------------------
(* Trees.                                                                  *)

\* What ValidTree says of each entry by itself.
LEMMA TreeFacts ==
    ASSUME NEW t, IsTree(t)
    PROVE  /\ IsFiniteSet(DOMAIN t) /\ DOMAIN t \subseteq EntryIds /\ Root \in DOMAIN t
           /\ t[Root].parent = None /\ t[Root].content = None
           /\ \A e \in DOMAIN t :
                 /\ t[e] = [parent |-> t[e].parent, name |-> t[e].name, content |-> t[e].content]
                 /\ t[e].parent \in EntryIds \cup {None} /\ t[e].name \in Names \cup {None}
                 /\ t[e].content \in Contents \cup {None}
           /\ \A e \in DOMAIN t \ {Root} :
                 t[e].parent \in DOMAIN t /\ t[t[e].parent].content = None
           /\ t # Refused
<1>1. t # Refused
  BY RefusedAssumption DEF IsTree
<1>2. \A e \in DOMAIN t : t[e] \in Entry
  BY DEF IsTree
<1> QED
  BY <1>1, <1>2, EntryIdsAreFinite DEF IsTree, ValidTree, IsDirectory, Entry

\* Everything hangs on the root: induction along a tree.
LEMMA TreeInduction ==
    ASSUME NEW t, IsTree(t), NEW D, Root \in D,
           \A e \in DOMAIN t \ {Root} : t[e].parent \in D => e \in D
    PROVE  DOMAIN t \subseteq D
<1>1. Closed(t, D) /\ {Root} \in SUBSET DOMAIN t /\ {Root} \subseteq D
  BY TreeFacts DEF Closed
<1>2. DownFrom(t, {Root}) \subseteq D
  BY <1>1, TreeFacts, DownFromIsLeast
<1> QED
  BY <1>2 DEF IsTree, ValidTree

\* The other way round: entries on which this induction works hang together.
LEMMA ReachedFromTheRoot ==
    ASSUME NEW u, IsFiniteSet(DOMAIN u), Root \in DOMAIN u,
           \A D : Root \in D /\ Closed(u, D) => DOMAIN u \subseteq D
    PROVE  DownFrom(u, {Root}) = DOMAIN u
<1>1. {Root} \in SUBSET DOMAIN u
  OBVIOUS
<1> QED
  BY <1>1, DownFromIsLeast

\* What is below an entry of a tree: it is closed, and leaves out the root.
LEMMA SubtreeFacts ==
    ASSUME NEW t, IsTree(t), NEW e \in DOMAIN t
    PROVE  /\ e \in DownFrom(t, {e}) /\ DownFrom(t, {e}) \subseteq DOMAIN t
           /\ Closed(t, DownFrom(t, {e}))
           /\ \A D : e \in D /\ Closed(t, D) => DownFrom(t, {e}) \subseteq D
           /\ e # Root => Root \notin DownFrom(t, {e})
           /\ \A x \in DownFrom(t, {e}) \ {e} : t[x].parent \in DownFrom(t, {e})
<1>1. {e} \in SUBSET DOMAIN t /\ IsFiniteSet(DOMAIN t)
  BY TreeFacts
<1>2. e # Root => Root \notin DownFrom(t, {e})
  <2> DEFINE D == DOMAIN t \ {Root}
  <2>1. Closed(t, D)
    BY TreeFacts, EntryIdsAreFinite DEF Closed
  <2>2. e # Root => {e} \subseteq D
    OBVIOUS
  <2> HIDE DEF D
  <2>3. e # Root => DownFrom(t, {e}) \subseteq D
    BY <1>1, <2>1, <2>2, DownFromIsLeast
  <2> QED
    BY <2>3 DEF D
<1> QED
  BY <1>1, <1>2, DownFromIsLeast, BelowIsReached

-----------------------------------------------------------------------------
(* Which operations leave a tree a tree.                                   *)

\* The operations the services build.
IsCreate(op) == /\ op = CreateEntry(op.id, op.parent, op.name, op.content)
                /\ op.id \in EntryIds /\ op.parent \in EntryIds
                /\ op.name \in Names \cup {None} /\ op.content \in Contents \cup {None}
IsSetContent(op) == /\ op = SetContent(op.id, op.expected, op.content)
                    /\ op.id \in EntryIds /\ op.content \in Contents
IsMove(op) == /\ op = MoveEntry(op.id, op.parent, op.name)
              /\ op.id \in EntryIds /\ op.parent \in EntryIds /\ op.name \in Names \cup {None}
IsRemove(op) == op = RemoveEntry(op.id, op.recursive) /\ op.id \in EntryIds
IsOperation(op) == IsCreate(op) \/ IsSetContent(op) \/ IsMove(op) \/ IsRemove(op)

\* A created entry is a child that its parent did not have.
LEMMA CreateKeepsTree ==
    ASSUME NEW t, IsTree(t), NEW op, IsCreate(op), Allowed(t, op)
    PROVE  /\ IsTree(Effect(t, op))
           /\ DOMAIN Effect(t, op) = DOMAIN t \cup {op.id} /\ op.id \notin DOMAIN t
           /\ \A e \in DOMAIN t : Effect(t, op)[e] = t[e]
           /\ Effect(t, op)[op.id] = [parent |-> op.parent, name |-> op.name, content |-> op.content]
           /\ op.parent \in DOMAIN t /\ t[op.parent].content = None
           /\ \A d \in DOMAIN t : t[d].parent = op.parent => t[d].name # op.name
<1> DEFINE u == Effect(t, op)
<1>1. op.kind = "create"
  BY DEF IsCreate, CreateEntry
<1>2. /\ op.id \notin DOMAIN t /\ op.parent \in DOMAIN t /\ t[op.parent].content = None
      /\ \A d \in DOMAIN t : t[d].parent = op.parent => d = None \/ t[d].name # op.name
  BY <1>1 DEF Allowed, IsDirectory, NameTaken, Children
<1>3. \A d \in DOMAIN t : t[d].parent = op.parent => t[d].name # op.name
  BY <1>2, TreeFacts, EntryIdsAreFinite
<1>4. u = [e \in DOMAIN t \cup {op.id} |->
             IF e = op.id THEN [parent |-> op.parent, name |-> op.name, content |-> op.content]
             ELSE t[e]]
  BY <1>1 DEF Effect
<1> HIDE DEF u
<1>5. /\ DOMAIN u = DOMAIN t \cup {op.id} /\ \A e \in DOMAIN t : u[e] = t[e]
      /\ u[op.id] = [parent |-> op.parent, name |-> op.name, content |-> op.content]
  BY <1>2, <1>4
<1>6. IsTree(u)
  <2>1. DOMAIN u \subseteq EntryIds /\ u \in [DOMAIN u -> Entry]
    <3>1. \A e \in DOMAIN u : u[e] \in Entry
      BY <1>5 DEF IsTree, IsCreate, Entry
    <3> QED
      BY <1>4, <1>5, <3>1 DEF IsTree, IsCreate
  <2>2. {e \in DOMAIN u : u[e].parent = None} = {Root} /\ IsDirectory(u, Root)
    BY <1>5, EntryIdsAreFinite DEF IsTree, ValidTree, IsDirectory, IsCreate
  <2>3. \A e \in DOMAIN u \ {Root} : IsDirectory(u, u[e].parent)
    BY <1>2, <1>5 DEF IsTree, ValidTree, IsDirectory
  <2>4. \A d, e \in DOMAIN u : (u[d].parent = u[e].parent /\ u[d].name = u[e].name) => d = e
    BY <1>3, <1>5 DEF IsTree, ValidTree
  <2>5. DownFrom(u, {Root}) = DOMAIN u
    <3>1. IsFiniteSet(DOMAIN u) /\ Root \in DOMAIN u
      BY <2>1, <1>5, TreeFacts, EntryIdsAreFinite
    <3>2. ASSUME NEW D, Root \in D, Closed(u, D) PROVE DOMAIN u \subseteq D
      <4>1. \A e \in DOMAIN t \ {Root} : t[e].parent \in D => e \in D
        BY <1>5, <3>2 DEF Closed
      <4>2. DOMAIN t \subseteq D
        BY <3>2, <4>1, TreeInduction
      <4> QED
        BY <1>2, <1>5, <3>2, <4>2 DEF Closed
    <3> QED
      BY <3>1, <3>2, ReachedFromTheRoot
  <2> QED
    BY <2>1, <2>2, <2>3, <2>4, <2>5 DEF IsTree, ValidTree
<1> QED
  BY <1>2, <1>3, <1>5, <1>6 DEF u

\* A new content leaves every entry where it is.
LEMMA SetContentKeepsTree ==
    ASSUME NEW t, IsTree(t), NEW op, IsSetContent(op), Allowed(t, op)
    PROVE  /\ IsTree(Effect(t, op))
           /\ DOMAIN Effect(t, op) = DOMAIN t /\ op.id \in DOMAIN t
           /\ t[op.id].content # None /\ t[op.id].content = op.expected
           /\ \A e \in DOMAIN t : /\ Effect(t, op)[e].parent = t[e].parent
                                  /\ Effect(t, op)[e].name = t[e].name
           /\ \A e \in DOMAIN t \ {op.id} : Effect(t, op)[e] = t[e]
           /\ Effect(t, op)[op.id].content = op.content
<1> DEFINE u == Effect(t, op)
<1>1. op.kind = "set-file-content"
  BY DEF IsSetContent, SetContent
<1>2. op.id \in DOMAIN t /\ t[op.id].content # None /\ t[op.id].content = op.expected
  BY <1>1 DEF Allowed, IsFile
<1>3. u = [t EXCEPT ![op.id].content = op.content]
  BY <1>1 DEF Effect
<1> HIDE DEF u
<1>4. /\ DOMAIN u = DOMAIN t /\ \A e \in DOMAIN t \ {op.id} : u[e] = t[e]
      /\ u[op.id] = [parent |-> t[op.id].parent, name |-> t[op.id].name, content |-> op.content]
  BY <1>2, <1>3, TreeFacts DEF IsTree
<1>5. \A e \in DOMAIN t : u[e].parent = t[e].parent /\ u[e].name = t[e].name
  BY <1>4
<1>6. IsTree(u)
  <2>1. DOMAIN u \subseteq EntryIds /\ u \in [DOMAIN u -> Entry]
    <3>1. \A e \in DOMAIN u : u[e] \in Entry
      BY <1>2, <1>4 DEF IsTree, IsSetContent, Entry
    <3> QED
      BY <1>3, <1>4, <3>1 DEF IsTree
  <2>2. {e \in DOMAIN u : u[e].parent = None} = {Root}
    BY <1>4, <1>5 DEF IsTree, ValidTree
  <2>3. \A e \in DOMAIN t : t[e].content = None => u[e].content = None
    BY <1>2, <1>4
  <2>4. IsDirectory(u, Root) /\ \A e \in DOMAIN u \ {Root} : IsDirectory(u, u[e].parent)
    BY <1>4, <1>5, <2>3 DEF IsTree, ValidTree, IsDirectory
  <2>5. \A d, e \in DOMAIN u : (u[d].parent = u[e].parent /\ u[d].name = u[e].name) => d = e
    BY <1>4, <1>5 DEF IsTree, ValidTree
  <2>6. DownFrom(u, {Root}) = DOMAIN u
    <3>1. IsFiniteSet(DOMAIN u) /\ Root \in DOMAIN u
      BY <1>4, TreeFacts
    <3>2. ASSUME NEW D, Root \in D, Closed(u, D) PROVE DOMAIN u \subseteq D
      <4>1. \A e \in DOMAIN t \ {Root} : t[e].parent \in D => e \in D
        BY <1>4, <1>5, <3>2 DEF Closed
      <4> QED
        BY <1>4, <3>2, <4>1, TreeInduction
    <3> QED
      BY <3>1, <3>2, ReachedFromTheRoot
  <2> QED
    BY <2>1, <2>2, <2>4, <2>5, <2>6 DEF IsTree, ValidTree
<1> QED
  BY <1>2, <1>4, <1>5, <1>6 DEF u

\* Removing an entry with everything below it leaves the rest as it is.
LEMMA RemoveKeepsTree ==
    ASSUME NEW t, IsTree(t), NEW op, IsRemove(op), Allowed(t, op)
    PROVE  /\ IsTree(Effect(t, op))
           /\ op.id \in DOMAIN t \ {Root}
           /\ DOMAIN Effect(t, op) = DOMAIN t \ DownFrom(t, {op.id})
           /\ \A e \in DOMAIN Effect(t, op) : Effect(t, op)[e] = t[e]
<1> DEFINE u == Effect(t, op)
           B == DownFrom(t, {op.id})
<1>1. op.kind = "remove"
  BY DEF IsRemove, RemoveEntry
<1>2. op.id \in DOMAIN t \ {Root}
  BY <1>1 DEF Allowed
<1>3. u = [e \in DOMAIN t \ B |-> t[e]]
  BY <1>1 DEF Effect
<1>4. Root \notin B /\ op.id \in B /\ Closed(t, B)
  BY <1>2, SubtreeFacts
<1> HIDE DEF u, B
<1>5. DOMAIN u = DOMAIN t \ B /\ \A e \in DOMAIN u : u[e] = t[e]
  BY <1>3
<1>6. Root \in DOMAIN u
  BY <1>4, <1>5, TreeFacts
<1>7. IsTree(u)
  <2>1. DOMAIN u \subseteq EntryIds /\ u \in [DOMAIN u -> Entry]
    BY <1>3, <1>5 DEF IsTree
  <2>2. {e \in DOMAIN u : u[e].parent = None} = {Root}
    BY <1>5, <1>6 DEF IsTree, ValidTree
  <2>3. \A e \in DOMAIN u \ {Root} : t[e].parent \in DOMAIN u
    BY <1>4, <1>5, TreeFacts DEF Closed
  <2>4. IsDirectory(u, Root) /\ \A e \in DOMAIN u \ {Root} : IsDirectory(u, u[e].parent)
    BY <1>5, <1>6, <2>3 DEF IsTree, ValidTree, IsDirectory
  <2>5. \A d, e \in DOMAIN u : (u[d].parent = u[e].parent /\ u[d].name = u[e].name) => d = e
    BY <1>5 DEF IsTree, ValidTree
  <2>6. DownFrom(u, {Root}) = DOMAIN u
    <3>1. IsFiniteSet(DOMAIN u)
      BY <2>1, EntryIdsAreFinite
    <3>2. ASSUME NEW D, Root \in D, Closed(u, D) PROVE DOMAIN u \subseteq D
      <4>1. \A e \in DOMAIN t \ {Root} : t[e].parent \in D \cup B => e \in D \cup B
        BY <1>4, <1>5, <3>2 DEF Closed
      <4>2. DOMAIN t \subseteq D \cup B
        BY <3>2, <4>1, TreeInduction
      <4> QED
        BY <1>5, <4>2
    <3> QED
      BY <1>6, <3>1, <3>2, ReachedFromTheRoot
  <2> QED
    BY <2>1, <2>2, <2>4, <2>5, <2>6 DEF IsTree, ValidTree
<1> QED
  BY <1>2, <1>5, <1>7 DEF u, B

\* A move changes the place of one entry, and nothing else.
LEMMA MoveChangesOne ==
    ASSUME NEW t, IsTree(t), NEW op, IsMove(op), Allowed(t, op)
    PROVE  /\ op.id \in DOMAIN t \ {Root} /\ op.parent \in DOMAIN t /\ t[op.parent].content = None
           /\ DOMAIN Effect(t, op) = DOMAIN t
           /\ \A e \in DOMAIN t \ {op.id} : Effect(t, op)[e] = t[e]
           /\ Effect(t, op)[op.id]
                = [parent |-> op.parent, name |-> op.name, content |-> t[op.id].content]
           /\ \A e \in DOMAIN t : Effect(t, op)[e] \in Entry /\ Effect(t, op)[e].content = t[e].content
           /\ Effect(t, op) = [e \in DOMAIN t |-> Effect(t, op)[e]]
<1> DEFINE u == Effect(t, op)
<1>1. op.kind = "move"
  BY DEF IsMove, MoveEntry
<1>2. op.id \in DOMAIN t \ {Root} /\ op.parent \in DOMAIN t /\ t[op.parent].content = None
  BY <1>1 DEF Allowed, IsDirectory
<1>3. u = [t EXCEPT ![op.id].parent = op.parent, ![op.id].name = op.name]
  BY <1>1 DEF Effect
<1> HIDE DEF u
<1>4. t[op.id] = [parent |-> t[op.id].parent, name |-> t[op.id].name, content |-> t[op.id].content]
  BY <1>2, TreeFacts
<1>5. DOMAIN u = DOMAIN t /\ \A e \in DOMAIN t \ {op.id} : u[e] = t[e]
  BY <1>3
<1>6. u[op.id] = [t[op.id] EXCEPT !.parent = op.parent, !.name = op.name]
  BY <1>2, <1>3 DEF IsTree
<1>7. u[op.id] = [parent |-> op.parent, name |-> op.name, content |-> t[op.id].content]
  BY <1>4, <1>6
<1>8. \A e \in DOMAIN t : u[e] \in Entry /\ u[e].content = t[e].content
  BY <1>2, <1>5, <1>7 DEF IsTree, IsMove, Entry
<1>9. u = [e \in DOMAIN t |-> u[e]]
  BY <1>3, <1>5 DEF IsTree
<1> QED
  BY <1>2, <1>5, <1>7, <1>8, <1>9 DEF u

\* An entry that does not move into its own subtree takes what is below it
\* along, and leaves a tree: a move that may be made has no other check to fail
\* (validateState), so the services refuse only that one beforehand.
THEOREM MoveKeepsTree ==
    ASSUME NEW t, IsTree(t), NEW op, IsMove(op), Allowed(t, op), ~Inside(t, op.parent, op.id)
    PROVE  /\ IsTree(Effect(t, op))
           /\ op.id \in DOMAIN t \ {Root} /\ op.parent \in DOMAIN t
           /\ DOMAIN Effect(t, op) = DOMAIN t
           /\ \A e \in DOMAIN t \ {op.id} : Effect(t, op)[e] = t[e]
           /\ Effect(t, op)[op.id]
                = [parent |-> op.parent, name |-> op.name, content |-> t[op.id].content]
           /\ \A d \in DOMAIN t \ {op.id} : t[d].parent = op.parent => t[d].name # op.name
<1> DEFINE u == Effect(t, op)
           B == DownFrom(t, {op.id})
<1>1. op.kind = "move"
  BY DEF IsMove, MoveEntry
<1>2. /\ DOMAIN u = DOMAIN t /\ \A e \in DOMAIN t : u[e] \in Entry
      /\ u = [e \in DOMAIN t |-> u[e]]
  BY MoveChangesOne
<1>3. /\ op.id \in DOMAIN t \ {Root} /\ op.parent \in DOMAIN t /\ t[op.parent].content = None
      /\ \A d \in DOMAIN t \ {op.id} : t[d].parent = op.parent => t[d].name # op.name
  BY <1>1 DEF Allowed, IsDirectory, NameTaken, Children
<1>4. /\ DOMAIN u = DOMAIN t /\ \A e \in DOMAIN t \ {op.id} : u[e] = t[e]
      /\ u[op.id] = [parent |-> op.parent, name |-> op.name, content |-> t[op.id].content]
  BY MoveChangesOne
<1>5. /\ op.id \in B /\ Closed(t, B) /\ op.parent \notin B
      /\ \A D : op.id \in D /\ Closed(t, D) => B \subseteq D
  BY <1>3, SubtreeFacts DEF Inside
<1> HIDE DEF u, B
<1>6. IsTree(u)
  <2>1. DOMAIN u \subseteq EntryIds /\ u \in [DOMAIN u -> Entry]
    BY <1>2, TreeFacts
  <2>2. {e \in DOMAIN u : u[e].parent = None} = {Root}
    BY <1>3, <1>4, EntryIdsAreFinite DEF IsTree, ValidTree, IsMove
  <2>3. \A e \in DOMAIN t : u[e].content = t[e].content
    BY <1>4
  <2>4. IsDirectory(u, Root) /\ \A e \in DOMAIN u \ {Root} : IsDirectory(u, u[e].parent)
    BY <1>3, <1>4, <2>3 DEF IsTree, ValidTree, IsDirectory
  <2>5. \A d, e \in DOMAIN u : (u[d].parent = u[e].parent /\ u[d].name = u[e].name) => d = e
    BY <1>3, <1>4 DEF IsTree, ValidTree
  <2>6. DownFrom(u, {Root}) = DOMAIN u
    <3>1. IsFiniteSet(DOMAIN u) /\ Root \in DOMAIN u
      BY <1>4, TreeFacts
    <3>2. ASSUME NEW D, Root \in D, Closed(u, D) PROVE DOMAIN u \subseteq D
      <4>1. \A e \in DOMAIN t \ {Root} : t[e].parent \in D \cup B => e \in D \cup B
        BY <1>4, <1>5, <3>2 DEF Closed
      <4>2. DOMAIN t \subseteq D \cup B
        BY <3>2, <4>1, TreeInduction
      <4>3. op.id \in D
        BY <1>3, <1>4, <1>5, <3>2, <4>2 DEF Closed
      <4>4. Closed(t, D)
        BY <1>4, <3>2, <4>3 DEF Closed
      <4> QED
        BY <1>4, <1>5, <4>2, <4>3, <4>4
    <3> QED
      BY <3>1, <3>2, ReachedFromTheRoot
  <2> QED
    BY <2>1, <2>2, <2>4, <2>5, <2>6 DEF IsTree, ValidTree
<1> QED
  BY <1>3, <1>4, <1>6 DEF u

\* Whatever an operation is, it is refused or leaves a tree, with no id that
\* was not there or is created.
LEMMA OperationKeepsTree ==
    ASSUME NEW t, IsTree(t), NEW op, IsOperation(op), ApplyOperation(t, op) # Refused
    PROVE  /\ Allowed(t, op) /\ ApplyOperation(t, op) = Effect(t, op)
           /\ IsTree(Effect(t, op))
           /\ \A e \in DOMAIN Effect(t, op) : e \in DOMAIN t \/ (IsCreate(op) /\ e = op.id)
<1>1. Allowed(t, op) /\ ApplyOperation(t, op) = Effect(t, op) /\ ValidTree(Effect(t, op))
  BY DEF ApplyOperation
<1>2. CASE IsCreate(op)
  <2>1. IsTree(Effect(t, op))
    BY <1>1, <1>2, CreateKeepsTree, Zenon
  <2>2. DOMAIN Effect(t, op) = DOMAIN t \cup {op.id}
    BY <1>2 DEF IsCreate, CreateEntry, Effect
  <2> QED
    BY <1>1, <1>2, <2>1, <2>2
<1>3. CASE IsSetContent(op)
  BY <1>1, <1>3, SetContentKeepsTree
<1>4. CASE IsRemove(op)
  BY <1>1, <1>4, RemoveKeepsTree
<1>5. CASE IsMove(op)
  <2> DEFINE u == Effect(t, op)
  <2>1. /\ DOMAIN u = DOMAIN t /\ \A e \in DOMAIN t : u[e] \in Entry
        /\ u = [e \in DOMAIN t |-> u[e]]
    BY <1>1, <1>5, MoveChangesOne
  <2> HIDE DEF u
  <2>2. DOMAIN u \subseteq EntryIds /\ u \in [DOMAIN u -> Entry]
    BY <2>1, TreeFacts
  <2> QED
    BY <1>1, <2>1, <2>2 DEF u, IsTree
<1> QED
  BY <1>2, <1>3, <1>4, <1>5 DEF IsOperation

\* An operation that leaves a tree applies.
LEMMA OperationApplies ==
    ASSUME NEW t, IsTree(t), NEW op, Allowed(t, op), IsTree(Effect(t, op))
    PROVE  ApplyOperation(t, op) = Effect(t, op)
  BY TreeFacts DEF ApplyOperation, IsTree

-----------------------------------------------------------------------------
(* Segments.                                                               *)

\* The recursion of ApplySegment has a solution.
LEMMA SegmentUnfolds ==
    ASSUME NEW t, NEW ops, Len(ops) \in Nat
    PROVE  \E after :
              /\ after = [n \in 0..Len(ops) |->
                            IF n = 0 THEN t ELSE ApplyOperation(after[n - 1], ops[n])]
              /\ ApplySegment(t, ops) = after[Len(ops)]
<1> DEFINE S == {k \in Nat : \E f : f = [n \in 0..k |->
                                IF n = 0 THEN t ELSE ApplyOperation(f[n - 1], ops[n])]}
<1>1. 0 \in S
  <2> DEFINE f == [n \in 0..0 |-> t]
  <2>1. f = [n \in 0..0 |-> IF n = 0 THEN t ELSE ApplyOperation(f[n - 1], ops[n])]
    OBVIOUS
  <2> HIDE DEF f
  <2> QED
    BY <2>1
<1>2. ASSUME NEW k \in Nat, k \in S PROVE k + 1 \in S
  <2>1. PICK f : f = [n \in 0..k |-> IF n = 0 THEN t ELSE ApplyOperation(f[n - 1], ops[n])]
    BY <1>2
  <2> DEFINE g == [n \in 0..(k + 1) |->
                     IF n = k + 1 THEN ApplyOperation(f[k], ops[k + 1]) ELSE f[n]]
  <2>2. g = [n \in 0..(k + 1) |-> IF n = 0 THEN t ELSE ApplyOperation(g[n - 1], ops[n])]
    BY <2>1
  <2> HIDE DEF g
  <2> QED
    BY <2>2
<1> HIDE DEF S
<1>3. Len(ops) \in S
  BY <1>1, <1>2, SetInduction
<1>4. \E f : f = [n \in 0..Len(ops) |-> IF n = 0 THEN t ELSE ApplyOperation(f[n - 1], ops[n])]
  BY <1>3 DEF S
<1> DEFINE after == CHOOSE f : f = [n \in 0..Len(ops) |->
                       IF n = 0 THEN t ELSE ApplyOperation(f[n - 1], ops[n])]
<1>5. after = [n \in 0..Len(ops) |-> IF n = 0 THEN t ELSE ApplyOperation(after[n - 1], ops[n])]
  BY <1>4
<1>6. ApplySegment(t, ops) = after[Len(ops)]
  BY DEF ApplySegment
<1> HIDE DEF after
<1> QED
  BY <1>5, <1>6

\* A segment of one operation is that operation, one of none changes nothing.
LEMMA ShortSegments ==
    ASSUME NEW t
    PROVE  /\ ApplySegment(t, << >>) = t
           /\ \A op : ApplySegment(t, <<op>>) = ApplyOperation(t, op)
           /\ \A o, op : ApplySegment(t, <<o, op>>) = ApplyOperation(ApplyOperation(t, o), op)
<1>1. ApplySegment(t, << >>) = t
  <2>1. Len(<< >>) = 0
    OBVIOUS
  <2>2. PICK f : /\ f = [k \in 0..Len(<< >>) |->
                          IF k = 0 THEN t ELSE ApplyOperation(f[k - 1], << >>[k])]
               /\ ApplySegment(t, << >>) = f[Len(<< >>)]
    BY <2>1, SegmentUnfolds
  <2> QED
    BY <2>1, <2>2
<1>2. ASSUME NEW op PROVE ApplySegment(t, <<op>>) = ApplyOperation(t, op)
  <2> DEFINE ops == <<op>>
  <2>1. Len(ops) = 1 /\ Len(ops) \in Nat /\ ops[1] = op
    OBVIOUS
  <2> HIDE DEF ops
  <2>2. PICK f : /\ f = [k \in 0..Len(ops) |->
                          IF k = 0 THEN t ELSE ApplyOperation(f[k - 1], ops[k])]
                 /\ ApplySegment(t, ops) = f[Len(ops)]
    BY <2>1, SegmentUnfolds
  <2>3. f[0] = t /\ f[1] = ApplyOperation(f[0], ops[1])
    BY <2>1, <2>2
  <2> QED
    BY <2>1, <2>2, <2>3 DEF ops
<1>3. ASSUME NEW o, NEW op
      PROVE  ApplySegment(t, <<o, op>>) = ApplyOperation(ApplyOperation(t, o), op)
  <2> DEFINE ops == <<o, op>>
  <2>1. Len(ops) = 2 /\ Len(ops) \in Nat /\ ops[1] = o /\ ops[2] = op
    OBVIOUS
  <2> HIDE DEF ops
  <2>2. PICK f : /\ f = [k \in 0..Len(ops) |->
                          IF k = 0 THEN t ELSE ApplyOperation(f[k - 1], ops[k])]
                 /\ ApplySegment(t, ops) = f[Len(ops)]
    BY <2>1, SegmentUnfolds
  <2>3. f[0] = t /\ f[1] = ApplyOperation(f[0], ops[1]) /\ f[2] = ApplyOperation(f[1], ops[2])
    BY <2>1, <2>2
  <2> QED
    BY <2>1, <2>2, <2>3 DEF ops
<1> QED
  BY <1>1, <1>2, <1>3

\* A sequence of operations.
IsSegment(ops) == /\ Len(ops) \in Nat /\ DOMAIN ops = 1..Len(ops)
                  /\ ops = [i \in 1..Len(ops) |-> ops[i]]
                  /\ \A i \in DOMAIN ops : IsOperation(ops[i])

\* A list of operations is one.
LEMMA ListIsSegment ==
    ASSUME NEW n \in Nat, NEW ops, ops = [i \in 1..n |-> ops[i]],
           \A i \in 1..n : IsOperation(ops[i])
    PROVE  IsSegment(ops) /\ Len(ops) = n
<1>1. DOMAIN ops = 1..n
  OBVIOUS
<1>2. ops \in Seq({ops[i] : i \in 1..n})
  BY IsASeq
<1>3. Len(ops) = n
  BY <1>1, <1>2, LenProperties
<1> QED
  BY <1>1, <1>3 DEF IsSegment

\* Two segments one after the other are one.
LEMMA SegmentsJoin ==
    ASSUME NEW a, IsSegment(a), NEW b, IsSegment(b)
    PROVE  /\ IsSegment(a \o b) /\ Len(a \o b) = Len(a) + Len(b)
           /\ \A i \in 1..Len(a) : (a \o b)[i] = a[i]
           /\ \A i \in 1..Len(b) : (a \o b)[Len(a) + i] = b[i]
           /\ CreatedIds(a \o b) = CreatedIds(a) \cup CreatedIds(b)
<1> DEFINE S == {a[i] : i \in 1..Len(a)} \cup {b[i] : i \in 1..Len(b)}
<1>1. Len(a) \in Nat /\ Len(b) \in Nat
  BY DEF IsSegment
<1>2. a \in Seq(S) /\ b \in Seq(S)
  <2>1. [i \in 1..Len(a) |-> a[i]] \in Seq(S)
    BY <1>1, IsASeq
  <2>2. [i \in 1..Len(b) |-> b[i]] \in Seq(S)
    BY <1>1, IsASeq
  <2> QED
    BY <2>1, <2>2 DEF IsSegment
<1>3. /\ a \o b \in Seq(S) /\ Len(a \o b) = Len(a) + Len(b)
      /\ \A i \in 1..(Len(a) + Len(b)) :
            (a \o b)[i] = IF i <= Len(a) THEN a[i] ELSE b[i - Len(a)]
  <2> HIDE DEF S
  <2> QED
    BY <1>2, ConcatProperties
<1> HIDE DEF S
<1>4. \A i \in 1..Len(a) : (a \o b)[i] = a[i]
  BY <1>1, <1>3
<1>5. \A i \in 1..Len(b) : (a \o b)[Len(a) + i] = b[i]
  <2> TAKE i \in 1..Len(b)
  <2>1. Len(a) + i \in 1..(Len(a) + Len(b)) /\ ~(Len(a) + i <= Len(a)) /\ (Len(a) + i) - Len(a) = i
    BY <1>1
  <2> QED
    BY <1>3, <2>1
<1>6. DOMAIN (a \o b) = 1..(Len(a) + Len(b))
      /\ a \o b = [i \in 1..(Len(a) + Len(b)) |-> (a \o b)[i]]
  BY <1>3, LenProperties
<1>7. \A i \in 1..(Len(a) + Len(b)) :
         \/ i \in 1..Len(a)
         \/ \E j \in 1..Len(b) : i = Len(a) + j
  <2> TAKE i \in 1..(Len(a) + Len(b))
  <2>1. CASE i <= Len(a)
    BY <1>1, <2>1
  <2>2. CASE ~(i <= Len(a))
    <3>1. i - Len(a) \in 1..Len(b) /\ i = Len(a) + (i - Len(a))
      BY <1>1, <2>2
    <3> QED
      BY <3>1
  <2> QED
    BY <2>1, <2>2
<1>8. \A i \in 1..(Len(a) + Len(b)) : IsOperation((a \o b)[i])
  BY <1>4, <1>5, <1>7 DEF IsSegment
<1>9. CreatedIds(a \o b) = CreatedIds(a) \cup CreatedIds(b)
  <2>1. DOMAIN a = 1..Len(a) /\ DOMAIN b = 1..Len(b)
    BY DEF IsSegment
  <2>2. ASSUME NEW x \in CreatedIds(a \o b) PROVE x \in CreatedIds(a) \cup CreatedIds(b)
    <3>1. PICK i \in 1..(Len(a) + Len(b)) : (a \o b)[i].kind = "create" /\ x = (a \o b)[i].id
      BY <1>6, <2>2 DEF CreatedIds
    <3>2. CASE i \in 1..Len(a)
      BY <1>4, <2>1, <3>1, <3>2 DEF CreatedIds
    <3>3. CASE \E j \in 1..Len(b) : i = Len(a) + j
      BY <1>5, <2>1, <3>1, <3>3 DEF CreatedIds
    <3> QED
      BY <1>7, <3>2, <3>3
  <2>3. ASSUME NEW x \in CreatedIds(a) PROVE x \in CreatedIds(a \o b)
    <3>1. PICK i \in 1..Len(a) : a[i].kind = "create" /\ x = a[i].id
      BY <2>1, <2>3 DEF CreatedIds
    <3>2. i \in 1..(Len(a) + Len(b)) /\ (a \o b)[i] = a[i]
      BY <1>1, <1>4
    <3> QED
      BY <1>6, <3>1, <3>2 DEF CreatedIds
  <2>4. ASSUME NEW x \in CreatedIds(b) PROVE x \in CreatedIds(a \o b)
    <3>1. PICK i \in 1..Len(b) : b[i].kind = "create" /\ x = b[i].id
      BY <2>1, <2>4 DEF CreatedIds
    <3>2. Len(a) + i \in 1..(Len(a) + Len(b)) /\ (a \o b)[Len(a) + i] = b[i]
      BY <1>1, <1>5
    <3> QED
      BY <1>6, <3>1, <3>2 DEF CreatedIds
  <2> QED
    BY <2>2, <2>3, <2>4
<1> QED
  BY <1>1, <1>3, <1>4, <1>5, <1>6, <1>8, <1>9 DEF IsSegment

\* How a segment that applies gets from tree to tree.
LEMMA SegmentRuns ==
    ASSUME NEW t, IsTree(t), NEW ops, IsSegment(ops), ApplySegment(t, ops) # Refused
    PROVE  \E after :
              /\ after[0] = t /\ after[Len(ops)] = ApplySegment(t, ops)
              /\ \A n \in 0..Len(ops) : IsTree(after[n])
              /\ \A n \in 1..Len(ops) : /\ Allowed(after[n - 1], ops[n])
                                        /\ after[n] = Effect(after[n - 1], ops[n])
<1>1. PICK f : /\ f = [k \in 0..Len(ops) |->
                          IF k = 0 THEN t ELSE ApplyOperation(f[k - 1], ops[k])]
               /\ ApplySegment(t, ops) = f[Len(ops)]
  BY SegmentUnfolds DEF IsSegment
<1>2. f[0] = t /\ \A k \in 1..Len(ops) : f[k] = ApplyOperation(f[k - 1], ops[k])
  BY <1>1 DEF IsSegment
\* A refusal would stay.
<1> DEFINE applies == {k \in Nat : k <= Len(ops) => f[Len(ops) - k] # Refused}
<1>3. \A k \in Nat : k \in applies
  <2>1. 0 \in applies
    BY <1>1 DEF IsSegment
  <2>2. ASSUME NEW k \in Nat, k \in applies PROVE k + 1 \in applies
    <3>1. SUFFICES ASSUME k + 1 <= Len(ops), f[Len(ops) - (k + 1)] = Refused PROVE FALSE
      OBVIOUS
    <3>2. Len(ops) - k \in 1..Len(ops) /\ (Len(ops) - k) - 1 = Len(ops) - (k + 1)
      BY <3>1 DEF IsSegment
    <3>3. f[Len(ops) - k] = Refused
      BY <1>2, <3>1, <3>2 DEF ApplyOperation
    <3> QED
      BY <2>2, <3>1, <3>3 DEF IsSegment
  <2> HIDE DEF applies
  <2> QED
    BY <2>1, <2>2, SetInduction
<1>4. \A n \in 0..Len(ops) : f[n] # Refused
  <2> TAKE n \in 0..Len(ops)
  <2>1. Len(ops) - n \in applies /\ Len(ops) - (Len(ops) - n) = n /\ Len(ops) - n <= Len(ops)
    BY <1>3 DEF IsSegment
  <2> QED
    BY <2>1
<1> DEFINE trees == {k \in Nat : k <= Len(ops) => IsTree(f[k])}
<1>5. \A k \in Nat : k \in trees
  <2>1. 0 \in trees
    BY <1>2
  <2>2. ASSUME NEW k \in Nat, k \in trees PROVE k + 1 \in trees
    <3>1. SUFFICES ASSUME k + 1 <= Len(ops) PROVE IsTree(f[k + 1])
      OBVIOUS
    <3>2. k + 1 \in 1..Len(ops) /\ f[k + 1] = ApplyOperation(f[k], ops[k + 1]) /\ IsTree(f[k])
      BY <1>2, <2>2, <3>1 DEF IsSegment
    <3>3. IsOperation(ops[k + 1]) /\ f[k + 1] # Refused
      BY <1>4, <3>2 DEF IsSegment
    <3> QED
      BY <3>2, <3>3, OperationKeepsTree
  <2> HIDE DEF trees
  <2> QED
    BY <2>1, <2>2, SetInduction
<1>6. \A n \in 0..Len(ops) : IsTree(f[n])
  BY <1>5 DEF IsSegment
<1>7. ASSUME NEW n \in 1..Len(ops)
      PROVE  Allowed(f[n - 1], ops[n]) /\ f[n] = Effect(f[n - 1], ops[n])
  <2>1. n - 1 \in 0..Len(ops) /\ n \in 0..Len(ops) /\ n \in DOMAIN ops
    BY DEF IsSegment
  <2>2. IsTree(f[n - 1]) /\ IsOperation(ops[n]) /\ ApplyOperation(f[n - 1], ops[n]) # Refused
    BY <1>2, <1>4, <1>6, <2>1 DEF IsSegment
  <2> QED
    BY <1>2, <2>2, OperationKeepsTree
<1> QED
  BY <1>1, <1>2, <1>6, <1>7

\* What does not apply stays refused, whatever follows.
LEMMA RefusedStays ==
    ASSUME NEW ops, IsSegment(ops)
    PROVE  ApplySegment(Refused, ops) = Refused
<1>1. Len(ops) \in Nat
  BY DEF IsSegment
<1>2. PICK f : /\ f = [k \in 0..Len(ops) |->
                          IF k = 0 THEN Refused ELSE ApplyOperation(f[k - 1], ops[k])]
               /\ ApplySegment(Refused, ops) = f[Len(ops)]
  BY <1>1, SegmentUnfolds
<1>3. f[0] = Refused /\ \A k \in Nat : k + 1 <= Len(ops) => f[k + 1] = ApplyOperation(f[k], ops[k + 1])
  <2>1. \A k \in Nat : k + 1 <= Len(ops) => k + 1 \in 0..Len(ops) /\ k + 1 # 0 /\ (k + 1) - 1 = k
    BY <1>1
  <2> QED
    BY <1>1, <1>2, <2>1
<1> DEFINE S == {k \in Nat : k <= Len(ops) => f[k] = Refused}
<1>4. 0 \in S
  BY <1>3
<1>5. ASSUME NEW k \in Nat, k \in S PROVE k + 1 \in S
  <2> SUFFICES ASSUME k + 1 <= Len(ops) PROVE f[k + 1] = Refused
    OBVIOUS
  <2>1. f[k] = Refused
    BY <1>1, <1>5
  <2> QED
    BY <1>3, <2>1 DEF ApplyOperation
<1>6. Len(ops) \in S
  <2> HIDE DEF S
  <2> QED
    BY <1>1, <1>4, <1>5, SetInduction
<1> QED
  BY <1>1, <1>2, <1>6

\* What a segment of operations leaves is a tree, with no id that was not
\* there or is created.
LEMMA SegmentKeepsTree ==
    ASSUME NEW t, IsTree(t), NEW ops, IsSegment(ops), ApplySegment(t, ops) # Refused
    PROVE  /\ IsTree(ApplySegment(t, ops))
           /\ DOMAIN ApplySegment(t, ops) \subseteq DOMAIN t \cup CreatedIds(ops)
           /\ CreatedIds(ops) \subseteq EntryIds
<1>1. PICK f : /\ f[0] = t /\ f[Len(ops)] = ApplySegment(t, ops)
               /\ \A n \in 0..Len(ops) : IsTree(f[n])
               /\ \A n \in 1..Len(ops) : Allowed(f[n - 1], ops[n]) /\ f[n] = Effect(f[n - 1], ops[n])
  BY SegmentRuns
<1>2. Len(ops) \in Nat /\ DOMAIN ops = 1..Len(ops) /\ \A i \in 1..Len(ops) : IsOperation(ops[i])
  BY DEF IsSegment
<1>3. CreatedIds(ops) \subseteq EntryIds
  <2>1. \A i \in 1..Len(ops) : ops[i].id \in EntryIds
    BY <1>2 DEF IsOperation, IsCreate, IsMove, IsRemove, IsSetContent
  <2> QED
    BY <1>2, <2>1 DEF CreatedIds
<1> DEFINE S == {k \in Nat : k <= Len(ops) => DOMAIN f[k] \subseteq DOMAIN t \cup CreatedIds(ops)}
<1>4. 0 \in S
  BY <1>1
<1>5. ASSUME NEW k \in Nat, k \in S PROVE k + 1 \in S
  <2>1. SUFFICES ASSUME k + 1 <= Len(ops)
                 PROVE  DOMAIN f[k + 1] \subseteq DOMAIN t \cup CreatedIds(ops)
    OBVIOUS
  <2>2. k + 1 \in 1..Len(ops) /\ (k + 1) - 1 = k /\ k \in 0..Len(ops) /\ k + 1 \in 0..Len(ops)
    BY <1>2, <2>1
  <2>3. IsTree(f[k]) /\ IsTree(f[k + 1]) /\ IsOperation(ops[k + 1])
        /\ f[k + 1] = Effect(f[k], ops[k + 1]) /\ Allowed(f[k], ops[k + 1])
    BY <1>1, <1>2, <2>2
  <2>4. ApplyOperation(f[k], ops[k + 1]) = f[k + 1] /\ f[k + 1] # Refused
    BY <2>3, OperationApplies, TreeFacts
  <2>5. \A e \in DOMAIN f[k + 1] : e \in DOMAIN f[k] \/ (IsCreate(ops[k + 1]) /\ e = ops[k + 1].id)
    BY <2>3, <2>4, OperationKeepsTree
  <2>6. IsCreate(ops[k + 1]) => ops[k + 1].id \in CreatedIds(ops)
    <3>1. IsCreate(ops[k + 1]) => ops[k + 1].kind = "create"
      BY DEF IsCreate, CreateEntry
    <3> QED
      BY <1>2, <2>2, <3>1 DEF CreatedIds
  <2> QED
    BY <1>2, <1>5, <2>1, <2>5, <2>6
<1>6. Len(ops) \in S
  <2> HIDE DEF S
  <2> QED
    BY <1>2, <1>4, <1>5, SetInduction
<1> QED
  BY <1>1, <1>2, <1>3, <1>6

-----------------------------------------------------------------------------
(* Lists of entries, and fresh ids.                                        *)

\* A strict order of a set, in which any two members are comparable.
IsOrder(S, R) ==
    /\ \A x \in S : <<x, x>> \notin R
    /\ \A x, y, z \in S : <<x, y>> \in R /\ <<y, z>> \in R => <<x, z>> \in R
    /\ \A x, y \in S : x = y \/ <<x, y>> \in R \/ <<y, x>> \in R

\* The list InOrder makes has every member of the set once, in order.
LEMMA InOrderLists ==
    ASSUME NEW S, IsFiniteSet(S), NEW R, IsOrder(S, R)
    PROVE  /\ Cardinality(S) \in Nat
           /\ DOMAIN InOrder(S, R) = 1..Cardinality(S) /\ Len(InOrder(S, R)) = Cardinality(S)
           /\ \A i \in 1..Cardinality(S) : InOrder(S, R)[i] \in S
           /\ \A x \in S : \E i \in 1..Cardinality(S) : InOrder(S, R)[i] = x
           /\ \A i, j \in 1..Cardinality(S) :
                 i < j => <<InOrder(S, R)[i], InOrder(S, R)[j]>> \in R
           /\ \A i, j \in 1..Cardinality(S) : InOrder(S, R)[i] = InOrder(S, R)[j] => i = j
<1> DEFINE under(x) == {y \in S : <<y, x>> \in R}
           rank == [x \in S |-> Cardinality(under(x)) + 1]
           size == Cardinality(S)
<1>1. size \in Nat
  BY FS_CardinalityType
<1>2. \A x \in S : /\ IsFiniteSet(under(x)) /\ Cardinality(under(x)) \in Nat
                   /\ Cardinality(under(x)) < size
  <2> TAKE x \in S
  <2>1. under(x) \in SUBSET (S \ {x})
    BY DEF IsOrder
  <2>2. IsFiniteSet(S \ {x}) /\ Cardinality(S \ {x}) = size - 1
    BY FS_RemoveElement
  <2> HIDE DEF under
  <2>3. IsFiniteSet(under(x)) /\ Cardinality(under(x)) <= size - 1
    BY <2>1, <2>2, FS_Subset
  <2>4. Cardinality(under(x)) \in Nat
    BY <2>3, FS_CardinalityType
  <2> QED
    BY <1>1, <2>3, <2>4
<1>3. \A x, y \in S : <<x, y>> \in R => Cardinality(under(x)) < Cardinality(under(y))
  <2> TAKE x, y \in S
  <2> HAVE <<x, y>> \in R
  <2>1. under(x) \in SUBSET under(y) /\ x \in under(y) /\ x \notin under(x)
    BY DEF IsOrder
  <2>2. IsFiniteSet(under(y)) /\ Cardinality(under(x)) \in Nat /\ Cardinality(under(y)) \in Nat
    BY <1>2
  <2> HIDE DEF under
  <2>3. /\ Cardinality(under(x)) <= Cardinality(under(y))
        /\ Cardinality(under(y)) = Cardinality(under(x)) => under(x) = under(y)
    BY <2>1, <2>2, FS_Subset
  <2> QED
    BY <2>1, <2>2, <2>3
<1>4. \A x \in S : rank[x] \in 1..size /\ rank[x] = Cardinality(under(x)) + 1
  <2> HIDE DEF under, size
  <2> QED
    BY <1>1, <1>2
<1>5. \A x, y \in S : <<x, y>> \in R => rank[x] < rank[y]
  <2> HIDE DEF under, rank, size
  <2> QED
    BY <1>1, <1>2, <1>3, <1>4
<1> DEFINE at == InOrder(S, R)
<1>6. at = [i \in 1..size |-> CHOOSE x \in S : Cardinality(under(x)) = i - 1]
  BY DEF InOrder
<1>7. rank \in [S -> 1..size]
  <2>1. rank = [x \in S |-> rank[x]]
    OBVIOUS
  <2> HIDE DEF rank, size
  <2> QED
    BY <1>4, <2>1
<1> HIDE DEF rank, size, at, under
<1>8. \A x, y \in S : /\ rank[x] = rank[y] => x = y
                      /\ rank[x] < rank[y] => <<x, y>> \in R
  <2> TAKE x, y \in S
  <2>1. x = y \/ <<x, y>> \in R \/ <<y, x>> \in R
    BY DEF IsOrder
  <2>2. rank[x] \in Nat /\ rank[y] \in Nat
    BY <1>1, <1>4
  <2> QED
    BY <1>5, <2>1, <2>2
<1>9. rank \in Surjection(S, 1..size)
  <2>1. rank \in Injection(S, 1..size)
    BY <1>7, <1>8 DEF Injection, IsInjective
  <2>2. IsFiniteSet(1..size) /\ Cardinality(1..size) = size
    BY <1>1, FS_Interval
  <2> QED
    BY <2>1, <2>2, FS_Injection DEF size
<1>10. \A i \in 1..size : at[i] \in S /\ rank[at[i]] = i
  <2> TAKE i \in 1..size
  <2>1. \E x \in S : rank[x] = i
    BY <1>9 DEF Surjection
  <2>2. \E x \in S : Cardinality(under(x)) = i - 1
    BY <1>1, <1>2, <1>4, <2>1
  <2>3. at[i] = CHOOSE x \in S : Cardinality(under(x)) = i - 1
    BY <1>6
  <2>4. at[i] \in S /\ Cardinality(under(at[i])) = i - 1
    BY <2>2, <2>3
  <2> QED
    BY <1>1, <1>4, <2>4
<1>11. DOMAIN at = 1..size
  BY <1>6
<1>12. Len(at) = size
  <2>1. at = [i \in 1..size |-> at[i]]
    BY <1>6
  <2>2. at \in Seq(S)
    BY <1>1, <1>10, <2>1, IsASeq
  <2> QED
    BY <1>1, <1>11, <2>2, LenProperties
<1> QED
  BY <1>1, <1>4, <1>8, <1>10, <1>11, <1>12 DEF at, size

\* Ids are listed in the order of numbers.
LEMMA ListedById ==
    ASSUME NEW S \in SUBSET EntryIds
    PROVE  IsFiniteSet(S) /\ IsOrder(S, ById(S))
<1>1. IsFiniteSet(S) /\ \A x \in S : x \in Nat
  BY EntryIdsAreFinite
<1>2. \A x, y \in S : <<x, y>> \in ById(S) <=> x < y
  BY DEF ById
<1> QED
  BY <1>1, <1>2 DEF IsOrder

\* Fresh ids are not in use, and each is handed out once.
LEMMA FreshIdsAreFree ==
    ASSUME NEW used, NEW n \in Nat, RoomFor(used, n)
    PROVE  /\ \A k \in 1..n : FreshId(used, k) \in EntryIds \ used
           /\ \A j, k \in 1..n : FreshId(used, j) = FreshId(used, k) => j = k
<1> DEFINE free == EntryIds \ used
<1>1. free \in SUBSET EntryIds
  OBVIOUS
<1>2. \A k : FreshId(used, k) = InOrder(free, ById(free))[k]
  BY DEF FreshId
<1>3. n <= Cardinality(free)
  BY EntryIdsAreFinite, <1>1 DEF RoomFor
<1> HIDE DEF free
<1>4. /\ Cardinality(free) \in Nat
      /\ \A k \in 1..Cardinality(free) : InOrder(free, ById(free))[k] \in free
      /\ \A j, k \in 1..Cardinality(free) :
            InOrder(free, ById(free))[j] = InOrder(free, ById(free))[k] => j = k
  BY <1>1, ListedById, InOrderLists
<1>5. \A k \in 1..n : k \in 1..Cardinality(free)
  BY <1>3, <1>4
<1> QED
  BY <1>2, <1>4, <1>5 DEF free

-----------------------------------------------------------------------------
(* The operations of a copy.                                               *)

\* Nothing is below itself by way of its parent.
LEMMA ParentIsNotBelow ==
    ASSUME NEW t, IsTree(t), NEW x \in DOMAIN t \ {Root}
    PROVE  t[x].parent \in DOMAIN t /\ t[x].parent \notin DownFrom(t, {x})
<1> DEFINE B == DownFrom(t, {x})
<1>1. t[x].parent \in DOMAIN t
  BY TreeFacts
<1>2. ASSUME t[x].parent \in B PROVE FALSE
  <2> DEFINE D == DOMAIN t \ B
  <2>1. Root \in D /\ x \in B /\ \A y \in B \ {x} : t[y].parent \in B
    BY SubtreeFacts, TreeFacts
  <2>2. \A y \in DOMAIN t \ {Root} : t[y].parent \in D => y \in D
    BY <1>2, <2>1
  <2>3. DOMAIN t \subseteq D
    <3> HIDE DEF D
    <3> QED
      BY <2>1, <2>2, TreeInduction
  <2> QED
    BY <2>1, <2>3
<1> QED
  BY <1>1, <1>2

\* What a copy needs to know of its operations: they create one entry for each
\* part, parents first, under ids of their own.
IsCopyPlan(t, e, p, n, ops, order, new) ==
    LET parts == DownFrom(t, {e})
        size == Cardinality(parts)
    IN  /\ size \in Nat /\ ops = [i \in 1..size |-> ops[i]]
        /\ \A i \in 1..size : order[i] \in parts
        /\ \A x \in parts : \E i \in 1..size : order[i] = x
        /\ \A i, j \in 1..size : order[i] = order[j] => i = j
        /\ \A i \in 1..size : order[i] = e \/ \E j \in 1..(i - 1) : order[j] = t[order[i]].parent
        /\ \A x \in parts : new[x] \in EntryIds
        /\ \A x, y \in parts : new[x] = new[y] => x = y
        /\ \A i \in 1..size :
              ops[i] = CreateEntry(new[order[i]],
                                   IF order[i] = e THEN p ELSE new[t[order[i]].parent],
                                   IF order[i] = e THEN n ELSE t[order[i]].name,
                                   t[order[i]].content)

\* The order of depths, then ids.
DepthOf(t, parts, x) == Cardinality({a \in parts : x \in DownFrom(t, {a})})
DepthOrder(t, parts) ==
    {q \in parts \X parts : \/ DepthOf(t, parts, q[1]) < DepthOf(t, parts, q[2])
                            \/ /\ DepthOf(t, parts, q[1]) = DepthOf(t, parts, q[2])
                               /\ q[1] < q[2]}

\* It puts a parent before its children.
LEMMA DepthOrderIsAnOrder ==
    ASSUME NEW t, IsTree(t), NEW e \in DOMAIN t, NEW parts, parts = DownFrom(t, {e})
    PROVE  /\ IsFiniteSet(parts) /\ IsOrder(parts, DepthOrder(t, parts))
           /\ \A x \in parts \ {e} : /\ t[x].parent \in parts
                                     /\ <<x, t[x].parent>> \notin DepthOrder(t, parts)
<1>1. parts \subseteq DOMAIN t /\ parts \in SUBSET EntryIds /\ IsFiniteSet(parts)
  BY SubtreeFacts, TreeFacts, EntryIdsAreFinite
<1> DEFINE above(x) == {a \in parts : x \in DownFrom(t, {a})}
           depth == [x \in parts |-> Cardinality(above(x))]
<1>2. \A x \in parts : depth[x] \in Nat /\ depth[x] = DepthOf(t, parts, x)
  <2> TAKE x \in parts
  <2>1. above(x) \in SUBSET EntryIds
    BY <1>1
  <2>2. Cardinality(above(x)) \in Nat
    <3> HIDE DEF above
    <3> QED
      BY <2>1, EntryIdsAreFinite
  <2> QED
    BY <2>2 DEF DepthOf
<1>3. \A x \in parts : x \in Nat
  BY <1>1, EntryIdsAreFinite
<1>4. \A x, y \in parts : <<x, y>> \in DepthOrder(t, parts)
                            <=> depth[x] < depth[y] \/ (depth[x] = depth[y] /\ x < y)
  <2> HIDE DEF depth
  <2> QED
    BY <1>2 DEF DepthOrder
<1>5. IsOrder(parts, DepthOrder(t, parts))
  <2> HIDE DEF depth
  <2> QED
    BY <1>2, <1>3, <1>4 DEF IsOrder
<1>6. ASSUME NEW x \in parts \ {e}
      PROVE  t[x].parent \in parts /\ <<x, t[x].parent>> \notin DepthOrder(t, parts)
  <2> DEFINE y == t[x].parent
  <2>1. y \in parts /\ x # Root
    <3>1. y \in parts
      BY SubtreeFacts
    <3>2. e # Root => Root \notin parts
      BY SubtreeFacts
    <3> QED
      BY <3>1, <3>2
  <2>2. y \in DOMAIN t /\ y \notin DownFrom(t, {x}) /\ x \in DownFrom(t, {x})
    BY <1>1, <2>1, ParentIsNotBelow, SubtreeFacts
  <2>3. above(y) \subseteq above(x)
    <3> SUFFICES ASSUME NEW a \in parts, y \in DownFrom(t, {a}) PROVE x \in DownFrom(t, {a})
      OBVIOUS
    <3>1. a \in DOMAIN t
      BY <1>1
    <3>2. Closed(t, DownFrom(t, {a}))
      BY <3>1, SubtreeFacts
    <3> QED
      BY <1>1, <3>2 DEF Closed
  <2>4. x \in above(x) /\ x \notin above(y)
    BY <2>2
  <2>5. IsFiniteSet(above(x)) /\ above(y) \in SUBSET above(x)
    <3>1. above(x) \in SUBSET EntryIds
      BY <1>1
    <3> QED
      BY <2>3, <3>1, EntryIdsAreFinite
  <2>6. Cardinality(above(y)) <= Cardinality(above(x)) /\ Cardinality(above(y)) # Cardinality(above(x))
    <3> HIDE DEF above
    <3> QED
      BY <2>4, <2>5, FS_Subset
  <2>7. depth[y] = Cardinality(above(y)) /\ depth[x] = Cardinality(above(x))
    BY <2>1
  <2>8. depth[x] \in Nat /\ depth[y] \in Nat
    BY <1>2, <2>1
  <2>9. depth[y] < depth[x]
    <3> HIDE DEF above, depth
    <3> QED
      BY <2>6, <2>7, <2>8
  <2>10. <<x, y>> \notin DepthOrder(t, parts)
    <3> HIDE DEF above, depth, y
    <3> QED
      BY <1>4, <2>1, <2>8, <2>9
  <2> QED
    BY <2>1, <2>10
<1> QED
  BY <1>1, <1>5, <1>6

\* The operations of a copy are such a plan, with ids that are not in use.
LEMMA CopyIsPlanned ==
    ASSUME NEW t, IsTree(t), NEW e \in DOMAIN t, NEW used, NEW p, NEW n,
           RoomFor(used, Cardinality(DownFrom(t, {e})))
    PROVE  \E order, new :
              /\ IsCopyPlan(t, e, p, n, CopyOperations(t, used, e, p, n), order, new)
              /\ \A x \in DownFrom(t, {e}) : new[x] \notin used
<1> DEFINE parts == DownFrom(t, {e})
           size == Cardinality(parts)
           order == InOrder(parts, DepthOrder(t, parts))
           index(x) == CHOOSE i \in DOMAIN order : order[i] = x
           new == [x \in parts |-> FreshId(used, index(x))]
           ops == CopyOperations(t, used, e, p, n)
<1>1. ops = [i \in DOMAIN order |->
               CreateEntry(FreshId(used, index(order[i])),
                           IF order[i] = e THEN p ELSE FreshId(used, index(t[order[i]].parent)),
                           IF order[i] = e THEN n ELSE t[order[i]].name,
                           t[order[i]].content)]
  BY DEF CopyOperations, DepthOrder, DepthOf
<1>2. /\ IsFiniteSet(parts) /\ IsOrder(parts, DepthOrder(t, parts))
      /\ \A x \in parts \ {e} : /\ t[x].parent \in parts
                                /\ <<x, t[x].parent>> \notin DepthOrder(t, parts)
  <2> HIDE DEF parts
  <2>1. parts = DownFrom(t, {e})
    BY DEF parts
  <2> QED
    BY <2>1, DepthOrderIsAnOrder
<1>3. /\ size \in Nat /\ DOMAIN order = 1..size
      /\ \A i \in 1..size : order[i] \in parts
      /\ \A x \in parts : \E i \in 1..size : order[i] = x
      /\ \A i, j \in 1..size : i < j => <<order[i], order[j]>> \in DepthOrder(t, parts)
      /\ \A i, j \in 1..size : order[i] = order[j] => i = j
  <2> HIDE DEF parts
  <2> QED
    BY <1>2, InOrderLists
<1> HIDE DEF order, parts, size
<1>4. \A x \in parts : index(x) \in 1..size /\ order[index(x)] = x
  BY <1>3
<1> HIDE DEF index
<1>5. \A x \in parts : new[x] = FreshId(used, index(x))
  OBVIOUS
<1> HIDE DEF new
<1>6. /\ \A k \in 1..size : FreshId(used, k) \in EntryIds \ used
      /\ \A j, k \in 1..size : FreshId(used, j) = FreshId(used, k) => j = k
  <2>1. RoomFor(used, size)
    BY DEF size, parts
  <2> QED
    BY <1>3, <2>1, FreshIdsAreFree
<1>7. \A x \in parts : new[x] \in EntryIds /\ new[x] \notin used
  BY <1>4, <1>5, <1>6
<1>8. \A x, y \in parts : new[x] = new[y] => x = y
  BY <1>4, <1>5, <1>6
<1>9. \A i \in 1..size : order[i] = e \/ \E j \in 1..(i - 1) : order[j] = t[order[i]].parent
  <2> TAKE i \in 1..size
  <2> SUFFICES ASSUME order[i] # e PROVE \E j \in 1..(i - 1) : order[j] = t[order[i]].parent
    OBVIOUS
  <2>1. order[i] \in parts \ {e}
    BY <1>3
  <2>2. PICK j \in 1..size : order[j] = t[order[i]].parent
    BY <1>2, <1>3, <2>1
  <2>3. <<order[i], order[j]>> \notin DepthOrder(t, parts)
    BY <1>2, <2>1, <2>2
  <2>4. ~(i < j)
    BY <1>3, <2>3
  <2>5. order[i] # order[j]
    <3>1. order[i] # Root /\ order[i] \in DOMAIN t
      <4>1. e # Root => Root \notin parts
        BY SubtreeFacts DEF parts
      <4>2. parts \subseteq DOMAIN t
        BY SubtreeFacts DEF parts
      <4> QED
        BY <2>1, <4>1, <4>2
    <3>2. t[order[i]].parent \notin DownFrom(t, {order[i]}) /\ order[i] \in DownFrom(t, {order[i]})
      BY <3>1, ParentIsNotBelow, SubtreeFacts
    <3> QED
      BY <2>2, <3>2
  <2> QED
    BY <1>3, <2>2, <2>4, <2>5
<1>10. DOMAIN ops = 1..size /\ \A i \in 1..size :
          ops[i] = CreateEntry(new[order[i]],
                               IF order[i] = e THEN p ELSE new[t[order[i]].parent],
                               IF order[i] = e THEN n ELSE t[order[i]].name,
                               t[order[i]].content)
  <2>1. DOMAIN ops = 1..size
    BY <1>1, <1>3
  <2> HIDE DEF ops
  <2> SUFFICES ASSUME NEW i \in 1..size
               PROVE  ops[i] = CreateEntry(new[order[i]],
                                 IF order[i] = e THEN p ELSE new[t[order[i]].parent],
                                 IF order[i] = e THEN n ELSE t[order[i]].name,
                                 t[order[i]].content)
    BY <2>1
  <2>2. new[order[i]] = FreshId(used, index(order[i]))
    BY <1>3, <1>5
  <2>3. order[i] # e => new[t[order[i]].parent] = FreshId(used, index(t[order[i]].parent))
    BY <1>2, <1>3, <1>5
  <2> QED
    BY <1>1, <1>3, <2>2, <2>3
<1>11. ops = [i \in 1..size |-> ops[i]]
  BY <1>1, <1>3
<1>12. IsCopyPlan(t, e, p, n, ops, order, new)
  <2> HIDE DEF ops
  <2> QED
    BY <1>3, <1>7, <1>8, <1>9, <1>10, <1>11 DEF IsCopyPlan, size, parts
<1> QED
  BY <1>7, <1>12 DEF parts

\* One operation is a segment, and so is none.
LEMMA OneOperation ==
    /\ IsSegment(<< >>) /\ CreatedIds(<< >>) = {}
    /\ \A op : IsOperation(op) =>
          /\ IsSegment(<<op>>)
          /\ CreatedIds(<<op>>) = IF op.kind = "create" THEN {op.id} ELSE {}
<1>1. IsSegment(<< >>) /\ CreatedIds(<< >>) = {}
  BY DEF IsSegment, CreatedIds
<1>2. ASSUME NEW op, IsOperation(op)
      PROVE  /\ IsSegment(<<op>>)
             /\ CreatedIds(<<op>>) = IF op.kind = "create" THEN {op.id} ELSE {}
  <2> DEFINE ops == <<op>>
  <2>1. ops = [i \in 1..1 |-> ops[i]] /\ ops[1] = op /\ DOMAIN ops = 1..1
    OBVIOUS
  <2> HIDE DEF ops
  <2>2. IsSegment(ops)
    <3>1. Len(ops) = 1 /\ \A i \in DOMAIN ops : IsOperation(ops[i])
      BY <1>2, <2>1 DEF ops
    <3> QED
      BY <2>1, <3>1 DEF IsSegment
  <2>3. CreatedIds(ops) = IF op.kind = "create" THEN {op.id} ELSE {}
    BY <2>1 DEF CreatedIds
  <2> QED
    BY <2>2, <2>3 DEF ops
<1> QED
  BY <1>1, <1>2

\* A copy's plan is a segment, and creates the new ids.
LEMMA CopyPlanIsSegment ==
    ASSUME NEW t, IsTree(t), NEW e \in DOMAIN t, NEW p \in EntryIds, NEW n \in Names \cup {None},
           NEW ops, NEW order, NEW new, IsCopyPlan(t, e, p, n, ops, order, new)
    PROVE  /\ IsSegment(ops) /\ Len(ops) = Cardinality(DownFrom(t, {e}))
           /\ CreatedIds(ops) = {new[x] : x \in DownFrom(t, {e})}
<1> DEFINE parts == DownFrom(t, {e})
           size == Cardinality(parts)
<1>1. /\ parts \subseteq DOMAIN t
      /\ \A x \in parts \ {e} : t[x].parent \in parts
  BY SubtreeFacts
<1>2. /\ size \in Nat /\ ops = [i \in 1..size |-> ops[i]]
      /\ \A i \in 1..size : order[i] \in parts
      /\ \A x \in parts : \E i \in 1..size : order[i] = x
      /\ \A x \in parts : new[x] \in EntryIds
      /\ \A i \in 1..size :
              ops[i] = CreateEntry(new[order[i]],
                                   IF order[i] = e THEN p ELSE new[t[order[i]].parent],
                                   IF order[i] = e THEN n ELSE t[order[i]].name,
                                   t[order[i]].content)
  BY DEF IsCopyPlan
<1> HIDE DEF parts, size
<1>3. ASSUME NEW i \in 1..size
      PROVE  IsOperation(ops[i]) /\ ops[i].kind = "create" /\ ops[i].id = new[order[i]]
  <2> DEFINE x == order[i]
             q == IF x = e THEN p ELSE new[t[x].parent]
             m == IF x = e THEN n ELSE t[x].name
  <2>1. x \in parts /\ x \in DOMAIN t /\ new[x] \in EntryIds
    BY <1>1, <1>2
  <2>2. q \in EntryIds
    BY <1>1, <1>2, <2>1
  <2>3. m \in Names \cup {None} /\ t[x].content \in Contents \cup {None}
    BY <2>1, TreeFacts
  <2>4. ops[i] = CreateEntry(new[x], q, m, t[x].content)
    BY <1>2
  <2> HIDE DEF x, q, m
  <2>5. IsCreate(ops[i]) /\ ops[i].kind = "create" /\ ops[i].id = new[x]
    BY <2>1, <2>2, <2>3, <2>4 DEF IsCreate, CreateEntry
  <2> QED
    BY <2>5 DEF IsOperation, x
<1>4. IsSegment(ops) /\ Len(ops) = size
  BY <1>2, <1>3, ListIsSegment
<1>5. CreatedIds(ops) = {new[x] : x \in parts}
  <2>1. DOMAIN ops = 1..size
    BY <1>2
  <2>2. CreatedIds(ops) = {new[order[i]] : i \in 1..size}
    BY <1>3, <2>1 DEF CreatedIds
  <2> QED
    BY <1>2, <2>2
<1> QED
  BY <1>4, <1>5 DEF size, parts

-----------------------------------------------------------------------------
(* Copies of several entries.                                              *)

\* Two entries, neither below the other, have nothing in common below them.
LEMMA SubtreesAreDisjoint ==
    ASSUME NEW t, IsTree(t), NEW d \in DOMAIN t, NEW e \in DOMAIN t,
           d \notin DownFrom(t, {e}), e \notin DownFrom(t, {d})
    PROVE  DownFrom(t, {d}) \cap DownFrom(t, {e}) = {}
<1> DEFINE D == DownFrom(t, {d}) \ DownFrom(t, {e})
<1>1. d \in D
  BY SubtreeFacts
<1>2. Closed(t, D)
  <2> SUFFICES ASSUME NEW c \in DOMAIN t, t[c].parent \in D PROVE c \in D
    BY DEF Closed
  <2>1. c \in DownFrom(t, {d})
    <3>1. Closed(t, DownFrom(t, {d}))
      BY SubtreeFacts
    <3> QED
      BY <3>1 DEF Closed
  <2>2. ASSUME c \in DownFrom(t, {e}) PROVE FALSE
    <3>1. c # e
      BY <2>1
    <3>2. t[c].parent \in DownFrom(t, {e})
      BY <2>2, <3>1, SubtreeFacts
    <3> QED
      BY <3>2
  <2> QED
    BY <2>1, <2>2
<1>3. DownFrom(t, {d}) \subseteq D
  <2> HIDE DEF D
  <2> QED
    BY <1>1, <1>2, SubtreeFacts
<1> QED
  BY <1>3

\* Of a selection, the entries at the top have disjoint subtrees, all of them
\* below the selection.
LEMMA TopLevelFacts ==
    ASSUME NEW t, IsTree(t), NEW E \in SUBSET DOMAIN t
    PROVE  /\ TopLevel(t, E) \subseteq E
           /\ \A d, e \in TopLevel(t, E) :
                 d # e => /\ d \notin DownFrom(t, {e})
                          /\ DownFrom(t, {d}) \cap DownFrom(t, {e}) = {}
           /\ \A e \in E : DownFrom(t, {e}) \subseteq DownFrom(t, E)
           /\ DownFrom(t, E) \in SUBSET EntryIds
<1>1. TopLevel(t, E) \subseteq E
  BY DEF TopLevel
<1>2. ASSUME NEW d \in TopLevel(t, E), NEW e \in TopLevel(t, E), d # e
      PROVE  d \notin DownFrom(t, {e}) /\ DownFrom(t, {d}) \cap DownFrom(t, {e}) = {}
  <2>1. d \notin DownFrom(t, {e}) /\ e \notin DownFrom(t, {d}) /\ d \in DOMAIN t /\ e \in DOMAIN t
    BY <1>2 DEF TopLevel
  <2> QED
    BY <2>1, SubtreesAreDisjoint
<1>3. IsFiniteSet(DOMAIN t) /\ DOMAIN t \subseteq EntryIds
  BY TreeFacts
<1>4. E \subseteq DownFrom(t, E) /\ DownFrom(t, E) \subseteq DOMAIN t
  BY <1>3, DownFromIsLeast
<1>5. ASSUME NEW e \in E PROVE DownFrom(t, {e}) \subseteq DownFrom(t, E)
  <2>1. {e} \in SUBSET DownFrom(t, E)
    BY <1>4
  <2> QED
    BY <1>3, <2>1, BelowIsTransitive
<1> QED
  BY <1>1, <1>2, <1>3, <1>4, <1>5

\* A selection has entries at its top.
LEMMA TopLevelIsNotEmpty ==
    ASSUME NEW t, IsTree(t), NEW E \in SUBSET DOMAIN t, E # {}
    PROVE  TopLevel(t, E) # {}
<1> DEFINE D == {x \in DOMAIN t : (\E e \in E : x \in DownFrom(t, {e})) => TopLevel(t, E) # {}}
<1>1. Root \in D
  <2> SUFFICES ASSUME NEW e \in E, Root \in DownFrom(t, {e}) PROVE TopLevel(t, E) # {}
    BY TreeFacts
  <2>1. \A d \in E : d # Root => Root \notin DownFrom(t, {d})
    BY SubtreeFacts
  <2>2. Root \in E
    BY <2>1
  <2>3. Root \in TopLevel(t, E)
    BY <2>1, <2>2 DEF TopLevel
  <2> QED
    BY <2>3
<1>2. ASSUME NEW x \in DOMAIN t \ {Root}, t[x].parent \in D PROVE x \in D
  <2> SUFFICES ASSUME NEW e \in E, x \in DownFrom(t, {e}) PROVE TopLevel(t, E) # {}
    OBVIOUS
  <2>1. CASE \E d \in E : d # x /\ x \in DownFrom(t, {d})
    <3>1. PICK d \in E : d # x /\ x \in DownFrom(t, {d})
      BY <2>1
    <3>2. t[x].parent \in DownFrom(t, {d})
      BY <3>1, SubtreeFacts
    <3> QED
      BY <1>2, <3>2
  <2>2. CASE ~\E d \in E : d # x /\ x \in DownFrom(t, {d})
    <3>1. x \in TopLevel(t, E)
      BY <2>2 DEF TopLevel
    <3> QED
      BY <3>1
  <2> QED
    BY <2>1, <2>2
<1>3. DOMAIN t \subseteq D
  <2> HIDE DEF D
  <2> QED
    BY <1>1, <1>2, TreeInduction
<1>4. PICK e \in E : e \in DOMAIN t /\ e \in DownFrom(t, {e})
  BY SubtreeFacts
<1> QED
  BY <1>3, <1>4

\* Room for a set of copies is, after a part of it has been copied, room for
\* the rest.
LEMMA RoomForTheRest ==
    ASSUME NEW used, NEW all \in SUBSET EntryIds, NEW parts \in SUBSET all,
           RoomFor(used, Cardinality(all)),
           NEW made \in SUBSET (EntryIds \ used), Cardinality(made) = Cardinality(parts)
    PROVE  RoomFor(used \cup made, Cardinality(all \ parts))
<1> DEFINE free == EntryIds \ used
           left == EntryIds \ (used \cup made)
           rest == all \ parts
<1>1. /\ IsFiniteSet(all) /\ IsFiniteSet(parts) /\ IsFiniteSet(rest) /\ IsFiniteSet(free)
      /\ IsFiniteSet(made) /\ IsFiniteSet(left)
      /\ Cardinality(all) \in Nat /\ Cardinality(parts) \in Nat /\ Cardinality(rest) \in Nat
      /\ Cardinality(free) \in Nat /\ Cardinality(made) \in Nat /\ Cardinality(left) \in Nat
  <2>1. all \in SUBSET EntryIds /\ parts \in SUBSET EntryIds /\ rest \in SUBSET EntryIds
        /\ free \in SUBSET EntryIds /\ made \in SUBSET EntryIds /\ left \in SUBSET EntryIds
    OBVIOUS
  <2> HIDE DEF free, left, rest
  <2> QED
    BY <2>1, EntryIdsAreFinite
<1>2. rest \cup parts = all /\ rest \cap parts = {} /\ left \cup made = free /\ left \cap made = {}
  OBVIOUS
<1>3. /\ Cardinality(all) = Cardinality(rest) + Cardinality(parts)
      /\ Cardinality(free) = Cardinality(left) + Cardinality(made)
  <2> HIDE DEF free, left, rest
  <2>1. Cardinality(rest \cup parts) = Cardinality(rest) + Cardinality(parts) - Cardinality(rest \cap parts)
    BY <1>1, FS_Union
  <2>2. Cardinality(left \cup made) = Cardinality(left) + Cardinality(made) - Cardinality(left \cap made)
    BY <1>1, FS_Union
  <2>3. rest \cap parts = {} /\ left \cap made = {}
    BY <1>2
  <2>4. Cardinality(rest \cap parts) = 0 /\ Cardinality(left \cap made) = 0
    BY <2>3, FS_EmptySet
  <2>5. rest \cup parts = all /\ left \cup made = free
    BY <1>2
  <2>6. /\ Cardinality(all) = Cardinality(rest) + Cardinality(parts) - 0
        /\ Cardinality(free) = Cardinality(left) + Cardinality(made) - 0
    BY <2>1, <2>2, <2>4, <2>5, Zenon
  <2> QED
    BY <1>1, <2>6
<1>4. Cardinality(free) >= Cardinality(all)
  BY DEF RoomFor
<1>5. Cardinality(left) >= Cardinality(rest)
  <2> HIDE DEF free, left, rest
  <2> QED
    BY <1>1, <1>3, <1>4
<1> QED
  BY <1>5 DEF RoomFor

-----------------------------------------------------------------------------
(* Paths.                                                                  *)

\* The paths of some entries, with each those above it.
IsPathMap(t, f) ==
    /\ DOMAIN f \subseteq DOMAIN t
    /\ \A x \in DOMAIN f \ {Root} : t[x].parent \in DOMAIN f
    /\ f = [x \in DOMAIN f |-> IF x = Root THEN << >> ELSE Append(f[t[x].parent], t[x].name)]

\* The recursion of PathOf has a solution: every entry hangs on the root.
LEMMA PathOfUnfolds ==
    ASSUME NEW t, IsTree(t)
    PROVE  /\ PathOf(t, Root) = << >>
           /\ \A x \in DOMAIN t \ {Root} :
                 PathOf(t, x) = Append(PathOf(t, t[x].parent), t[x].name)
<1>1. ASSUME NEW f, IsPathMap(t, f), NEW g, IsPathMap(t, g)
      PROVE  \A x \in DOMAIN f \cap DOMAIN g : f[x] = g[x]
  <2> DEFINE S == {x \in DOMAIN t : x \in DOMAIN f \cap DOMAIN g => f[x] = g[x]}
  <2>1. Root \in S
    <3>1. Root \in DOMAIN f => f[Root] = << >>
      BY <1>1 DEF IsPathMap
    <3>2. Root \in DOMAIN g => g[Root] = << >>
      BY <1>1 DEF IsPathMap
    <3> QED
      BY <3>1, <3>2, TreeFacts
  <2>2. ASSUME NEW x \in DOMAIN t \ {Root}, t[x].parent \in S PROVE x \in S
    <3> SUFFICES ASSUME x \in DOMAIN f, x \in DOMAIN g PROVE f[x] = g[x]
      OBVIOUS
    <3>1. f[x] = Append(f[t[x].parent], t[x].name) /\ t[x].parent \in DOMAIN f
      BY <1>1 DEF IsPathMap
    <3>2. g[x] = Append(g[t[x].parent], t[x].name) /\ t[x].parent \in DOMAIN g
      BY <1>1 DEF IsPathMap
    <3> QED
      BY <2>2, <3>1, <3>2
  <2>3. DOMAIN t \subseteq S
    <3> HIDE DEF S
    <3> QED
      BY <2>1, <2>2, TreeInduction
  <2> QED
    BY <1>1, <2>3 DEF IsPathMap
<1> DEFINE P == {x \in DOMAIN t : \E f : IsPathMap(t, f) /\ x \in DOMAIN f}
<1>2. Root \in P
  <2> DEFINE f == [x \in {Root} |-> << >>]
  <2>1. IsPathMap(t, f)
    BY TreeFacts DEF IsPathMap
  <2>2. Root \in DOMAIN f
    OBVIOUS
  <2> HIDE DEF f
  <2> QED
    BY <2>1, <2>2, TreeFacts
<1>3. ASSUME NEW x \in DOMAIN t \ {Root}, t[x].parent \in P PROVE x \in P
  <2>1. PICK f : IsPathMap(t, f) /\ t[x].parent \in DOMAIN f
    BY <1>3
  <2>2. CASE x \in DOMAIN f
    BY <2>1, <2>2
  <2>3. CASE x \notin DOMAIN f
    <3> DEFINE g == [y \in DOMAIN f \cup {x} |->
                       IF y = x THEN Append(f[t[x].parent], t[x].name) ELSE f[y]]
    <3>1. DOMAIN g = DOMAIN f \cup {x} /\ g[x] = Append(f[t[x].parent], t[x].name)
          /\ \A y \in DOMAIN f : g[y] = f[y]
      BY <2>3
    <3>2. \A y \in DOMAIN g : g[y] = IF y = Root THEN << >> ELSE Append(g[t[y].parent], t[y].name)
      <4>1. \A y \in DOMAIN f : f[y] = IF y = Root THEN << >> ELSE Append(f[t[y].parent], t[y].name)
        BY <2>1 DEF IsPathMap
      <4>2. \A y \in DOMAIN f \ {Root} : t[y].parent \in DOMAIN f
        BY <2>1 DEF IsPathMap
      <4> HIDE DEF g
      <4> QED
        BY <2>1, <3>1, <4>1, <4>2
    <3>3. g = [y \in DOMAIN g |-> IF y = Root THEN << >> ELSE Append(g[t[y].parent], t[y].name)]
      <4>1. g = [y \in DOMAIN g |-> g[y]]
        BY <3>1
      <4> HIDE DEF g
      <4> QED
        BY <3>2, <4>1
    <3>4. IsPathMap(t, g)
      <4> HIDE DEF g
      <4> QED
        BY <2>1, <3>1, <3>3 DEF IsPathMap
    <3>5. x \in DOMAIN g
      BY <3>1
    <3> HIDE DEF g
    <3> QED
      BY <3>4, <3>5
  <2> QED
    BY <2>2, <2>3
<1>4. DOMAIN t \subseteq P
  <2> HIDE DEF P
  <2> QED
    BY <1>2, <1>3, TreeInduction
<1> DEFINE mapOf(x) == CHOOSE f : IsPathMap(t, f) /\ x \in DOMAIN f
           whole == [x \in DOMAIN t |-> mapOf(x)[x]]
<1>5. \A x \in DOMAIN t : IsPathMap(t, mapOf(x)) /\ x \in DOMAIN mapOf(x)
  BY <1>4
<1> HIDE DEF mapOf
<1>6. whole = [x \in DOMAIN t |-> IF x = Root THEN << >> ELSE Append(whole[t[x].parent], t[x].name)]
  <2>1. ASSUME NEW x \in DOMAIN t
        PROVE  mapOf(x)[x] = IF x = Root THEN << >> ELSE Append(whole[t[x].parent], t[x].name)
    <3> DEFINE f == mapOf(x)
    <3>1. IsPathMap(t, f) /\ x \in DOMAIN f
      BY <1>5
    <3> HIDE DEF f
    <3>2. f[x] = IF x = Root THEN << >> ELSE Append(f[t[x].parent], t[x].name)
      BY <3>1 DEF IsPathMap
    <3>3. x # Root => f[t[x].parent] = whole[t[x].parent]
      <4> SUFFICES ASSUME x # Root PROVE f[t[x].parent] = whole[t[x].parent]
        OBVIOUS
      <4> DEFINE q == t[x].parent
      <4>1. q \in DOMAIN t /\ q \in DOMAIN f
        BY <3>1, TreeFacts DEF IsPathMap
      <4>2. whole[q] = mapOf(q)[q] /\ IsPathMap(t, mapOf(q)) /\ q \in DOMAIN mapOf(q)
        BY <1>5, <4>1
      <4> HIDE DEF whole, q
      <4>3. f[q] = mapOf(q)[q]
        BY <1>1, <3>1, <4>1, <4>2
      <4> QED
        BY <4>2, <4>3 DEF q
    <3> QED
      BY <3>2, <3>3 DEF f
  <2> QED
    BY <2>1
<1> DEFINE solves(f) == f = [x \in DOMAIN t |->
                       IF x = Root THEN << >> ELSE Append(f[t[x].parent], t[x].name)]
           path == CHOOSE f : solves(f)
<1>7. \A e : PathOf(t, e) = path[e]
  BY DEF PathOf
<1>8. solves(path)
  <2>1. solves(whole)
    BY <1>6
  <2> HIDE DEF solves, whole
  <2> QED
    BY <2>1
<1>9. path = [x \in DOMAIN t |->
                       IF x = Root THEN << >> ELSE Append(path[t[x].parent], t[x].name)]
  <2> HIDE DEF path
  <2> QED
    BY <1>8
<1> HIDE DEF path
<1>10. PathOf(t, Root) = << >>
  <2>1. path[Root] = << >>
    BY <1>9, TreeFacts
  <2> QED
    BY <1>7, <2>1
<1>11. ASSUME NEW x \in DOMAIN t \ {Root}
       PROVE  PathOf(t, x) = Append(PathOf(t, t[x].parent), t[x].name)
  <2>1. path[x] = Append(path[t[x].parent], t[x].name)
    BY <1>9
  <2>2. PathOf(t, x) = path[x] /\ PathOf(t, t[x].parent) = path[t[x].parent]
    BY <1>7
  <2> QED
    BY <2>1, <2>2
<1> QED
  BY <1>10, <1>11

\* Paths are sequences of names, and no two entries have the same one.
LEMMA PathsAreSequences ==
    ASSUME NEW t, IsTree(t)
    PROVE  \A x \in DOMAIN t : /\ PathOf(t, x) \in Seq(Names \cup {None})
                               /\ Len(PathOf(t, x)) \in Nat
<1> DEFINE S == {x \in DOMAIN t : PathOf(t, x) \in Seq(Names \cup {None})}
<1>1. Root \in S
  <2>1. PathOf(t, Root) = << >> /\ Root \in DOMAIN t
    BY PathOfUnfolds, TreeFacts
  <2> QED
    BY <2>1
<1>2. ASSUME NEW x \in DOMAIN t \ {Root}, t[x].parent \in S PROVE x \in S
  <2>1. PathOf(t, x) = Append(PathOf(t, t[x].parent), t[x].name)
    BY PathOfUnfolds
  <2>2. t[x].name \in Names \cup {None} /\ PathOf(t, t[x].parent) \in Seq(Names \cup {None})
    BY <1>2, TreeFacts
  <2> DEFINE above == PathOf(t, t[x].parent)
             n == t[x].name
  <2> HIDE DEF above, n
  <2>3. Append(above, n) \in Seq(Names \cup {None})
    BY <2>2 DEF above, n
  <2> QED
    BY <2>1, <2>3 DEF above, n
<1>3. DOMAIN t \subseteq S
  <2> HIDE DEF S
  <2> QED
    BY <1>1, <1>2, TreeInduction
<1> QED
  BY <1>3, LenProperties

\* Different entries have different paths.
LEMMA PathsAreDifferent ==
    ASSUME NEW t, IsTree(t)
    PROVE  \A x, y \in DOMAIN t : PathOf(t, x) = PathOf(t, y) => x = y
<1> DEFINE S == {x \in DOMAIN t : \A y \in DOMAIN t : PathOf(t, x) = PathOf(t, y) => x = y}
<1>1. \A x \in DOMAIN t \ {Root} :
         /\ t[x].parent \in DOMAIN t /\ PathOf(t, t[x].parent) \in Seq(Names \cup {None})
         /\ PathOf(t, x) = Append(PathOf(t, t[x].parent), t[x].name)
         /\ t[x].name \in Names \cup {None}
  BY TreeFacts, PathsAreSequences, PathOfUnfolds
<1>2. \A x \in DOMAIN t \ {Root} : PathOf(t, x) # << >>
  BY <1>1, AppendProperties
<1>3. PathOf(t, Root) = << >>
  BY PathOfUnfolds
<1>4. Root \in S
  BY <1>2, <1>3, TreeFacts
<1>5. ASSUME NEW x \in DOMAIN t \ {Root}, t[x].parent \in S PROVE x \in S
  <2> SUFFICES ASSUME NEW y \in DOMAIN t, PathOf(t, x) = PathOf(t, y) PROVE x = y
    OBVIOUS
  <2>1. y # Root
    BY <1>2, <1>3
  <2> DEFINE p == PathOf(t, t[x].parent)
             q == PathOf(t, t[y].parent)
  <2>2. p \in Seq(Names \cup {None}) /\ q \in Seq(Names \cup {None})
        /\ t[x].name \in Names \cup {None} /\ t[y].name \in Names \cup {None}
        /\ Append(p, t[x].name) = Append(q, t[y].name)
    BY <1>1, <2>1
  <2> HIDE DEF p, q
  <2>3. p = q /\ t[x].name = t[y].name
    BY <2>2, AppendInjective
  <2>4. t[x].parent = t[y].parent
    BY <1>1, <1>5, <2>1, <2>3 DEF p, q
  <2> QED
    BY <2>3, <2>4 DEF IsTree, ValidTree
<1>6. DOMAIN t \subseteq S
  <2> HIDE DEF S
  <2> QED
    BY <1>4, <1>5, TreeInduction
<1> QED
  BY <1>6

\* An entry is at its path.
LEMMA EntryAtItsPath ==
    ASSUME NEW t, IsTree(t)
    PROVE  \A x \in DOMAIN t : EntryAt(t, PathOf(t, x)) = x
<1> TAKE x \in DOMAIN t
<1> DEFINE there == {e \in DOMAIN t : PathOf(t, e) = PathOf(t, x)}
<1>1. there = {x}
  BY PathsAreDifferent
<1> QED
  BY <1>1 DEF EntryAt

-----------------------------------------------------------------------------
(* Shapes.                                                                 *)

\* The end of a sequence that is longer by one.
LEMMA SubSeqOfAppend ==
    ASSUME NEW S, NEW s \in Seq(S), NEW n \in S, NEW low \in 1..(Len(s) + 1)
    PROVE  SubSeq(Append(s, n), low, Len(s) + 1) = Append(SubSeq(s, low, Len(s)), n)
<1> DEFINE whole == Append(s, n)
           a == SubSeq(whole, low, Len(s) + 1)
           b == SubSeq(s, low, Len(s))
<1>1. Len(s) \in Nat
  OBVIOUS
<1>2. /\ \A i \in 1..Len(s) : whole[i] = s[i] /\ s[i] \in S
      /\ whole[Len(s) + 1] = n
  BY <1>1, ElementOfSeq
<1>3. \A i \in low..(Len(s) + 1) : whole[i] \in S
  BY <1>1, <1>2
<1> HIDE DEF whole
<1>4. /\ a \in Seq(S) /\ Len(a) = Len(s) + 1 - low + 1
      /\ \A i \in 1..(Len(s) + 1 - low + 1) : a[i] = whole[low + i - 1]
  BY <1>1, <1>3, SubSeqProperties
<1>5. /\ b \in Seq(S) /\ Len(b) = Len(s) - low + 1
      /\ \A i \in 1..(Len(s) - low + 1) : b[i] = s[low + i - 1]
  BY <1>1, <1>2, SubSeqProperties
<1> HIDE DEF a, b
<1>6. /\ Append(b, n) \in Seq(S) /\ Len(Append(b, n)) = Len(b) + 1
      /\ \A i \in 1..Len(b) : Append(b, n)[i] = b[i]
      /\ Append(b, n)[Len(b) + 1] = n
  BY <1>5
<1>7. \A i \in 1..Len(a) : a[i] = Append(b, n)[i]
  <2> TAKE i \in 1..Len(a)
  <2>1. CASE i <= Len(b)
    <3>1. i \in 1..Len(b) /\ low + i - 1 \in 1..Len(s)
      BY <1>1, <1>5, <2>1
    <3>2. a[i] = whole[low + i - 1] /\ Append(b, n)[i] = s[low + i - 1]
      BY <1>1, <1>4, <1>5, <1>6, <3>1
    <3> QED
      BY <1>2, <3>1, <3>2
  <2>2. CASE ~(i <= Len(b))
    <3>1. i = Len(b) + 1 /\ low + i - 1 = Len(s) + 1
      <4>1. low \in Nat /\ Len(b) \in Nat /\ Len(b) = Len(s) - low + 1 /\ Len(a) = Len(b) + 1
        BY <1>1, <1>4, <1>5
      <4>2. i \in Nat /\ i <= Len(b) + 1
        BY <4>1
      <4> QED
        BY <1>1, <2>2, <4>1, <4>2
    <3> QED
      BY <1>1, <1>2, <1>4, <1>6, <3>1
  <2> QED
    BY <2>1, <2>2
<1>8. a = Append(b, n)
  BY <1>1, <1>4, <1>5, <1>6, <1>7, SeqEqual
<1> QED
  BY <1>8 DEF a, b, whole

\* Below an entry, paths are longer than its own, and relative ones grow by the
\* names.
LEMMA RelativePaths ==
    ASSUME NEW t, IsTree(t), NEW e \in DOMAIN t
    PROVE  /\ RelativePath(t, e, e) = << >>
           /\ \A x \in DownFrom(t, {e}) \ {e} :
                 RelativePath(t, e, x) = Append(RelativePath(t, e, t[x].parent), t[x].name)
<1> DEFINE base == PathOf(t, e)
           D == {x \in DownFrom(t, {e}) : Len(PathOf(t, x)) >= Len(base)}
<1>1. base \in Seq(Names \cup {None}) /\ Len(base) \in Nat
  BY PathsAreSequences
<1>2. RelativePath(t, e, e) = << >>
  <2>1. Len(base) < Len(base) + 1 /\ Len(base) + 1 \in Int /\ Len(base) \in Int
    BY <1>1
  <2> QED
    BY <2>1, SubSeqEmpty DEF RelativePath
<1>3. \A x \in DownFrom(t, {e}) \ {e} :
         /\ x \in DOMAIN t \ {Root} /\ t[x].parent \in DownFrom(t, {e}) /\ t[x].parent \in DOMAIN t
  <2>1. e # Root => Root \notin DownFrom(t, {e})
    BY SubtreeFacts
  <2> QED
    BY <2>1, SubtreeFacts
<1>4. \A x \in DOMAIN t \ {Root} : Len(PathOf(t, x)) = Len(PathOf(t, t[x].parent)) + 1
  <2> TAKE x \in DOMAIN t \ {Root}
  <2> DEFINE above == PathOf(t, t[x].parent)
  <2>1. PathOf(t, x) = Append(above, t[x].name)
    BY PathOfUnfolds
  <2>2. above \in Seq(Names \cup {None})
    BY TreeFacts, PathsAreSequences
  <2> HIDE DEF above
  <2>3. Len(Append(above, t[x].name)) = Len(above) + 1
    BY <2>2
  <2> QED
    BY <2>1, <2>3 DEF above
<1>5. Closed(t, D)
  <2> SUFFICES ASSUME NEW c \in DOMAIN t, t[c].parent \in D PROVE c \in D
    BY DEF Closed
  <2>1. c \in DownFrom(t, {e})
    <3>1. Closed(t, DownFrom(t, {e}))
      BY SubtreeFacts
    <3> QED
      BY <3>1 DEF Closed
  <2>2. c # Root
    <3>1. D \subseteq EntryIds
      BY TreeFacts, SubtreeFacts
    <3> QED
      BY <3>1, TreeFacts, EntryIdsAreFinite
  <2>3. Len(PathOf(t, c)) = Len(PathOf(t, t[c].parent)) + 1 /\ Len(PathOf(t, t[c].parent)) \in Nat
    BY <1>4, <2>2, PathsAreSequences, TreeFacts
  <2>4. Len(PathOf(t, c)) >= Len(base)
    <3> HIDE DEF base
    <3> QED
      BY <1>1, <2>3
  <2> QED
    BY <2>1, <2>4
<1>6. DownFrom(t, {e}) \subseteq D
  <2>1. e \in D
    BY <1>1, SubtreeFacts
  <2> HIDE DEF D
  <2> QED
    BY <1>5, <2>1, SubtreeFacts
<1>7. ASSUME NEW x \in DownFrom(t, {e}) \ {e}
      PROVE  RelativePath(t, e, x) = Append(RelativePath(t, e, t[x].parent), t[x].name)
  <2> DEFINE above == PathOf(t, t[x].parent)
             n == t[x].name
             whole == Append(above, n)
             low == Len(base) + 1
  <2>1. PathOf(t, x) = whole
    BY <1>3, PathOfUnfolds
  <2>2. above \in Seq(Names \cup {None}) /\ Len(above) \in Nat /\ Len(above) >= Len(base)
    BY <1>3, <1>6, PathsAreSequences
  <2>3. n \in Names \cup {None}
    BY <1>3, TreeFacts
  <2>4. RelativePath(t, e, x) = SubSeq(whole, low, Len(whole))
        /\ RelativePath(t, e, t[x].parent) = SubSeq(above, low, Len(above))
    BY <2>1 DEF RelativePath
  <2> HIDE DEF above, n, base
  <2>5. Len(whole) = Len(above) + 1
    BY <2>2
  <2>6. low \in 1..(Len(above) + 1)
    BY <1>1, <2>2
  <2>7. SubSeq(whole, low, Len(whole)) = Append(SubSeq(above, low, Len(above)), n)
    BY <2>2, <2>3, <2>5, <2>6, SubSeqOfAppend
  <2> QED
    BY <2>4, <2>7 DEF n
<1> QED
  BY <1>2, <1>7

\* Entries have the same shape if a map from what is below the one to the
\* other's tree keeps parents, names and contents, and nothing else is below
\* the other.
LEMMA ShapesAgree ==
    ASSUME NEW t, IsTree(t), NEW u, IsTree(u), NEW e \in DOMAIN t, NEW new,
           \A x \in DownFrom(t, {e}) :
              /\ new[x] \in DOMAIN u /\ u[new[x]].content = t[x].content
              /\ x # e => /\ u[new[x]].parent = new[t[x].parent] /\ u[new[x]].name = t[x].name
                          /\ new[x] # new[e],
           Closed(u, {new[x] : x \in DownFrom(t, {e})})
    PROVE  Shape(u, new[e]) = Shape(t, e) /\ DownFrom(u, {new[e]}) = {new[x] : x \in DownFrom(t, {e})}
<1> DEFINE parts == DownFrom(t, {e})
           f == new[e]
           made == {new[x] : x \in parts}
<1>1. /\ e \in parts /\ Closed(t, parts) /\ parts \subseteq DOMAIN t
      /\ \A D : e \in D /\ Closed(t, D) => parts \subseteq D
      /\ \A x \in parts \ {e} : t[x].parent \in parts
  BY SubtreeFacts
<1>2. f \in DOMAIN u
  BY <1>1
<1>3. /\ f \in DownFrom(u, {f}) /\ Closed(u, DownFrom(u, {f}))
      /\ \A D : f \in D /\ Closed(u, D) => DownFrom(u, {f}) \subseteq D
  BY <1>2, SubtreeFacts
<1>4. DownFrom(u, {f}) \subseteq made
  BY <1>1, <1>3
<1> DEFINE D == {x \in parts : /\ new[x] \in DownFrom(u, {f})
                               /\ RelativePath(u, f, new[x]) = RelativePath(t, e, x)}
<1>5. Closed(t, D)
  <2> SUFFICES ASSUME NEW c \in DOMAIN t, t[c].parent \in D PROVE c \in D
    BY DEF Closed
  <2>1. c \in parts
    BY <1>1 DEF Closed
  <2>2. c # e
    <3>1. e # Root => t[e].parent \notin parts
      BY ParentIsNotBelow
    <3>2. e = Root => t[e].parent \notin parts
      <4>1. t[Root].parent = None /\ DOMAIN t \subseteq EntryIds /\ None \notin EntryIds
        BY TreeFacts, EntryIdsAreFinite
      <4> QED
        BY <1>1, <4>1
    <3> QED
      BY <3>1, <3>2
  <2>3. u[new[c]].parent = new[t[c].parent] /\ u[new[c]].name = t[c].name /\ new[c] \in DOMAIN u
        /\ new[c] # f
    BY <2>1, <2>2
  <2>4. new[c] \in DownFrom(u, {f})
    BY <1>3, <2>3 DEF Closed
  <2>5. RelativePath(t, e, c) = Append(RelativePath(t, e, t[c].parent), t[c].name)
    BY <2>1, <2>2, RelativePaths
  <2>6. RelativePath(u, f, new[c]) = Append(RelativePath(u, f, u[new[c]].parent), u[new[c]].name)
    BY <1>2, <2>3, <2>4, RelativePaths
  <2>7. RelativePath(u, f, new[t[c].parent]) = RelativePath(t, e, t[c].parent)
    OBVIOUS
  <2> QED
    BY <2>1, <2>3, <2>4, <2>5, <2>6, <2>7
<1>6. parts \subseteq D
  <2>1. e \in D
    BY <1>1, <1>2, <1>3, RelativePaths
  <2> HIDE DEF D, parts
  <2> QED
    BY <1>1, <1>5, <2>1
<1>7. made \subseteq DownFrom(u, {f})
  BY <1>6
<1>8. DownFrom(u, {f}) = made
  BY <1>4, <1>7
<1> DEFINE at(d) == <<RelativePath(u, f, d), u[d].content>>
<1>9. Shape(u, f) = {<<RelativePath(u, f, new[x]), u[new[x]].content>> : x \in parts}
  <2>1. Shape(u, f) = {at(d) : d \in made}
    BY <1>8 DEF Shape
  <2>2. {at(d) : d \in made} = {at(new[x]) : x \in parts}
    <3> HIDE DEF at
    <3> QED
      OBVIOUS
  <2> QED
    BY <2>1, <2>2
<1>10. \A x \in parts : RelativePath(u, f, new[x]) = RelativePath(t, e, x) /\ u[new[x]].content = t[x].content
  BY <1>6
<1>11. Shape(u, f) = {<<RelativePath(t, e, x), t[x].content>> : x \in parts}
  <2> HIDE DEF f, parts, made
  <2> QED
    BY <1>9, <1>10
<1> QED
  BY <1>8, <1>11 DEF Shape

\* A tree with more entries has the same shapes where nothing was added.
LEMMA ShapesStay ==
    ASSUME NEW t, IsTree(t), NEW u, IsTree(u), DOMAIN t \subseteq DOMAIN u,
           \A x \in DOMAIN t : u[x] = t[x], NEW e \in DOMAIN t,
           Closed(u, DownFrom(t, {e}))
    PROVE  Shape(u, e) = Shape(t, e) /\ DownFrom(u, {e}) = DownFrom(t, {e})
<1> DEFINE new == [x \in DownFrom(t, {e}) |-> x]
<1>1. e \in DownFrom(t, {e}) /\ DownFrom(t, {e}) \subseteq DOMAIN t
      /\ \A x \in DownFrom(t, {e}) \ {e} : t[x].parent \in DownFrom(t, {e})
  BY SubtreeFacts
<1>2. \A x \in DownFrom(t, {e}) : new[x] = x
  OBVIOUS
<1>3. {new[x] : x \in DownFrom(t, {e})} = DownFrom(t, {e})
  OBVIOUS
<1> HIDE DEF new
<1>4. \A x \in DownFrom(t, {e}) :
              /\ new[x] \in DOMAIN u /\ u[new[x]].content = t[x].content
              /\ x # e => /\ u[new[x]].parent = new[t[x].parent] /\ u[new[x]].name = t[x].name
                          /\ new[x] # new[e]
  BY <1>1, <1>2
<1>5. Closed(u, {new[x] : x \in DownFrom(t, {e})})
  BY <1>3
<1>6. Shape(u, new[e]) = Shape(t, e) /\ DownFrom(u, {new[e]}) = {new[x] : x \in DownFrom(t, {e})}
  BY <1>4, <1>5, ShapesAgree
<1> QED
  BY <1>1, <1>2, <1>3, <1>6

-----------------------------------------------------------------------------
(* What a copy leaves.                                                     *)

\* A segment made of two is applied one after the other.
LEMMA SegmentsAreAppliedInTurn ==
    ASSUME NEW t, NEW a, IsSegment(a), NEW b, IsSegment(b)
    PROVE  ApplySegment(t, a \o b) = ApplySegment(ApplySegment(t, a), b)
<1> DEFINE ab == a \o b
           v == ApplySegment(t, a)
<1>1. /\ Len(a) \in Nat /\ Len(b) \in Nat /\ Len(ab) = Len(a) + Len(b)
      /\ \A i \in 1..Len(a) : ab[i] = a[i]
      /\ \A i \in 1..Len(b) : ab[Len(a) + i] = b[i]
  BY SegmentsJoin DEF IsSegment
<1> HIDE DEF ab, v
<1>2. PICK f : /\ f = [n \in 0..Len(a) |-> IF n = 0 THEN t ELSE ApplyOperation(f[n - 1], a[n])]
               /\ v = f[Len(a)]
  BY <1>1, SegmentUnfolds DEF v
<1>3. PICK h : /\ h = [n \in 0..Len(b) |-> IF n = 0 THEN v ELSE ApplyOperation(h[n - 1], b[n])]
               /\ ApplySegment(v, b) = h[Len(b)]
  BY <1>1, SegmentUnfolds
<1>4. PICK g : /\ g = [n \in 0..Len(ab) |-> IF n = 0 THEN t ELSE ApplyOperation(g[n - 1], ab[n])]
               /\ ApplySegment(t, ab) = g[Len(ab)]
  <2>1. Len(ab) \in Nat
    BY <1>1
  <2> QED
    BY <2>1, SegmentUnfolds
<1>5. /\ f[0] = t /\ \A n \in Nat : n + 1 <= Len(a) => f[n + 1] = ApplyOperation(f[n], a[n + 1])
  <2>1. \A n \in Nat : n + 1 <= Len(a) => n + 1 \in 0..Len(a) /\ n + 1 # 0 /\ (n + 1) - 1 = n
    BY <1>1
  <2> QED
    BY <1>1, <1>2, <2>1
<1>6. /\ h[0] = v /\ \A n \in Nat : n + 1 <= Len(b) => h[n + 1] = ApplyOperation(h[n], b[n + 1])
  <2>1. \A n \in Nat : n + 1 <= Len(b) => n + 1 \in 0..Len(b) /\ n + 1 # 0 /\ (n + 1) - 1 = n
    BY <1>1
  <2> QED
    BY <1>1, <1>3, <2>1
<1>7. /\ g[0] = t /\ \A n \in Nat : n + 1 <= Len(a) + Len(b) => g[n + 1] = ApplyOperation(g[n], ab[n + 1])
  <2>1. \A n \in Nat : n + 1 <= Len(a) + Len(b) => n + 1 \in 0..Len(ab) /\ n + 1 # 0 /\ (n + 1) - 1 = n
    BY <1>1
  <2> QED
    BY <1>1, <1>4, <2>1
<1> DEFINE S == {n \in Nat : n <= Len(a) => g[n] = f[n]}
           T == {n \in Nat : n <= Len(b) => g[Len(a) + n] = h[n]}
<1>8. \A n \in Nat : n \in S
  <2>1. 0 \in S
    BY <1>5, <1>7
  <2>2. ASSUME NEW n \in Nat, n \in S PROVE n + 1 \in S
    <3> SUFFICES ASSUME n + 1 <= Len(a) PROVE g[n + 1] = f[n + 1]
      OBVIOUS
    <3>1. n + 1 \in 1..Len(a) /\ n + 1 <= Len(a) + Len(b) /\ g[n] = f[n]
      BY <1>1, <2>2
    <3> QED
      BY <1>1, <1>5, <1>7, <3>1
  <2> HIDE DEF S
  <2> QED
    BY <2>1, <2>2, SetInduction
<1>9. \A n \in Nat : n \in T
  <2>1. 0 \in T
    <3>1. Len(a) \in S
      BY <1>1, <1>8
    <3>2. g[Len(a)] = f[Len(a)] /\ Len(a) + 0 = Len(a)
      BY <1>1, <3>1
    <3> QED
      BY <1>2, <1>6, <3>2
  <2>2. ASSUME NEW n \in Nat, n \in T PROVE n + 1 \in T
    <3> SUFFICES ASSUME n + 1 <= Len(b) PROVE g[Len(a) + (n + 1)] = h[n + 1]
      OBVIOUS
    <3>1. /\ n + 1 \in 1..Len(b) /\ Len(a) + n \in Nat /\ Len(a) + (n + 1) = (Len(a) + n) + 1
          /\ (Len(a) + n) + 1 <= Len(a) + Len(b) /\ g[Len(a) + n] = h[n]
      BY <1>1, <2>2
    <3>2. g[(Len(a) + n) + 1] = ApplyOperation(g[Len(a) + n], ab[(Len(a) + n) + 1])
      BY <1>7, <3>1
    <3>3. ab[(Len(a) + n) + 1] = b[n + 1]
      BY <1>1, <3>1
    <3> QED
      BY <1>6, <3>1, <3>2, <3>3
  <2> HIDE DEF T
  <2> QED
    BY <2>1, <2>2, SetInduction
<1>10. g[Len(a) + Len(b)] = h[Len(b)]
  BY <1>1, <1>9
<1> QED
  BY <1>1, <1>3, <1>4, <1>10 DEF ab, v

\* The entries of a copy whose parts have arrived: those in "there" of the parts.
CopiedEntries(v, t, e, p, n, new, there, u) ==
    /\ IsTree(u)
    /\ DOMAIN u = DOMAIN v \cup {new[x] : x \in there}
    /\ \A y \in DOMAIN v : u[y] = v[y]
    /\ \A x \in there :
          u[new[x]] = [parent  |-> IF x = e THEN p ELSE new[t[x].parent],
                       name    |-> IF x = e THEN n ELSE t[x].name,
                       content |-> t[x].content]

\* A copy into a directory that does not have the name applies, part by part.
LEMMA CopyApplies ==
    ASSUME NEW t, IsTree(t), NEW e \in DOMAIN t,
           NEW v, IsTree(v), NEW p \in DOMAIN v, v[p].content = None, NEW n \in Names \cup {None},
           \A d \in DOMAIN v : v[d].parent = p => v[d].name # n,
           NEW ops, NEW order, NEW new, IsCopyPlan(t, e, p, n, ops, order, new),
           \A x \in DownFrom(t, {e}) : new[x] \notin DOMAIN v
    PROVE  CopiedEntries(v, t, e, p, n, new, DownFrom(t, {e}), ApplySegment(v, ops))
<1> DEFINE parts == DownFrom(t, {e})
           size == Cardinality(parts)
           there(k) == {order[i] : i \in 1..k}
<1>1. /\ size \in Nat
      /\ \A i \in 1..size : order[i] \in parts
      /\ \A x \in parts : \E i \in 1..size : order[i] = x
      /\ \A i, j \in 1..size : order[i] = order[j] => i = j
      /\ \A i \in 1..size : order[i] = e \/ \E j \in 1..(i - 1) : order[j] = t[order[i]].parent
      /\ \A x \in parts : new[x] \in EntryIds
      /\ \A x, y \in parts : new[x] = new[y] => x = y
      /\ \A i \in 1..size :
              ops[i] = CreateEntry(new[order[i]],
                                   IF order[i] = e THEN p ELSE new[t[order[i]].parent],
                                   IF order[i] = e THEN n ELSE t[order[i]].name,
                                   t[order[i]].content)
  BY DEF IsCopyPlan
<1>2. p \in EntryIds /\ IsSegment(ops) /\ Len(ops) = size
  BY TreeFacts, CopyPlanIsSegment
<1>3. /\ parts \subseteq DOMAIN t /\ e \in parts
      /\ \A x \in parts \ {e} : t[x].parent \in parts /\ x # Root
  <2>1. e # Root => Root \notin parts
    BY SubtreeFacts
  <2> QED
    BY <2>1, SubtreeFacts
<1>4. \A x \in parts : new[x] \notin DOMAIN v
  OBVIOUS
<1> HIDE DEF parts, size
<1>5. PICK f : /\ f = [k \in 0..Len(ops) |->
                          IF k = 0 THEN v ELSE ApplyOperation(f[k - 1], ops[k])]
               /\ ApplySegment(v, ops) = f[Len(ops)]
  <2>1. Len(ops) \in Nat
    BY <1>1, <1>2
  <2> QED
    BY <2>1, SegmentUnfolds
<1>6. f[0] = v /\ \A k \in Nat : k + 1 <= size => f[k + 1] = ApplyOperation(f[k], ops[k + 1])
  <2>1. \A k \in Nat : k + 1 <= size => k + 1 \in 0..Len(ops) /\ k + 1 # 0 /\ (k + 1) - 1 = k
    BY <1>1, <1>2
  <2> QED
    BY <1>1, <1>2, <1>5, <2>1
<1> DEFINE S == {k \in Nat : k <= size => CopiedEntries(v, t, e, p, n, new, there(k), f[k])}
<1>7. 0 \in S
  BY <1>6 DEF CopiedEntries
<1>8. ASSUME NEW k \in Nat, k \in S PROVE k + 1 \in S
  <2> SUFFICES ASSUME k + 1 <= size
               PROVE  CopiedEntries(v, t, e, p, n, new, there(k + 1), f[k + 1])
    OBVIOUS
  <2> DEFINE u == f[k]
             x == order[k + 1]
             q == IF x = e THEN p ELSE new[t[x].parent]
             m == IF x = e THEN n ELSE t[x].name
             op == ops[k + 1]
  <2>1. /\ IsTree(u) /\ DOMAIN u = DOMAIN v \cup {new[y] : y \in there(k)}
        /\ \A y \in DOMAIN v : u[y] = v[y]
        /\ \A y \in there(k) :
              u[new[y]] = [parent  |-> IF y = e THEN p ELSE new[t[y].parent],
                           name    |-> IF y = e THEN n ELSE t[y].name,
                           content |-> t[y].content]
    <3>1. k <= size
      BY <1>1
    <3> HIDE DEF there
    <3>2. CopiedEntries(v, t, e, p, n, new, there(k), u)
      BY <1>8, <3>1
    <3> HIDE DEF u
    <3> QED
      BY <3>2 DEF CopiedEntries
  <2>2. /\ k + 1 \in 1..size /\ x \in parts /\ x \notin there(k) /\ there(k) \subseteq parts
        /\ there(k + 1) = there(k) \cup {x}
    <3>1. k + 1 \in 1..size /\ x \in parts
      BY <1>1
    <3>2. x \notin there(k)
      BY <1>1, <3>1
    <3>3. there(k) \subseteq parts
      BY <1>1
    <3>4. \A i \in 1..(k + 1) : i \in 1..k \/ i = k + 1
      OBVIOUS
    <3>5. there(k + 1) = there(k) \cup {x}
      BY <3>4
    <3> QED
      BY <3>1, <3>2, <3>3, <3>5
  <2>3. x = e \/ t[x].parent \in there(k)
    <3>1. k + 1 \in 1..size /\ (k + 1) - 1 = k
      BY <2>2
    <3>2. x = e \/ \E j \in 1..k : order[j] = t[x].parent
      BY <1>1, <3>1
    <3> QED
      BY <3>2
  <2> HIDE DEF there, u
  <2>4. \A y \in there(k) : /\ u[new[y]].parent = IF y = e THEN p ELSE new[t[y].parent]
                            /\ u[new[y]].name = IF y = e THEN n ELSE t[y].name
                            /\ u[new[y]].content = t[y].content
    <3> SUFFICES ASSUME NEW y \in there(k)
                 PROVE  /\ u[new[y]].parent = IF y = e THEN p ELSE new[t[y].parent]
                        /\ u[new[y]].name = IF y = e THEN n ELSE t[y].name
                        /\ u[new[y]].content = t[y].content
      OBVIOUS
    <3> DEFINE qy == IF y = e THEN p ELSE new[t[y].parent]
               ny == IF y = e THEN n ELSE t[y].name
    <3>1. u[new[y]] = [parent |-> qy, name |-> ny, content |-> t[y].content]
      BY <2>1
    <3> HIDE DEF qy, ny
    <3>2. u[new[y]].parent = qy /\ u[new[y]].name = ny /\ u[new[y]].content = t[y].content
      BY <3>1
    <3> QED
      BY <3>2 DEF qy, ny
  <2>5. op = CreateEntry(new[x], q, m, t[x].content)
    BY <1>1, <2>2
  <2>6. IsCreate(op)
    <3>1. q \in EntryIds /\ new[x] \in EntryIds
      BY <1>1, <1>2, <1>3, <2>2
    <3>2. m \in Names \cup {None} /\ t[x].content \in Contents \cup {None}
      BY <1>3, <2>2, TreeFacts
    <3> HIDE DEF q, m, x, op
    <3> QED
      BY <2>5, <3>1, <3>2 DEF IsCreate, CreateEntry
  <2>7. /\ op.kind = "create" /\ op.id = new[x] /\ op.parent = q /\ op.name = m
        /\ op.content = t[x].content
    <3> HIDE DEF q, m, x, op
    <3> QED
      BY <2>5 DEF CreateEntry
  <2>8. new[x] \notin DOMAIN u
    BY <1>1, <1>4, <2>1, <2>2
  <2>9. q \in DOMAIN u /\ u[q].content = None
    <3>1. CASE x = e
      BY <2>1, <3>1
    <3>2. CASE x # e
      <4>1. t[x].parent \in there(k) /\ x \in DOMAIN t \ {Root}
        BY <1>3, <2>2, <2>3, <3>2
      <4>2. t[t[x].parent].content = None
        BY <4>1, TreeFacts
      <4>3. q = new[t[x].parent] /\ u[new[t[x].parent]].content = t[t[x].parent].content
        BY <2>4, <3>2, <4>1
      <4>4. new[t[x].parent] \in DOMAIN u
        BY <2>1, <4>1
      <4> QED
        BY <4>2, <4>3, <4>4
    <3> QED
      BY <3>1, <3>2
  <2>10. \A d \in DOMAIN u : u[d].parent = q => u[d].name # m
    <3> SUFFICES ASSUME NEW d \in DOMAIN u, u[d].parent = q, u[d].name = m PROVE FALSE
      OBVIOUS
    <3>1. CASE x = e /\ d \in DOMAIN v
      BY <2>1, <3>1
    <3>2. CASE x = e /\ d \notin DOMAIN v
      <4>1. PICK y \in there(k) : d = new[y]
        BY <2>1, <3>2
      <4>2. y # e /\ y \in parts
        BY <2>2, <3>2, <4>1
      <4>3. u[d].parent = new[t[y].parent] /\ t[y].parent \in parts
        BY <1>3, <2>4, <4>1, <4>2
      <4> QED
        BY <1>4, <3>2, <4>3
    <3>3. CASE x # e /\ d \in DOMAIN v
      <4>1. u[d] = v[d] /\ q = new[t[x].parent] /\ t[x].parent \in parts
        BY <1>3, <2>1, <2>2, <3>3
      <4>2. v[d].parent \in DOMAIN v \cup {None}
        BY <3>3, TreeFacts
      <4> QED
        BY <1>1, <1>4, <4>1, <4>2, EntryIdsAreFinite
    <3>4. CASE x # e /\ d \notin DOMAIN v
      <4>1. PICK y \in there(k) : d = new[y]
        BY <2>1, <3>4
      <4>2. y \in parts /\ t[x].parent \in parts /\ q = new[t[x].parent] /\ m = t[x].name
        BY <1>3, <2>2, <3>4, <4>1
      <4>3. y # e
        <5>1. new[t[x].parent] \notin DOMAIN v
          BY <1>4, <4>2
        <5> QED
          BY <2>4, <4>1, <4>2, <5>1
      <4>4. t[y].parent = t[x].parent /\ t[y].name = t[x].name
        <5>1. u[new[y]].parent = new[t[y].parent] /\ u[new[y]].name = t[y].name
          BY <2>4, <4>1, <4>3
        <5>2. new[t[y].parent] = new[t[x].parent] /\ t[y].parent \in parts
          BY <1>3, <4>1, <4>2, <4>3, <5>1
        <5> QED
          BY <1>1, <4>1, <4>2, <5>1, <5>2
      <4>5. y = x
        BY <1>3, <2>2, <4>2, <4>4 DEF IsTree, ValidTree
      <4> QED
        BY <2>2, <4>1, <4>5
    <3> QED
      BY <3>1, <3>2, <3>3, <3>4
  <2> HIDE DEF q, m, x, op
  <2>11. Allowed(u, op)
    <3>1. ~NameTaken(u, q, m, None)
      BY <2>10 DEF NameTaken, Children
    <3> QED
      BY <2>7, <2>8, <2>9, <3>1 DEF Allowed, IsDirectory
  <2> DEFINE w == Effect(u, op)
  <2>12. /\ IsTree(w) /\ DOMAIN w = DOMAIN u \cup {new[x]}
         /\ \A y \in DOMAIN u : w[y] = u[y]
         /\ w[new[x]] = [parent |-> q, name |-> m, content |-> t[x].content]
    <3>1. /\ IsTree(Effect(u, op)) /\ DOMAIN Effect(u, op) = DOMAIN u \cup {op.id}
          /\ \A y \in DOMAIN u : Effect(u, op)[y] = u[y]
          /\ Effect(u, op)[op.id] = [parent |-> op.parent, name |-> op.name, content |-> op.content]
      BY <2>1, <2>6, <2>11, CreateKeepsTree
    <3> QED
      BY <2>7, <3>1
  <2>13. f[k + 1] = w
    <3>1. ApplyOperation(u, op) = w
      BY <2>1, <2>11, <2>12, OperationApplies
    <3> QED
      BY <1>6, <3>1 DEF u, op
  <2> HIDE DEF w
  <2>14. DOMAIN w = DOMAIN v \cup {new[y] : y \in there(k + 1)}
    BY <2>1, <2>2, <2>12
  <2>15. \A y \in DOMAIN v : w[y] = v[y]
    BY <2>1, <2>12
  <2>16. ASSUME NEW y \in there(k + 1)
         PROVE  w[new[y]] = [parent  |-> IF y = e THEN p ELSE new[t[y].parent],
                             name    |-> IF y = e THEN n ELSE t[y].name,
                             content |-> t[y].content]
    <3>1. CASE y = x
      BY <2>12, <3>1 DEF q, m
    <3>2. CASE y # x
      <4>1. y \in there(k) /\ new[y] \in DOMAIN u
        BY <2>1, <2>2, <3>2
      <4> QED
        BY <2>1, <2>12, <4>1
    <3> QED
      BY <3>1, <3>2
  <2> QED
    BY <2>12, <2>13, <2>14, <2>15, <2>16 DEF CopiedEntries
<1>9. CopiedEntries(v, t, e, p, n, new, there(size), f[size])
  <2>1. size \in S
    <3> HIDE DEF S
    <3> QED
      BY <1>1, <1>7, <1>8, SetInduction
  <2> QED
    BY <1>1, <2>1
<1>10. there(size) = parts
  BY <1>1
<1> QED
  BY <1>2, <1>5, <1>9, <1>10 DEF parts

\* What a copy of e leaves when it has been put into the directory p of the
\* tree v under the name n: "made" is new, the rest is as it was, and one new
\* entry, in p, has the shape of e; the other new ones are below new ones.
HasArrived(t, e, v, p, n, u, made) ==
    /\ IsTree(u)
    /\ made \cap DOMAIN v = {} /\ DOMAIN u = DOMAIN v \cup made
    /\ \A y \in DOMAIN v : u[y] = v[y]
    /\ \E top \in made :
          /\ u[top].parent = p /\ u[top].name = n
          /\ Shape(u, top) = Shape(t, e)
          /\ \A y \in made \ {top} : u[y].parent \in made

\* Copied entries have the shape of those they are copies of.
LEMMA CopyHasArrived ==
    ASSUME NEW t, IsTree(t), NEW e \in DOMAIN t,
           NEW v, IsTree(v), NEW p \in DOMAIN v, NEW n, NEW new, NEW u,
           CopiedEntries(v, t, e, p, n, new, DownFrom(t, {e}), u),
           \A x \in DownFrom(t, {e}) : new[x] \notin DOMAIN v,
           \A x, y \in DownFrom(t, {e}) : new[x] = new[y] => x = y,
           NEW made, made = {new[x] : x \in DownFrom(t, {e})}
    PROVE  HasArrived(t, e, v, p, n, u, made)
<1> DEFINE parts == DownFrom(t, {e})
<1>1. /\ IsTree(u) /\ DOMAIN u = DOMAIN v \cup made
      /\ \A y \in DOMAIN v : u[y] = v[y]
  BY DEF CopiedEntries
<1>2. \A x \in parts :
         u[new[x]] = [parent  |-> IF x = e THEN p ELSE new[t[x].parent],
                      name    |-> IF x = e THEN n ELSE t[x].name,
                      content |-> t[x].content]
  BY DEF CopiedEntries
<1>3. \A x \in parts : /\ u[new[x]].parent = IF x = e THEN p ELSE new[t[x].parent]
                       /\ u[new[x]].name = IF x = e THEN n ELSE t[x].name
                       /\ u[new[x]].content = t[x].content
  <2> SUFFICES ASSUME NEW x \in parts
               PROVE  /\ u[new[x]].parent = IF x = e THEN p ELSE new[t[x].parent]
                      /\ u[new[x]].name = IF x = e THEN n ELSE t[x].name
                      /\ u[new[x]].content = t[x].content
    OBVIOUS
  <2> DEFINE qx == IF x = e THEN p ELSE new[t[x].parent]
             nx == IF x = e THEN n ELSE t[x].name
  <2>1. u[new[x]] = [parent |-> qx, name |-> nx, content |-> t[x].content]
    BY <1>2
  <2> HIDE DEF qx, nx
  <2>2. u[new[x]].parent = qx /\ u[new[x]].name = nx /\ u[new[x]].content = t[x].content
    BY <2>1
  <2> QED
    BY <2>2 DEF qx, nx
<1>4. /\ parts \subseteq DOMAIN t /\ e \in parts /\ Closed(t, parts)
      /\ \A x \in parts \ {e} : t[x].parent \in parts
  BY SubtreeFacts
<1>5. \A x \in parts : new[x] \notin DOMAIN v
  OBVIOUS
<1>6. \A x, y \in parts : new[x] = new[y] => x = y
  OBVIOUS
<1>7. \A x \in parts : new[x] \in made
  OBVIOUS
<1>8. \A y \in made : \E x \in parts : y = new[x]
  OBVIOUS
<1>9. made \cap DOMAIN v = {}
  BY <1>5, <1>8
<1> HIDE DEF parts
<1>10. Closed(u, made)
  <2> SUFFICES ASSUME NEW c \in DOMAIN u, u[c].parent \in made PROVE c \in made
    BY DEF Closed
  <2>1. CASE c \in DOMAIN v
    <3>1. v[c].parent \in DOMAIN v \cup {None}
      BY <2>1, TreeFacts
    <3>2. u[c].parent \in DOMAIN u
      BY <1>1
    <3>3. None \notin DOMAIN u
      BY <1>1, TreeFacts, EntryIdsAreFinite
    <3> QED
      BY <1>1, <1>9, <2>1, <3>1, <3>2, <3>3
  <2> QED
    BY <1>1, <2>1
<1>11. \A x \in parts :
           /\ new[x] \in DOMAIN u /\ u[new[x]].content = t[x].content
           /\ x # e => /\ u[new[x]].parent = new[t[x].parent] /\ u[new[x]].name = t[x].name
                       /\ new[x] # new[e]
  BY <1>1, <1>3, <1>4, <1>6, <1>7
<1>12. Shape(u, new[e]) = Shape(t, e)
  <2>1. Closed(u, {new[x] : x \in DownFrom(t, {e})})
    BY <1>10
  <2>2. \A x \in DownFrom(t, {e}) :
           /\ new[x] \in DOMAIN u /\ u[new[x]].content = t[x].content
           /\ x # e => /\ u[new[x]].parent = new[t[x].parent] /\ u[new[x]].name = t[x].name
                       /\ new[x] # new[e]
    BY <1>11 DEF parts
  <2>3. IsTree(u)
    BY <1>1
  <2>4. Shape(u, new[e]) = Shape(t, e) /\ DownFrom(u, {new[e]}) = {new[x] : x \in DownFrom(t, {e})}
    BY <2>1, <2>2, <2>3, ShapesAgree
  <2> QED
    BY <2>4
<1>13. new[e] \in made /\ u[new[e]].parent = p /\ u[new[e]].name = n
  BY <1>3, <1>4, <1>7
<1>14. \A y \in made \ {new[e]} : u[y].parent \in made
  <2> SUFFICES ASSUME NEW y \in made, y # new[e] PROVE u[y].parent \in made
    OBVIOUS
  <2>1. PICK x \in parts : y = new[x]
    BY <1>8
  <2>2. u[y].parent = new[t[x].parent] /\ t[x].parent \in parts
    BY <1>3, <1>4, <2>1
  <2> QED
    BY <1>7, <2>2
<1> QED
  BY <1>1, <1>9, <1>12, <1>13, <1>14 DEF HasArrived

\* A copy, with fresh ids, into a directory that does not have the name
\* applies and arrives.
LEMMA CopyArrives ==
    ASSUME NEW t, IsTree(t), NEW e \in DOMAIN t,
           NEW v, IsTree(v), NEW used, DOMAIN v \subseteq used,
           RoomFor(used, Cardinality(DownFrom(t, {e}))),
           NEW p \in DOMAIN v, v[p].content = None, NEW n \in Names \cup {None},
           \A d \in DOMAIN v : v[d].parent = p => v[d].name # n,
           NEW ops, ops = CopyOperations(t, used, e, p, n)
    PROVE  /\ IsSegment(ops) /\ CreatedIds(ops) \cap used = {} /\ CreatedIds(ops) \subseteq EntryIds
           /\ HasArrived(t, e, v, p, n, ApplySegment(v, ops), CreatedIds(ops))
           /\ ApplySegment(v, ops) # Refused
<1>1. PICK order, new : /\ IsCopyPlan(t, e, p, n, ops, order, new)
                        /\ \A x \in DownFrom(t, {e}) : new[x] \notin used
  BY CopyIsPlanned
<1>2. p \in EntryIds
  BY TreeFacts
<1>3. IsSegment(ops) /\ CreatedIds(ops) = {new[x] : x \in DownFrom(t, {e})}
  BY <1>1, <1>2, CopyPlanIsSegment
<1>4. \A x \in DownFrom(t, {e}) : new[x] \notin DOMAIN v
  BY <1>1
<1>5. CopiedEntries(v, t, e, p, n, new, DownFrom(t, {e}), ApplySegment(v, ops))
  BY <1>1, <1>4, CopyApplies
<1>6. \A x, y \in DownFrom(t, {e}) : new[x] = new[y] => x = y
  BY <1>1 DEF IsCopyPlan
<1> DEFINE u == ApplySegment(v, ops)
<1>7. HasArrived(t, e, v, p, n, u, CreatedIds(ops))
  <2>1. CopiedEntries(v, t, e, p, n, new, DownFrom(t, {e}), u)
    BY <1>5
  <2>2. CreatedIds(ops) = {new[x] : x \in DownFrom(t, {e})}
    BY <1>3
  <2> DEFINE made == CreatedIds(ops)
  <2> HIDE DEF u, made
  <2>3. made = {new[x] : x \in DownFrom(t, {e})}
    BY <2>2 DEF made
  <2>4. HasArrived(t, e, v, p, n, u, made)
    BY <1>4, <1>6, <2>1, <2>3, CopyHasArrived
  <2> QED
    BY <2>4 DEF made
<1>8. \A x \in DownFrom(t, {e}) : new[x] \in EntryIds
  BY <1>1 DEF IsCopyPlan
<1>9. IsTree(u)
  BY <1>7 DEF HasArrived
<1>10. u # Refused
  BY <1>9, TreeFacts
<1> QED
  BY <1>1, <1>3, <1>7, <1>8, <1>10

\* A copy that applies was put into a directory that did not have the name.
LEMMA AppliedCopyHadRoom ==
    ASSUME NEW t, IsTree(t), NEW e \in DOMAIN t, NEW v, IsTree(v), NEW used,
           RoomFor(used, Cardinality(DownFrom(t, {e}))),
           NEW p \in EntryIds, NEW n \in Names \cup {None},
           NEW ops, ops = CopyOperations(t, used, e, p, n),
           ApplySegment(v, ops) # Refused
    PROVE  /\ p \in DOMAIN v /\ v[p].content = None
           /\ \A d \in DOMAIN v : v[d].parent = p => v[d].name # n
<1>1. PICK order, new : IsCopyPlan(t, e, p, n, ops, order, new)
  BY CopyIsPlanned
<1> DEFINE size == Cardinality(DownFrom(t, {e}))
<1>2. IsSegment(ops) /\ Len(ops) = size
  BY <1>1, CopyPlanIsSegment
<1>3. size \in Nat /\ \E i \in 1..size : order[i] = e
  <2>1. e \in DownFrom(t, {e})
    BY SubtreeFacts
  <2> QED
    BY <1>1, <2>1 DEF IsCopyPlan
<1>4. 1 \in 1..size /\ 1 \in 1..Len(ops) /\ 1 - 1 = 0
  <2> HIDE DEF size
  <2> QED
    BY <1>2, <1>3
<1>5. order[1] = e
  <2>1. order[1] = e \/ \E j \in 1..(1 - 1) : order[j] = t[order[1]].parent
    BY <1>1, <1>4 DEF IsCopyPlan
  <2> QED
    BY <2>1
<1>6. ops[1] = CreateEntry(new[e], p, n, t[e].content)
  BY <1>1, <1>4, <1>5 DEF IsCopyPlan
<1>7. PICK after : /\ after[0] = v
                   /\ \A k \in 1..Len(ops) : Allowed(after[k - 1], ops[k])
  BY <1>2, SegmentRuns
<1>8. Allowed(v, ops[1])
  BY <1>4, <1>7
<1>9. /\ ops[1].kind = "create" /\ ops[1].parent = p /\ ops[1].name = n
  BY <1>6 DEF CreateEntry
<1>10. IsDirectory(v, p) /\ ~NameTaken(v, p, n, None)
  BY <1>8, <1>9 DEF Allowed
<1>11. \A d \in DOMAIN v : d # None
  BY TreeFacts, EntryIdsAreFinite
<1> QED
  BY <1>10, <1>11 DEF IsDirectory, NameTaken, Children

\* What copies of the entries "done" leave when they have been put into the
\* directory p of the tree "to": there is one whole copy of each in p, under a
\* name it may have, and every other new entry is below a new one.
OneCopyOfEach(from, done, p, u, made, named, copy) ==
    /\ copy \in [done -> made]
    /\ \A d, e \in done : copy[d] = copy[e] => d = e
    /\ \A e \in done : /\ u[copy[e]].parent = p
                       /\ <<e, u[copy[e]].name>> \in named
                       /\ Shape(u, copy[e]) = Shape(from, e)
    /\ \A y \in made : u[y].parent \in made \/ \E e \in done : y = copy[e]

SelectionArrived(from, done, to, p, u, made, named) ==
    /\ IsTree(u)
    /\ made \cap DOMAIN to = {} /\ DOMAIN u = DOMAIN to \cup made
    /\ \A y \in DOMAIN to : u[y] = to[y]
    /\ \E copy : OneCopyOfEach(from, done, p, u, made, named, copy)

\* Before the first copy nothing has arrived.
LEMMA NothingHasArrived ==
    ASSUME NEW from, NEW to, IsTree(to), NEW p, NEW named
    PROVE  SelectionArrived(from, {}, to, p, to, {}, named)
<1> DEFINE copy == [e \in {} |-> e]
<1>1. copy \in [{} -> {}]
  OBVIOUS
<1> HIDE DEF copy
<1>2. OneCopyOfEach(from, {}, p, to, {}, named, copy)
  BY <1>1 DEF OneCopyOfEach
<1> QED
  BY <1>2 DEF SelectionArrived

\* One more copy arrives, and leaves the earlier ones whole.
LEMMA OneMoreArrives ==
    ASSUME NEW from, NEW done, NEW to, IsTree(to), NEW p \in DOMAIN to, NEW v, NEW made, NEW named,
           SelectionArrived(from, done, to, p, v, made, named),
           NEW e, e \notin done, NEW n, <<e, n>> \in named,
           NEW u, NEW new, HasArrived(from, e, v, p, n, u, new)
    PROVE  SelectionArrived(from, done \cup {e}, to, p, u, made \cup new, named)
<1>1. /\ IsTree(v) /\ made \cap DOMAIN to = {} /\ DOMAIN v = DOMAIN to \cup made
      /\ \A y \in DOMAIN to : v[y] = to[y]
  BY DEF SelectionArrived
<1>2. PICK copy : OneCopyOfEach(from, done, p, v, made, named, copy)
  BY DEF SelectionArrived
<1>3. /\ copy \in [done -> made]
      /\ \A c, d \in done : copy[c] = copy[d] => c = d
      /\ \A d \in done : /\ v[copy[d]].parent = p
                         /\ <<d, v[copy[d]].name>> \in named
                         /\ Shape(v, copy[d]) = Shape(from, d)
      /\ \A y \in made : v[y].parent \in made \/ \E d \in done : y = copy[d]
  BY <1>2 DEF OneCopyOfEach
<1>4. /\ IsTree(u) /\ new \cap DOMAIN v = {} /\ DOMAIN u = DOMAIN v \cup new
      /\ \A y \in DOMAIN v : u[y] = v[y]
  BY DEF HasArrived
<1>5. PICK top \in new : /\ u[top].parent = p /\ u[top].name = n /\ Shape(u, top) = Shape(from, e)
                         /\ \A y \in new \ {top} : u[y].parent \in new
  BY DEF HasArrived
<1>6. Closed(v, made)
  <2> SUFFICES ASSUME NEW c \in DOMAIN v, v[c].parent \in made PROVE c \in made
    BY DEF Closed
  <2>1. CASE c \in DOMAIN to
    <3>1. to[c].parent \in DOMAIN to \cup {None}
      BY <2>1, TreeFacts
    <3>2. None \notin DOMAIN v
      BY <1>1, TreeFacts, EntryIdsAreFinite
    <3> QED
      BY <1>1, <2>1, <3>1, <3>2
  <2> QED
    BY <1>1, <2>1
<1>7. ASSUME NEW y \in made PROVE Shape(u, y) = Shape(v, y)
  <2>1. y \in DOMAIN v
    BY <1>1
  <2>2. Closed(v, DownFrom(v, {y})) /\ DownFrom(v, {y}) \subseteq made
    BY <1>1, <1>6, <2>1, SubtreeFacts
  <2>3. Closed(u, DownFrom(v, {y}))
    <3> SUFFICES ASSUME NEW c \in DOMAIN u, u[c].parent \in DownFrom(v, {y})
                 PROVE  c \in DownFrom(v, {y})
      BY DEF Closed
    <3>1. c \in DOMAIN v
      <4>1. u[c].parent \in made /\ u[c].parent # p /\ u[c].parent \notin new
        BY <1>1, <1>4, <2>2
      <4> QED
        BY <1>4, <1>5, <4>1
    <3> QED
      BY <1>4, <2>2, <3>1 DEF Closed
  <2>4. DOMAIN v \subseteq DOMAIN u
    BY <1>4
  <2>5. Shape(u, y) = Shape(v, y) /\ DownFrom(u, {y}) = DownFrom(v, {y})
    BY <1>1, <1>4, <2>1, <2>3, <2>4, ShapesStay
  <2> QED
    BY <2>5
<1>8. \A y \in made : u[y] = v[y]
  BY <1>1, <1>4
<1> DEFINE more == [d \in done \cup {e} |-> IF d = e THEN top ELSE copy[d]]
<1>9. /\ more \in [done \cup {e} -> made \cup new]
      /\ more[e] = top /\ \A d \in done : more[d] = copy[d] /\ copy[d] \in made
  BY <1>3
<1> HIDE DEF more
<1>10. OneCopyOfEach(from, done \cup {e}, p, u, made \cup new, named, more)
  <2>1. ASSUME NEW c \in done \cup {e}, NEW d \in done \cup {e}, more[c] = more[d]
        PROVE  c = d
    <3>1. \A x \in done : more[x] # top
      BY <1>1, <1>4, <1>9
    <3> QED
      BY <1>3, <1>9, <2>1, <3>1
  <2>2. ASSUME NEW d \in done \cup {e}
        PROVE  /\ u[more[d]].parent = p
               /\ <<d, u[more[d]].name>> \in named
               /\ Shape(u, more[d]) = Shape(from, d)
    <3>1. CASE d = e
      BY <1>5, <1>9, <3>1
    <3>2. CASE d \in done
      <4>1. more[d] = copy[d] /\ copy[d] \in made
        BY <1>9, <3>2
      <4>2. u[copy[d]] = v[copy[d]] /\ Shape(u, copy[d]) = Shape(v, copy[d])
        BY <1>7, <1>8, <4>1
      <4> QED
        BY <1>3, <3>2, <4>1, <4>2
    <3> QED
      BY <3>1, <3>2
  <2>3. ASSUME NEW y \in made \cup new
        PROVE  u[y].parent \in made \cup new \/ \E d \in done \cup {e} : y = more[d]
    <3>1. CASE y \in made
      BY <1>3, <1>8, <1>9, <3>1
    <3>2. CASE y \in new
      BY <1>5, <1>9, <3>2
    <3> QED
      BY <3>1, <3>2
  <2> QED
    BY <1>9, <2>1, <2>2, <2>3 DEF OneCopyOfEach
<1>11. /\ (made \cup new) \cap DOMAIN to = {} /\ DOMAIN u = DOMAIN to \cup (made \cup new)
       /\ \A y \in DOMAIN to : u[y] = to[y]
  BY <1>1, <1>4
<1> QED
  BY <1>4, <1>10, <1>11 DEF SelectionArrived

\* A plan of copies so far: its operations, the ids it has used, and what it
\* leaves of the tree "to", with the names that are in the directory then.
CopiedSoFar(from, done, to, p, ids, names, ops, used, named) ==
    /\ IsSegment(ops)
    /\ used = ids \cup CreatedIds(ops) /\ CreatedIds(ops) \subseteq EntryIds \ ids
    /\ SelectionArrived(from, done, to, p, ApplySegment(to, ops), CreatedIds(ops), named)
    /\ \A y \in Children(ApplySegment(to, ops), p) : ApplySegment(to, ops)[y].name \in names

\* No copy is planned yet.
LEMMA NothingIsCopied ==
    ASSUME NEW from, NEW to, IsTree(to), NEW p, NEW ids, NEW named
    PROVE  CopiedSoFar(from, {}, to, p, ids, {to[y].name : y \in Children(to, p)}, << >>, ids, named)
<1>1. IsSegment(<< >>) /\ CreatedIds(<< >>) = {}
  BY OneOperation
<1>2. ApplySegment(to, << >>) = to
  BY ShortSegments
<1>3. SelectionArrived(from, {}, to, p, to, {}, named)
  BY NothingHasArrived
<1> QED
  BY <1>1, <1>2, <1>3 DEF CopiedSoFar

\* One more copy, under a name that is not there: it is the one more entry of
\* the directory.
LEMMA OneMoreCopy ==
    ASSUME NEW from, IsTree(from), NEW done, NEW to, IsTree(to),
           NEW p \in DOMAIN to, to[p].content = None,
           NEW ids, DOMAIN to \subseteq ids, NEW names, NEW ops, NEW used,
           NEW named, CopiedSoFar(from, done, to, p, ids, names, ops, used, named),
           NEW e \in DOMAIN from, e \notin done, RoomFor(used, Cardinality(DownFrom(from, {e}))),
           NEW n \in Names \cup {None}, n \notin names,
           <<e, n>> \in named, NEW more, more = CopyOperations(from, used, e, p, n)
    PROVE  /\ CopiedSoFar(from, done \cup {e}, to, p, ids, names \cup {n}, ops \o more,
                          used \cup CreatedIds(more), named)
           /\ CreatedIds(ops \o more) = CreatedIds(ops) \cup CreatedIds(more)
           /\ HasArrived(from, e, ApplySegment(to, ops), p, n, ApplySegment(to, ops \o more),
                         CreatedIds(more))
<1> DEFINE v == ApplySegment(to, ops)
           made == CreatedIds(ops)
<1>1. /\ IsSegment(ops) /\ used = ids \cup made /\ made \subseteq EntryIds \ ids
      /\ SelectionArrived(from, done, to, p, v, made, named)
      /\ \A y \in Children(v, p) : v[y].name \in names
  BY DEF CopiedSoFar
<1> HIDE DEF v, made
<1>2. /\ IsTree(v) /\ DOMAIN v = DOMAIN to \cup made
      /\ \A y \in DOMAIN to : v[y] = to[y]
  BY <1>1 DEF SelectionArrived
<1>3. /\ DOMAIN v \subseteq used /\ p \in DOMAIN v /\ v[p].content = None
      /\ \A d \in DOMAIN v : v[d].parent = p => v[d].name # n
  BY <1>1, <1>2 DEF Children
<1> DEFINE u == ApplySegment(v, more)
           new == CreatedIds(more)
<1>4. /\ IsSegment(more) /\ new \cap used = {} /\ new \subseteq EntryIds
      /\ HasArrived(from, e, v, p, n, u, new)
  BY <1>2, <1>3, CopyArrives
<1>5. ApplySegment(to, ops \o more) = u
  BY <1>1, <1>4, SegmentsAreAppliedInTurn DEF v
<1>6. IsSegment(ops \o more) /\ CreatedIds(ops \o more) = made \cup new
  BY <1>1, <1>4, SegmentsJoin DEF made
<1> HIDE DEF u, new
<1>7. SelectionArrived(from, done \cup {e}, to, p, u, made \cup new, named)
  BY <1>1, <1>4, OneMoreArrives
<1>8. \A y \in Children(u, p) : u[y].name \in names \cup {n}
  <2>1. /\ DOMAIN u = DOMAIN v \cup new /\ new \cap DOMAIN v = {}
        /\ \A y \in DOMAIN v : u[y] = v[y]
    BY <1>4 DEF HasArrived
  <2>2. PICK top \in new : /\ u[top].name = n
                           /\ \A y \in new \ {top} : u[y].parent \in new
    BY <1>4 DEF HasArrived
  <2> QED
    BY <1>1, <1>3, <2>1, <2>2 DEF Children
<1>9. made \cup new \subseteq EntryIds \ ids /\ used \cup new = ids \cup (made \cup new)
  BY <1>1, <1>4
<1>10. CopiedSoFar(from, done \cup {e}, to, p, ids, names \cup {n}, ops \o more, used \cup new, named)
  BY <1>5, <1>6, <1>7, <1>8, <1>9 DEF CopiedSoFar
<1> QED
  BY <1>4, <1>5, <1>6, <1>10 DEF v, made, new

\* After a copy there is room for the rest of what there was room for.
LEMMA RoomAfterCopy ==
    ASSUME NEW t, IsTree(t), NEW e \in DOMAIN t, NEW all \in SUBSET EntryIds,
           DownFrom(t, {e}) \subseteq all, NEW used, RoomFor(used, Cardinality(all)),
           NEW p \in EntryIds, NEW n \in Names \cup {None},
           NEW ops, ops = CopyOperations(t, used, e, p, n)
    PROVE  /\ RoomFor(used, Cardinality(DownFrom(t, {e})))
           /\ RoomFor(used \cup CreatedIds(ops), Cardinality(all \ DownFrom(t, {e})))
<1> DEFINE parts == DownFrom(t, {e})
<1>1. IsFiniteSet(all) /\ parts \subseteq all
  BY EntryIdsAreFinite
<1>2. /\ Cardinality(parts) \in Nat /\ Cardinality(all) \in Nat
      /\ Cardinality(parts) <= Cardinality(all)
  <2> HIDE DEF parts
  <2>1. IsFiniteSet(parts) /\ Cardinality(parts) <= Cardinality(all)
    BY <1>1, FS_Subset
  <2> QED
    BY <1>1, <2>1, FS_CardinalityType
<1>3. Cardinality(EntryIds \ used) \in Nat
  BY EntryIdsAreFinite
<1>4. RoomFor(used, Cardinality(parts))
  <2> HIDE DEF parts
  <2> QED
    BY <1>2, <1>3 DEF RoomFor
<1>5. PICK order, new : /\ IsCopyPlan(t, e, p, n, ops, order, new)
                        /\ \A x \in DownFrom(t, {e}) : new[x] \notin used
  BY <1>4, CopyIsPlanned
<1>6. CreatedIds(ops) = {new[x] : x \in DownFrom(t, {e})}
  <2>1. IsSegment(ops) /\ CreatedIds(ops) = {new[x] : x \in DownFrom(t, {e})}
    BY <1>5, CopyPlanIsSegment
  <2> QED
    BY <2>1
<1>7. /\ \A x \in parts : new[x] \in EntryIds \ used
      /\ \A x, y \in parts : new[x] = new[y] => x = y
  BY <1>5 DEF IsCopyPlan
<1> DEFINE made == CreatedIds(ops)
           f == [x \in parts |-> new[x]]
<1>8. made = {new[x] : x \in parts}
  BY <1>6
<1> HIDE DEF parts, made
<1>9. f \in Surjection(parts, made) /\ f \in Injection(parts, made)
  BY <1>7, <1>8 DEF Surjection, Injection, IsInjective
<1> HIDE DEF f
<1>10. IsFiniteSet(parts) /\ parts \in SUBSET all
  BY <1>1, FS_Subset
<1>11. made \in SUBSET (EntryIds \ used)
  BY <1>7, <1>8
<1>12. Cardinality(made) = Cardinality(parts)
  BY <1>9, <1>10, FS_Surjection
<1>13. RoomFor(used \cup made, Cardinality(all \ parts))
  BY <1>10, <1>11, <1>12, RoomForTheRest
<1> QED
  BY <1>4, <1>13 DEF parts, made

\* Copies that have arrived in what is left of a tree are whole: the promise
\* of FileTree.
LEMMA ArrivedIsWhole ==
    ASSUME NEW from, NEW done, NEW to, NEW p, NEW u, NEW made, NEW named,
           SelectionArrived(from, done, to, p, u, made, named),
           NEW base, DOMAIN to \subseteq DOMAIN base, made \cap DOMAIN base = {},
           \A y \in DOMAIN to : to[y] = base[y]
    PROVE  ArrivedWhole(from, done, base, u, p, named)
<1>1. /\ DOMAIN u = DOMAIN to \cup made /\ \A y \in DOMAIN to : u[y] = to[y]
  BY DEF SelectionArrived
<1>2. PICK copy : OneCopyOfEach(from, done, p, u, made, named, copy)
  BY DEF SelectionArrived
<1>3. DOMAIN u \ DOMAIN base = made
  BY <1>1
<1>4. \A e \in DOMAIN u \cap DOMAIN base : u[e] = base[e]
  BY <1>1
<1>5. copy \in Injection(done, made)
  BY <1>2 DEF OneCopyOfEach, Injection, IsInjective
<1> DEFINE new == DOMAIN u \ DOMAIN base
<1>6. new = made
  BY <1>3
<1> HIDE DEF new
<1>7. /\ copy \in Injection(done, new)
      /\ \A e \in done : /\ u[copy[e]].parent = p
                         /\ <<e, u[copy[e]].name>> \in named
                         /\ Shape(u, copy[e]) = Shape(from, e)
      /\ \A y \in new : u[y].parent \in new \/ \E e \in done : y = copy[e]
  BY <1>2, <1>5, <1>6 DEF OneCopyOfEach
<1> QED
  BY <1>4, <1>7 DEF ArrivedWhole, new

\* The outermost entries of a selection are those that are copied, and one
\* entry is its own.
LEMMA OutermostEntries ==
    ASSUME NEW t
    PROVE  /\ \A E : Outermost(t, E) = TopLevel(t, E)
           /\ \A e : Outermost(t, {e}) = {e}
BY DEF Outermost, TopLevel, Below
=============================================================================
