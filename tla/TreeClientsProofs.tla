-------------------------- MODULE TreeClientsProofs --------------------------
(***************************************************************************)
(* Proofs about who changes the main Workspace's tree by name              *)
(* (TreeClients), for any tree, any number of requests and of clients.     *)
(*                                                                         *)
(* A request is planned on the tree of one revision and published later.   *)
(* What it publishes is what it planned because it is held to the revision *)
(* it has seen, or, for a new content alone, to the old content: that is   *)
(* RequestsInductive; and what it planned leaves, on the tree it has seen,  *)
(* what its method is for: PlansArrive.                                    *)
(***************************************************************************)
EXTENDS TreeClients, FileTreeProofs

-----------------------------------------------------------------------------
(* The operations of each request.                                         *)

\* One round of CopyAll.
CopiedNext(t, acc, e, p) ==
    LET ops == CopyOperations(t, acc.used, e, p, t[e].name)
    IN  [ops |-> acc.ops \o ops, used |-> acc.used \cup CreatedIds(ops)]

\* The rounds of CopyAll.
CopiesInTurn(t, ids, E, p, copied) ==
    /\ copied[0] = [ops |-> << >>, used |-> ids]
    /\ \A k \in 1..Cardinality(E) :
          copied[k] = CopiedNext(t, copied[k - 1], Listed(E)[k], p)
    /\ CopyAll(t, ids, E, p) = copied[Cardinality(E)].ops

\* The recursion of CopyAll has a solution.
LEMMA CopyAllUnfolds ==
    ASSUME NEW t, NEW ids, NEW E, NEW p, Cardinality(E) \in Nat
    PROVE  \E copied : CopiesInTurn(t, ids, E, p, copied)
<1> DEFINE start == [ops |-> << >>, used |-> ids]
           S == {n \in Nat : \E f : f = [k \in 0..n |->
                    IF k = 0 THEN start ELSE CopiedNext(t, f[k - 1], Listed(E)[k], p)]}
<1> HIDE DEF start
<1>1. 0 \in S
  <2> DEFINE f == [k \in 0..0 |-> start]
  <2>1. f = [k \in 0..0 |-> IF k = 0 THEN start ELSE CopiedNext(t, f[k - 1], Listed(E)[k], p)]
    OBVIOUS
  <2> HIDE DEF f
  <2> QED
    BY <2>1
<1>2. ASSUME NEW n \in Nat, n \in S PROVE n + 1 \in S
  <2>1. PICK f : f = [k \in 0..n |->
                        IF k = 0 THEN start ELSE CopiedNext(t, f[k - 1], Listed(E)[k], p)]
    BY <1>2
  <2> DEFINE g == [k \in 0..(n + 1) |->
                     IF k = n + 1 THEN CopiedNext(t, f[n], Listed(E)[n + 1], p) ELSE f[k]]
  <2>2. g = [k \in 0..(n + 1) |->
               IF k = 0 THEN start ELSE CopiedNext(t, g[k - 1], Listed(E)[k], p)]
    BY <2>1
  <2> HIDE DEF g
  <2> QED
    BY <2>2
<1> HIDE DEF S
<1>3. Cardinality(E) \in S
  BY <1>1, <1>2, SetInduction
<1> DEFINE solves(f) == f = [k \in 0..Cardinality(E) |->
                        IF k = 0 THEN start ELSE CopiedNext(t, f[k - 1], Listed(E)[k], p)]
           copied == CHOOSE f : solves(f)
<1>4. \E f : solves(f)
  BY <1>3 DEF S
<1>5. CopyAll(t, ids, E, p) = copied[Cardinality(E)].ops
  BY DEF CopyAll, CopiedNext, start
<1>6. solves(copied)
  <2> HIDE DEF solves
  <2> QED
    BY <1>4
<1>7. copied = [k \in 0..Cardinality(E) |->
          IF k = 0 THEN start ELSE CopiedNext(t, copied[k - 1], Listed(E)[k], p)]
  <2> HIDE DEF copied
  <2> QED
    BY <1>6
<1> HIDE DEF copied
<1>8. copied[0] = start /\ \A k \in 1..Cardinality(E) :
                    copied[k] = CopiedNext(t, copied[k - 1], Listed(E)[k], p)
  BY <1>7
<1>9. CopiesInTurn(t, ids, E, p, copied)
  BY <1>5, <1>8 DEF start, CopiesInTurn
<1> QED
  BY <1>9

\* What is below some entries and one more.
LEMMA BelowOneMore ==
    ASSUME NEW t, NEW D, NEW e
    PROVE  UNION {DownFrom(t, {x}) : x \in D \cup {e}}
             = (UNION {DownFrom(t, {x}) : x \in D}) \cup DownFrom(t, {e})
<1> DEFINE below == UNION {DownFrom(t, {x}) : x \in D}
           more == UNION {DownFrom(t, {x}) : x \in D \cup {e}}
<1>1. \A y : y \in below <=> \E x \in D : y \in DownFrom(t, {x})
  OBVIOUS
<1>2. \A y : y \in more <=> \E x \in D \cup {e} : y \in DownFrom(t, {x})
  OBVIOUS
<1> HIDE DEF below, more
<1>3. \A y : y \in more <=> y \in below \cup DownFrom(t, {e})
  BY <1>1, <1>2
<1> QED
  BY <1>3

\* The names of some entries and one more, and others.
LEMMA NamesOneMore ==
    ASSUME NEW t, NEW D, NEW e, NEW N
    PROVE  N \cup {t[x].name : x \in D \cup {e}} = (N \cup {t[x].name : x \in D}) \cup {t[e].name}
<1> DEFINE names == {t[x].name : x \in D}
           more == {t[x].name : x \in D \cup {e}}
<1>1. \A y : y \in more <=> y \in names \/ y = t[e].name
  OBVIOUS
<1> HIDE DEF names, more
<1> QED
  BY <1>1

\* Entries of which none is below another, with names that are not in the
\* destination.
SpreadOut(t, E, p) ==
    /\ \A d, e \in E : d # e => DownFrom(t, {d}) \cap DownFrom(t, {e}) = {}
    /\ \A d, e \in E : t[d].name = t[e].name => d = e
    /\ \A e \in E : \A d \in Children(t, p) : t[d].name # t[e].name

\* Several such entries are copied one after the other, each whole.
LEMMA CopyAllCopies ==
    ASSUME NEW t, IsTree(t), NEW ids, DOMAIN t \subseteq ids, NEW E \in SUBSET DOMAIN t,
           NEW all \in SUBSET EntryIds, \A e \in E : DownFrom(t, {e}) \subseteq all,
           RoomFor(ids, Cardinality(all)),
           NEW p \in DOMAIN t, t[p].content = None, SpreadOut(t, E, p),
           NEW named, \A e \in E : <<e, t[e].name>> \in named,
           NEW ops, ops = CopyAll(t, ids, E, p)
    PROVE  /\ IsSegment(ops) /\ CreatedIds(ops) \cap ids = {}
           /\ SelectionArrived(t, E, t, p, ApplySegment(t, ops), CreatedIds(ops), named)
<1> DEFINE size == Cardinality(E)
           order == Listed(E)
           done(k) == {order[i] : i \in 1..k}
           gone(k) == UNION {DownFrom(t, {x}) : x \in done(k)}
           taken == {t[y].name : y \in Children(t, p)}
           names(k) == taken \cup {t[x].name : x \in done(k)}
<1>1. /\ size \in Nat
      /\ \A i \in 1..size : order[i] \in E
      /\ \A x \in E : \E i \in 1..size : order[i] = x
      /\ \A i, j \in 1..size : order[i] = order[j] => i = j
  <2>1. E \in SUBSET EntryIds
    BY TreeFacts
  <2>2. IsFiniteSet(E) /\ IsOrder(E, ById(E))
    BY <2>1, ListedById
  <2> QED
    BY <2>2, InOrderLists DEF Listed
<1>2. PICK copied :
         /\ copied[0] = [ops |-> << >>, used |-> ids]
         /\ \A k \in 1..size : copied[k] = CopiedNext(t, copied[k - 1], order[k], p)
         /\ CopyAll(t, ids, E, p) = copied[size].ops
  <2>1. Cardinality(E) \in Nat
    BY <1>1
  <2> HIDE DEF done, gone, taken, names
  <2>2. PICK copied : CopiesInTurn(t, ids, E, p, copied)
    BY <2>1, CopyAllUnfolds
  <2> QED
    BY <2>2 DEF CopiesInTurn
<1>3. p \in EntryIds /\ \A x \in E : x \in DOMAIN t /\ t[x].name \in Names \cup {None}
  BY TreeFacts
<1> DEFINE Reached(k) == /\ CopiedSoFar(t, done(k), t, p, ids, names(k), copied[k].ops,
                                        copied[k].used, named)
                         /\ RoomFor(copied[k].used, Cardinality(all \ gone(k)))
           S == {k \in Nat : k <= size => Reached(k)}
<1> HIDE DEF size, order
<1>4. 0 \in S
  <2>1. done(0) = {}
    OBVIOUS
  <2>2. all \ gone(0) = all /\ names(0) = taken
    BY <2>1
  <2> HIDE DEF done, gone, names
  <2>3. CopiedSoFar(t, {}, t, p, ids, taken, << >>, ids, named)
    BY NothingIsCopied
  <2>4. copied[0].ops = << >> /\ copied[0].used = ids
    BY <1>2
  <2> HIDE DEF taken
  <2>5. Reached(0)
    BY <2>1, <2>2, <2>3, <2>4
  <2> QED
    BY <2>5
<1>5. ASSUME NEW k \in Nat, k \in S PROVE k + 1 \in S
  <2> SUFFICES ASSUME k + 1 <= size PROVE Reached(k + 1)
    OBVIOUS
  <2> DEFINE e == order[k + 1]
             acc == copied[k]
             more == CopyOperations(t, acc.used, e, p, t[e].name)
             left == all \ gone(k)
  <2>1. k <= size /\ k + 1 \in 1..size /\ (k + 1) - 1 = k
    BY <1>1
  <2>2. Reached(k)
    BY <1>5, <2>1
  <2>3. e \in E /\ e \notin done(k) /\ done(k) \subseteq E
    <3>1. e \in E
      BY <1>1, <2>1
    <3>2. \A i \in 1..k : i \in 1..size /\ i # k + 1
      BY <1>1, <2>1
    <3>3. e \notin done(k)
      BY <1>1, <2>1, <3>2
    <3>4. done(k) \subseteq E
      BY <1>1, <3>2
    <3> QED
      BY <3>1, <3>3, <3>4
  <2>4. done(k + 1) = done(k) \cup {e}
    <3>1. \A i \in 1..(k + 1) : i \in 1..k \/ i = k + 1
      OBVIOUS
    <3>2. \A i \in 1..k : i \in 1..(k + 1)
      OBVIOUS
    <3>3. k + 1 \in 1..(k + 1)
      OBVIOUS
    <3> QED
      BY <3>1, <3>2, <3>3
  <2> HIDE DEF done, e
  <2>5. /\ gone(k + 1) = gone(k) \cup DownFrom(t, {e})
        /\ names(k + 1) = names(k) \cup {t[e].name}
    <3>1. gone(k + 1) = gone(k) \cup DownFrom(t, {e})
      BY <2>4, BelowOneMore
    <3>2. names(k + 1) = names(k) \cup {t[e].name}
      <4> HIDE DEF taken
      <4> QED
        BY <2>4, NamesOneMore
    <3> QED
      BY <3>1, <3>2
  <2>6. DownFrom(t, {e}) \subseteq left /\ left \in SUBSET EntryIds
    <3>1. \A y \in gone(k) : \E x \in done(k) : y \in DownFrom(t, {x})
      OBVIOUS
    <3> HIDE DEF gone
    <3>2. \A x \in done(k) : DownFrom(t, {x}) \cap DownFrom(t, {e}) = {}
      BY <2>3 DEF SpreadOut
    <3>3. DownFrom(t, {e}) \cap gone(k) = {}
      BY <3>1, <3>2
    <3> QED
      BY <2>3, <3>3
  <2>7. t[e].name \notin names(k)
    BY <2>3 DEF SpreadOut
  <2>8. copied[k + 1].ops = acc.ops \o more /\ copied[k + 1].used = acc.used \cup CreatedIds(more)
    <3>1. copied[k + 1] = CopiedNext(t, acc, e, p)
      BY <1>2, <2>1 DEF e
    <3>2. copied[k + 1] = [ops |-> acc.ops \o more, used |-> acc.used \cup CreatedIds(more)]
      BY <3>1 DEF CopiedNext
    <3> HIDE DEF acc, more
    <3> QED
      BY <3>2
  <2>9. all \ gone(k + 1) = left \ DownFrom(t, {e})
    BY <2>5
  <2>10. /\ CopiedSoFar(t, done(k), t, p, ids, names(k), acc.ops, acc.used, named)
         /\ RoomFor(acc.used, Cardinality(left))
    BY <2>2
  <2> HIDE DEF gone, names, left
  <2> DEFINE olds == acc.ops
             spent == acc.used
             name == t[e].name
  <2>11. e \in DOMAIN t /\ name \in Names \cup {None}
    BY <1>3, <2>3
  <2> HIDE DEF acc, olds, spent, name
  <2>12. more = CopyOperations(t, spent, e, p, name)
    BY DEF spent, name
  <2> HIDE DEF more
  <2>13. /\ CopiedSoFar(t, done(k), t, p, ids, names(k), olds, spent, named)
         /\ RoomFor(spent, Cardinality(left)) /\ name \notin names(k)
         /\ <<e, name>> \in named
    BY <2>3, <2>7, <2>10 DEF olds, spent, name
  <2>14. /\ RoomFor(spent, Cardinality(DownFrom(t, {e})))
         /\ RoomFor(spent \cup CreatedIds(more), Cardinality(left \ DownFrom(t, {e})))
    BY <1>3, <2>6, <2>11, <2>12, <2>13, RoomAfterCopy
  <2>15. CopiedSoFar(t, done(k) \cup {e}, t, p, ids, names(k) \cup {name}, olds \o more,
                     spent \cup CreatedIds(more), named)
    BY <2>3, <2>11, <2>12, <2>13, <2>14, OneMoreCopy
  <2> QED
    BY <2>4, <2>5, <2>8, <2>9, <2>14, <2>15 DEF olds, spent, name
<1>6. Reached(size)
  <2> HIDE DEF Reached
  <2>1. 0 \in S /\ \A k \in Nat : k \in S => k + 1 \in S
    BY <1>4, <1>5
  <2> HIDE DEF S
  <2>2. size \in S
    BY <1>1, <2>1, SetInduction
  <2> QED
    BY <1>1, <2>2 DEF S
<1>7. done(size) = E
  BY <1>1
<1>8. CopiedSoFar(t, E, t, p, ids, names(size), ops, copied[size].used, named)
  <2> HIDE DEF done, gone, names
  <2> QED
    BY <1>2, <1>6, <1>7
<1> HIDE DEF names
<1> QED
  BY <1>8 DEF CopiedSoFar

-----------------------------------------------------------------------------
(* What a segment may do to the tree it was planned on.                    *)

\* No directory of t has two names in u that differ in case only unless it had.
AddsNoConflict(t, u) ==
    \A x \in CaseConflicts(u) :
       \/ u[x[1]].parent \notin DOMAIN t
       \/ \E y \in CaseConflicts(t) : t[y[1]].parent = u[x[1]].parent

\* The operations of a request are operations, and what they leave, if they
\* are applied to the tree they were planned on, is what was asked for.
PlannedWell(t, by, method, asked, ops) ==
    LET next == ApplySegment(t, ops)
    IN  /\ IsSegment(ops)
        /\ next # Refused =>
             /\ method = "copy" => Copied(t, next, asked)
             /\ method = "move" => Moved(t, next, asked)
             /\ method \in {"copy", "move"} /\ by = Manager => DOMAIN t \subseteq DOMAIN next
             /\ by \in Clients => AddsNoConflict(t, next)

\* Every request on its way was planned well on a tree, and a copy or a move
\* is held to the revision it has seen.
PlansArrive ==
    \A r \in RequestIds : Waiting(r) =>
       /\ IsTree(request[r].seen)
       /\ PlannedWell(request[r].seen, request[r].by, request[r].method, request[r].asked,
                      request[r].ops)
       /\ request[r].method \in {"copy", "move"} => request[r].expects # None

\* The inductive invariant of the clients.
ClientsInductive == TreeClientsTypeOK /\ RequestsInductive /\ PlansArrive

\* Moves of the entries of a list, each under its name.
MovesListed(t, ops, k, list, p, named) ==
    \A i \in 1..k : /\ IsMove(ops[i]) /\ ops[i].id = list[i] /\ ops[i].parent = p
                    /\ ops[i].name = named[list[i]] /\ list[i] \in DOMAIN t

\* What the first n moves of a list leave.
LeftByMoves(t, u, n, list, p, named) ==
    /\ DOMAIN u = DOMAIN t
    /\ \A e \in DOMAIN t :
          u[e] = IF \E i \in 1..n : list[i] = e THEN MovedTo(t, e, p, named) ELSE t[e]

\* A segment of moves of some entries into one directory.
LEMMA MovesMove ==
    ASSUME NEW t, IsTree(t), NEW p, NEW k \in Nat, NEW list, NEW named,
           NEW ops, IsSegment(ops), Len(ops) = k,
           MovesListed(t, ops, k, list, p, named), ApplySegment(t, ops) # Refused
    PROVE  LeftByMoves(t, ApplySegment(t, ops), k, list, p, named)
<1>1. PICK f : /\ f[0] = t /\ f[Len(ops)] = ApplySegment(t, ops)
               /\ \A n \in 0..Len(ops) : IsTree(f[n])
               /\ \A n \in 1..Len(ops) : Allowed(f[n - 1], ops[n]) /\ f[n] = Effect(f[n - 1], ops[n])
  BY SegmentRuns
<1> DEFINE Reached(u, n) == LeftByMoves(t, u, n, list, p, named)
           S == {n \in Nat : n <= Len(ops) => Reached(f[n], n)}
<1>2. 0 \in S
  <2>1. Reached(t, 0)
    BY DEF LeftByMoves
  <2> HIDE DEF Reached
  <2> QED
    BY <1>1, <2>1
<1>3. ASSUME NEW n \in Nat, n \in S PROVE n + 1 \in S
  <2> SUFFICES ASSUME n + 1 <= k PROVE Reached(f[n + 1], n + 1)
    BY DEF S
  <2> HIDE DEF Reached
  <2>1. n + 1 \in 1..k /\ (n + 1) - 1 = n /\ n \in 0..k /\ Reached(f[n], n)
    BY <1>3 DEF S
  <2> DEFINE op == ops[n + 1]
             v == f[n]
             u == f[n + 1]
             x == list[n + 1]
  <2>2. /\ Allowed(v, op) /\ u = Effect(v, op) /\ IsTree(v) /\ IsMove(op)
        /\ op.id = x /\ op.parent = p /\ op.name = named[x] /\ x \in DOMAIN t
    BY <1>1, <2>1 DEF MovesListed
  <2>3. \A e : (\E i \in 1..(n + 1) : list[i] = e) <=> (\E i \in 1..n : list[i] = e) \/ e = x
    <3>1. \A i \in 1..(n + 1) : i \in 1..n \/ i = n + 1
      OBVIOUS
    <3>2. \A i \in 1..n : i \in 1..(n + 1)
      OBVIOUS
    <3>3. n + 1 \in 1..(n + 1)
      OBVIOUS
    <3> QED
      BY <3>1, <3>2, <3>3
  <2>4. Reached(v, n)
    BY <2>1
  <2> HIDE DEF op, u, v, x, S
  <2>5. /\ DOMAIN u = DOMAIN v
        /\ u[x] = [parent |-> p, name |-> named[x], content |-> v[x].content]
        /\ \A e \in DOMAIN v \ {x} : u[e] = v[e]
    <3>1. /\ DOMAIN Effect(v, op) = DOMAIN v
          /\ Effect(v, op)[op.id] = [parent |-> op.parent, name |-> op.name, content |-> v[op.id].content]
          /\ \A e \in DOMAIN v \ {op.id} : Effect(v, op)[e] = v[e]
      BY <2>2, MoveChangesOne
    <3> QED
      BY <2>2, <3>1
  <2>6. v[x].content = t[x].content
    BY <2>2, <2>4 DEF Reached, LeftByMoves, MovedTo
  <2>7. u[x] = MovedTo(t, x, p, named)
    BY <2>5, <2>6 DEF MovedTo
  <2>8. Reached(u, n + 1)
    BY <2>3, <2>4, <2>5, <2>7 DEF Reached, LeftByMoves
  <2> QED
    BY <2>8 DEF u
<1>4. Reached(ApplySegment(t, ops), k)
  <2> HIDE DEF S, Reached
  <2>1. k \in S
    BY <1>2, <1>3, SetInduction
  <2> QED
    BY <1>1, <2>1 DEF S
<1> QED
  BY <1>4

\* A list of k entries that has those of M.
Lists(list, k, M) ==
    (\A i \in 1..k : list[i] \in M) /\ (\A e \in M : \E i \in 1..k : list[i] = e)

\* The names of the entries of M.
NamesFor(named, M) == \A e \in M : named[e] \in Names \cup {None}

MoveAll(list, k, p, named) == [i \in 1..k |-> MoveEntry(list[i], p, named[list[i]])]

\* Moves of some entries into one directory, each under its name.
LEMMA MovesArrive ==
    ASSUME NEW t, IsTree(t), NEW M \in SUBSET DOMAIN t, NEW p \in EntryIds, NEW k \in Nat,
           NEW list, Lists(list, k, M),
           NEW named, NamesFor(named, M), NEW ops, ops = MoveAll(list, k, p, named)
    PROVE  /\ IsSegment(ops)
           /\ ApplySegment(t, ops) # Refused =>
                /\ DOMAIN ApplySegment(t, ops) = DOMAIN t
                /\ \A e \in DOMAIN t :
                      ApplySegment(t, ops)[e] = IF e \in M THEN MovedTo(t, e, p, named) ELSE t[e]
<1>1. MovesListed(t, ops, k, list, p, named)
  <2> SUFFICES ASSUME NEW i \in 1..k
               PROVE  /\ IsMove(ops[i]) /\ ops[i].id = list[i] /\ ops[i].parent = p
                      /\ ops[i].name = named[list[i]] /\ list[i] \in DOMAIN t
    BY DEF MovesListed
  <2>1. ops[i] = MoveEntry(list[i], p, named[list[i]])
    BY DEF MoveAll
  <2>2. list[i] \in EntryIds /\ named[list[i]] \in Names \cup {None} /\ list[i] \in DOMAIN t
    BY TreeFacts DEF Lists, NamesFor
  <2> QED
    BY <2>1, <2>2 DEF IsMove, MoveEntry
<1>2. ops = [i \in 1..k |-> ops[i]]
  BY DEF MoveAll
<1>3. IsSegment(ops) /\ Len(ops) = k
  <2>1. \A i \in 1..k : IsOperation(ops[i])
    BY <1>1 DEF IsOperation, MovesListed
  <2> QED
    BY <1>2, <2>1, ListIsSegment
<1>4. \A e : e \in M <=> \E i \in 1..k : list[i] = e
  BY DEF Lists
<1> DEFINE u == ApplySegment(t, ops)
<1>5. u # Refused =>
         /\ DOMAIN u = DOMAIN t
         /\ \A e \in DOMAIN t :
               u[e] = IF \E i \in 1..k : list[i] = e THEN MovedTo(t, e, p, named) ELSE t[e]
  <2>1. u # Refused => LeftByMoves(t, u, k, list, p, named)
    BY <1>1, <1>3, MovesMove
  <2> HIDE DEF u
  <2> QED
    BY <2>1 DEF LeftByMoves
<1> HIDE DEF u
<1>6. u # Refused =>
         /\ DOMAIN u = DOMAIN t
         /\ \A e \in DOMAIN t : u[e] = IF e \in M THEN MovedTo(t, e, p, named) ELSE t[e]
  BY <1>4, <1>5
<1> QED
  BY <1>3, <1>6 DEF u

\* Without a new name there is no new conflict.
LEMMA FewerEntriesAddNoConflict ==
    ASSUME NEW t, NEW u, DOMAIN u \subseteq DOMAIN t,
           \A e \in DOMAIN u : u[e].parent = t[e].parent /\ u[e].name = t[e].name
    PROVE  AddsNoConflict(t, u)
BY DEF AddsNoConflict, CaseConflicts

\* One entry has a new name, in the directory p, and the others in directories
\* of t are as in t; p did not have that name in another case, or had a
\* conflict.
OneNewName(t, u, top, p, n) ==
    /\ u[top].parent = p /\ u[top].name = n
    /\ \A y \in DOMAIN u \ {top} :
          \/ u[y].parent \notin DOMAIN t
          \/ y \in DOMAIN t /\ u[y].parent = t[y].parent /\ u[y].name = t[y].name
    /\ \A y \in DOMAIN u \ {top} :
          u[y].parent = p /\ Fold(u[y].name) = Fold(n)
            => \E x \in CaseConflicts(t) : t[x[1]].parent = p

\* Such a name adds no conflict.
LEMMA OneNewNameAddsNoConflict ==
    ASSUME NEW t, NEW u, NEW top, NEW p, NEW n, OneNewName(t, u, top, p, n)
    PROVE  AddsNoConflict(t, u)
<1> SUFFICES ASSUME NEW x \in CaseConflicts(u), u[x[1]].parent \in DOMAIN t
             PROVE  \E y \in CaseConflicts(t) : t[y[1]].parent = u[x[1]].parent
  BY DEF AddsNoConflict
<1> DEFINE d == x[1]
           e == x[2]
<1>1. /\ d \in DOMAIN u /\ e \in DOMAIN u /\ d # e /\ x = <<d, e>>
      /\ u[d].parent = u[e].parent /\ Fold(u[d].name) = Fold(u[e].name)
  BY DEF CaseConflicts
<1> HIDE DEF d, e
<1>2. u[d].parent \in DOMAIN t
  BY DEF d
<1>3. CASE d # top /\ e # top
  <2>1. d \in DOMAIN t /\ u[d].parent = t[d].parent /\ u[d].name = t[d].name
    BY <1>1, <1>2, <1>3 DEF OneNewName
  <2>2. e \in DOMAIN t /\ u[e].parent = t[e].parent /\ u[e].name = t[e].name
    BY <1>1, <1>2, <1>3 DEF OneNewName
  <2>3. x \in CaseConflicts(t)
    BY <1>1, <2>1, <2>2 DEF CaseConflicts
  <2> QED
    BY <2>1, <2>3 DEF d
<1>4. CASE d = top
  BY <1>1, <1>4 DEF d, OneNewName
<1>5. CASE e = top
  BY <1>1, <1>5 DEF d, OneNewName
<1> QED
  BY <1>3, <1>4, <1>5

\* What is at a name, by the name folded.
LEMMA WhatIsFound ==
    ASSUME NEW t, IsTree(t), NEW p, NEW n
    PROVE  /\ Found(t, p, n) = None => \A d \in Children(t, p) : Fold(t[d].name) # Fold(n)
           /\ Found(t, p, n) # None => /\ Found(t, p, n) \in Children(t, p)
                                       /\ Fold(t[Found(t, p, n)].name) = Fold(n)
<1> DEFINE same == {d \in Children(t, p) : Fold(t[d].name) = Fold(n)}
<1>1. \A d \in same : d # None
  BY TreeFacts, EntryIdsAreFinite DEF Children
<1>2. CASE same = {}
  BY <1>2 DEF Found
<1>3. CASE same # {} /\ \E d \in same : t[d].name = UpperName
  <2>1. Found(t, p, n) = CHOOSE d \in same : t[d].name = UpperName
    BY <1>3 DEF Found
  <2>2. Found(t, p, n) \in same
    <3> HIDE DEF same
    <3> QED
      BY <1>3, <2>1
  <2> QED
    BY <1>1, <2>2
<1>4. CASE same # {} /\ ~\E d \in same : t[d].name = UpperName
  <2>1. Found(t, p, n) = CHOOSE d \in same : TRUE
    BY <1>4 DEF Found
  <2>2. Found(t, p, n) \in same
    <3> HIDE DEF same
    <3> QED
      BY <1>4, <2>1
  <2> QED
    BY <1>1, <2>2
<1> QED
  BY <1>2, <1>3, <1>4

-----------------------------------------------------------------------------
(* What each method plans.                                                 *)

\* The creation of one entry, for a client under a name that was not found.
LEMMA CreationIsPlannedWell ==
    ASSUME NEW t, IsTree(t), NEW by, NEW method, method \notin {"copy", "move"},
           NEW id \in EntryIds, NEW p \in EntryIds, NEW n \in Names \cup {None},
           NEW c \in Contents \cup {None},
           by \in Clients => Found(t, p, n) = None
    PROVE  PlannedWell(t, by, method, None, <<CreateEntry(id, p, n, c)>>)
<1> DEFINE op == CreateEntry(id, p, n, c)
           u == ApplySegment(t, <<op>>)
<1>1. /\ op.kind = "create" /\ op.id = id /\ op.parent = p /\ op.name = n /\ op.content = c
      /\ IsCreate(op)
  BY DEF CreateEntry, IsCreate
<1> HIDE DEF op, u
<1>2. IsOperation(op) /\ IsSegment(<<op>>)
  BY <1>1, OneOperation DEF IsOperation
<1>3. ASSUME u # Refused, by \in Clients PROVE AddsNoConflict(t, u)
  <2>1. u = ApplyOperation(t, op)
    BY ShortSegments DEF u
  <2>2. Allowed(t, op) /\ u = Effect(t, op)
    BY <1>2, <1>3, <2>1, OperationKeepsTree
  <2>3. /\ IsTree(u) /\ DOMAIN u = DOMAIN t \cup {id} /\ id \notin DOMAIN t
        /\ \A e \in DOMAIN t : u[e] = t[e]
        /\ u[id] = [parent |-> p, name |-> n, content |-> c]
    <3>1. /\ IsTree(Effect(t, op))
          /\ DOMAIN Effect(t, op) = DOMAIN t \cup {op.id} /\ op.id \notin DOMAIN t
          /\ \A e \in DOMAIN t : Effect(t, op)[e] = t[e]
          /\ Effect(t, op)[op.id] = [parent |-> op.parent, name |-> op.name, content |-> op.content]
      BY <1>1, <2>2, CreateKeepsTree
    <3> QED
      BY <1>1, <2>2, <3>1
  <2>4. u[id].parent = p /\ u[id].name = n
    BY <2>3
  <2>5. \A y \in DOMAIN u \ {id} :
              \/ u[y].parent \notin DOMAIN t
              \/ y \in DOMAIN t /\ u[y].parent = t[y].parent /\ u[y].name = t[y].name
    BY <2>3
  <2>6. \A y \in DOMAIN u \ {id} : ~(u[y].parent = p /\ Fold(u[y].name) = Fold(n))
    BY <1>3, <2>3, WhatIsFound DEF Children
  <2>7. OneNewName(t, u, id, p, n)
    BY <2>4, <2>5, <2>6 DEF OneNewName
  <2> QED
    BY <2>7, OneNewNameAddsNoConflict
<1> QED
  BY <1>2, <1>3 DEF PlannedWell, u, op

\* A new content of a file, given to whatever tree it applies to.
LEMMA ContentChangesOneFile ==
    ASSUME NEW e \in EntryIds, NEW old, NEW c \in Contents, NEW op, op = SetContent(e, old, c),
           NEW u, IsTree(u), NEW v, v = ApplySegment(u, <<op>>), v # Refused
    PROVE  /\ AddsNoConflict(u, v) /\ DOMAIN v = DOMAIN u
           /\ e \in DOMAIN u /\ u[e].content = old
           /\ \A d \in DOMAIN u \ {e} : v[d] = u[d]
<1>1. IsSetContent(op) /\ op.id = e /\ op.expected = old
  BY DEF SetContent, IsSetContent
<1>2. IsOperation(op)
  BY <1>1 DEF IsOperation
<1>3. v = ApplyOperation(u, op)
  BY ShortSegments
<1>4. Allowed(u, op) /\ v = Effect(u, op)
  BY <1>2, <1>3, OperationKeepsTree
<1>5. /\ DOMAIN Effect(u, op) = DOMAIN u /\ op.id \in DOMAIN u
      /\ u[op.id].content # None /\ u[op.id].content = op.expected
      /\ \A d \in DOMAIN u : /\ Effect(u, op)[d].parent = u[d].parent
                             /\ Effect(u, op)[d].name = u[d].name
      /\ \A d \in DOMAIN u \ {op.id} : Effect(u, op)[d] = u[d]
  BY <1>1, <1>4, SetContentKeepsTree
<1>6. AddsNoConflict(u, v)
  BY <1>4, <1>5, FewerEntriesAddNoConflict
<1> QED
  BY <1>1, <1>4, <1>5, <1>6

\* A new content of a file.
LEMMA ContentIsPlannedWell ==
    ASSUME NEW t, IsTree(t), NEW by, NEW method, method \notin {"copy", "move"},
           NEW e \in EntryIds, NEW old, NEW c \in Contents
    PROVE  PlannedWell(t, by, method, None, <<SetContent(e, old, c)>>)
<1> DEFINE op == SetContent(e, old, c)
           v == ApplySegment(t, <<op>>)
<1>1. IsSetContent(op)
  BY DEF SetContent, IsSetContent
<1>2. op = SetContent(e, old, c)
  OBVIOUS
<1> HIDE DEF op
<1>3. IsSegment(<<op>>)
  BY <1>1, OneOperation DEF IsOperation
<1>4. ASSUME v # Refused PROVE AddsNoConflict(t, v)
  <2>1. v = ApplySegment(t, <<op>>)
    OBVIOUS
  <2> HIDE DEF v
  <2>2. /\ AddsNoConflict(t, v) /\ DOMAIN v = DOMAIN t
        /\ e \in DOMAIN t /\ t[e].content = old
        /\ \A d \in DOMAIN t \ {e} : v[d] = t[d]
    BY <1>2, <1>4, <2>1, ContentChangesOneFile
  <2> QED
    BY <2>2
<1>5. PlannedWell(t, by, method, None, <<op>>)
  BY <1>3, <1>4 DEF PlannedWell
<1> QED
  BY <1>5 DEF op

\* The removal of an entry.
LEMMA RemovalIsPlannedWell ==
    ASSUME NEW t, IsTree(t), NEW by, NEW method, method \notin {"copy", "move"},
           NEW e \in EntryIds, NEW recursive
    PROVE  PlannedWell(t, by, method, None, <<RemoveEntry(e, recursive)>>)
<1> DEFINE op == RemoveEntry(e, recursive)
           u == ApplySegment(t, <<op>>)
<1>1. IsRemove(op)
  BY DEF RemoveEntry, IsRemove
<1> HIDE DEF op, u
<1>2. IsOperation(op) /\ IsSegment(<<op>>)
  BY <1>1, OneOperation DEF IsOperation
<1>3. ASSUME u # Refused PROVE AddsNoConflict(t, u)
  <2>1. u = ApplyOperation(t, op)
    BY ShortSegments DEF u
  <2>2. Allowed(t, op) /\ u = Effect(t, op)
    BY <1>2, <1>3, <2>1, OperationKeepsTree
  <2>3. /\ IsTree(Effect(t, op)) /\ op.id \in DOMAIN t \ {Root}
        /\ DOMAIN Effect(t, op) = DOMAIN t \ DownFrom(t, {op.id})
        /\ \A d \in DOMAIN Effect(t, op) : Effect(t, op)[d] = t[d]
    BY <1>1, <2>2, RemoveKeepsTree
  <2> QED
    BY <2>2, <2>3, FewerEntriesAddNoConflict
<1> QED
  BY <1>2, <1>3 DEF PlannedWell, u, op

\* The removals of several entries by the file manager.
LEMMA RemovalsArePlannedWell ==
    ASSUME NEW t, NEW k \in Nat, NEW e, \A i \in 1..k : e[i] \in EntryIds, NEW deep
    PROVE  PlannedWell(t, Manager, "remove", None, [i \in 1..k |-> RemoveEntry(e[i], deep[i])])
<1> DEFINE ops == [i \in 1..k |-> RemoveEntry(e[i], deep[i])]
<1>1. ops = [i \in 1..k |-> ops[i]]
  OBVIOUS
<1>2. \A i \in 1..k : IsOperation(ops[i])
  BY DEF IsOperation, IsRemove, RemoveEntry
<1> HIDE DEF ops
<1>3. IsSegment(ops)
  BY <1>1, <1>2, ListIsSegment
<1>4. PlannedWell(t, Manager, "remove", None, ops)
  BY <1>3, ClientsAssumption DEF PlannedWell
<1> QED
  BY <1>4 DEF ops

\* A selection with its destination.
Sent(E, p, named) == [what |-> E, to |-> p, named |-> named]

\* The moves of a selection's outermost entries, by the file manager.
LEMMA MovesArePlannedWell ==
    ASSUME NEW t, IsTree(t), NEW E, NEW M \in SUBSET DOMAIN t, M = Outermost(t, E),
           NEW p \in EntryIds, NEW k \in Nat,
           NEW list, Lists(list, k, M),
           NEW named, NamesFor(named, M), NEW ops, ops = MoveAll(list, k, p, named)
    PROVE  PlannedWell(t, Manager, "move", Sent(E, p, named), ops)
<1> DEFINE u == ApplySegment(t, ops)
           asked == Sent(E, p, named)
<1>1. /\ IsSegment(ops)
      /\ u # Refused =>
           /\ DOMAIN u = DOMAIN t
           /\ \A e \in DOMAIN t : u[e] = IF e \in M THEN MovedTo(t, e, p, named) ELSE t[e]
  BY MovesArrive
<1>2. asked.what = E /\ asked.to = p /\ asked.named = named
  BY DEF Sent
<1> HIDE DEF u, asked
<1>3. u # Refused => Moved(t, u, asked) /\ DOMAIN t \subseteq DOMAIN u
  BY <1>1, <1>2 DEF Moved
<1> QED
  BY <1>1, <1>3, ClientsAssumption DEF PlannedWell, u, asked

\* What is left when the entry at a destination has been removed: the
\* destination's name is free, or its directory had a conflict already.
LEMMA DestinationIsCleared ==
    ASSUME IsTree(tree), NEW p \in DOMAIN tree, NEW n
    PROVE  /\ IsSegment(Replacing(p, n)) /\ CreatedIds(Replacing(p, n)) = {}
           /\ ApplySegment(tree, Replacing(p, n)) # Refused =>
                /\ IsTree(ApplySegment(tree, Replacing(p, n)))
                /\ DOMAIN ApplySegment(tree, Replacing(p, n)) \subseteq DOMAIN tree
                /\ \A y \in DOMAIN ApplySegment(tree, Replacing(p, n)) :
                      ApplySegment(tree, Replacing(p, n))[y] = tree[y]
                /\ \A y \in DOMAIN ApplySegment(tree, Replacing(p, n)) :
                      tree[y].parent = p /\ Fold(tree[y].name) = Fold(n)
                        => \E x \in CaseConflicts(tree) : tree[x[1]].parent = p
<1> DEFINE ops == Replacing(p, n)
           v == ApplySegment(tree, ops)
           old == Found(tree, p, n)
<1>1. CASE old = None
  <2>1. ops = << >>
    BY <1>1 DEF Replacing
  <2>2. IsSegment(ops) /\ CreatedIds(ops) = {} /\ v = tree
    BY <2>1, OneOperation, ShortSegments
  <2>3. \A y \in DOMAIN tree : ~(tree[y].parent = p /\ Fold(tree[y].name) = Fold(n))
    BY <1>1, WhatIsFound DEF Children
  <2> HIDE DEF ops, v
  <2>4. /\ IsSegment(ops) /\ CreatedIds(ops) = {} /\ IsTree(v) /\ DOMAIN v \subseteq DOMAIN tree
        /\ \A y \in DOMAIN v : v[y] = tree[y]
        /\ \A y \in DOMAIN v : tree[y].parent = p /\ Fold(tree[y].name) = Fold(n)
              => \E x \in CaseConflicts(tree) : tree[x[1]].parent = p
    BY <2>2, <2>3
  <2> QED
    BY <2>4 DEF ops, v
<1>2. CASE old # None
  <2> DEFINE op == RemoveEntry(old, TRUE)
  <2>1. ops = <<op>>
    BY <1>2 DEF Replacing
  <2>2. /\ old \in DOMAIN tree /\ tree[old].parent = p /\ Fold(tree[old].name) = Fold(n)
        /\ old \in EntryIds
    BY <1>2, WhatIsFound, TreeFacts DEF Children
  <2>3. IsRemove(op) /\ op.id = old /\ op.kind = "remove"
    BY <2>2 DEF IsRemove, RemoveEntry
  <2> HIDE DEF op, old, ops, v
  <2>4. IsOperation(op) /\ IsSegment(ops) /\ CreatedIds(ops) = {}
    BY <2>1, <2>3, OneOperation DEF IsOperation
  <2>5. ASSUME v # Refused
        PROVE  /\ IsTree(v) /\ DOMAIN v \subseteq DOMAIN tree
               /\ \A y \in DOMAIN v : v[y] = tree[y]
               /\ \A y \in DOMAIN v : tree[y].parent = p /\ Fold(tree[y].name) = Fold(n)
                    => \E x \in CaseConflicts(tree) : tree[x[1]].parent = p
    <3>1. v = ApplyOperation(tree, op)
      BY <2>1, ShortSegments DEF v
    <3>2. Allowed(tree, op) /\ v = Effect(tree, op)
      BY <2>4, <2>5, <3>1, OperationKeepsTree
    <3>3. /\ IsTree(Effect(tree, op)) /\ op.id \in DOMAIN tree \ {Root}
          /\ DOMAIN Effect(tree, op) = DOMAIN tree \ DownFrom(tree, {op.id})
          /\ \A d \in DOMAIN Effect(tree, op) : Effect(tree, op)[d] = tree[d]
      BY <2>3, <3>2, RemoveKeepsTree
    <3>4. old \in DownFrom(tree, {old})
      BY <2>2, SubtreeFacts
    <3>5. ASSUME NEW y \in DOMAIN v, tree[y].parent = p, Fold(tree[y].name) = Fold(n)
          PROVE  \E x \in CaseConflicts(tree) : tree[x[1]].parent = p
      <4>1. y # old /\ y \in DOMAIN tree
        BY <2>3, <3>2, <3>3, <3>4
      <4>2. <<y, old>> \in CaseConflicts(tree)
        BY <2>2, <3>5, <4>1 DEF CaseConflicts
      <4> QED
        BY <3>5, <4>2
    <3> QED
      BY <3>2, <3>3, <3>5
  <2> QED
    BY <2>4, <2>5 DEF v, ops
<1> QED
  BY <1>1, <1>2

\* A client moves an entry to a destination, which is cleared first.
LEMMA WormholeMoveIsPlannedWell ==
    ASSUME IsTree(tree), NEW c \in Clients, NEW e \in DOMAIN tree, NEW p \in DOMAIN tree,
           NEW n \in Names \cup {None}, NEW named, named[e] = n
    PROVE  PlannedWell(tree, c, "move", Sent({e}, p, named),
                       Replacing(p, n) \o <<MoveEntry(e, p, n)>>)
<1> DEFINE first == Replacing(p, n)
           op == MoveEntry(e, p, n)
           ops == first \o <<op>>
           v == ApplySegment(tree, first)
           u == ApplySegment(tree, ops)
<1>1. e \in EntryIds /\ p \in EntryIds
  BY TreeFacts
<1>2. IsMove(op) /\ op.id = e /\ op.parent = p /\ op.name = n
  BY <1>1 DEF IsMove, MoveEntry
<1>3. IsSegment(first)
  BY DestinationIsCleared
<1> HIDE DEF op
<1>4. IsOperation(op) /\ IsSegment(<<op>>)
  BY <1>2, OneOperation DEF IsOperation
<1>5. u = ApplyOperation(v, op)
  <2>1. ApplySegment(v, <<op>>) = ApplyOperation(v, op)
    BY ShortSegments
  <2> HIDE DEF first
  <2> QED
    BY <1>3, <1>4, <2>1, SegmentsAreAppliedInTurn
<1>6. IsSegment(ops)
  <2> HIDE DEF first
  <2> QED
    BY <1>3, <1>4, SegmentsJoin
<1>7. v # Refused =>
        /\ IsTree(v) /\ DOMAIN v \subseteq DOMAIN tree
        /\ \A y \in DOMAIN v : v[y] = tree[y]
        /\ \A y \in DOMAIN v : tree[y].parent = p /\ Fold(tree[y].name) = Fold(n)
              => \E x \in CaseConflicts(tree) : tree[x[1]].parent = p
  BY DestinationIsCleared
<1> HIDE DEF first, ops, u, v
<1> DEFINE asked == Sent({e}, p, named)
<1>8. ASSUME u # Refused PROVE AddsNoConflict(tree, u) /\ Moved(tree, u, asked)
  <2>1. v # Refused
    BY <1>5, <1>8 DEF ApplyOperation
  <2>2. IsTree(v) /\ Allowed(v, op) /\ u = Effect(v, op)
    BY <1>4, <1>5, <1>7, <1>8, <2>1, OperationKeepsTree
  <2>3. /\ DOMAIN Effect(v, op) = DOMAIN v
        /\ Effect(v, op)[op.id] = [parent |-> op.parent, name |-> op.name, content |-> v[op.id].content]
        /\ \A y \in DOMAIN v \ {op.id} : Effect(v, op)[y] = v[y]
    BY <1>2, <2>2, MoveChangesOne
  <2>4. u[e].parent = p /\ u[e].name = n
    BY <1>2, <2>2, <2>3
  <2>5. \A y \in DOMAIN u \ {e} : y \in DOMAIN tree /\ u[y] = tree[y] /\ y \in DOMAIN v
    BY <1>2, <1>7, <2>1, <2>2, <2>3
  <2>6. \A y \in DOMAIN u \ {e} :
              \/ u[y].parent \notin DOMAIN tree
              \/ y \in DOMAIN tree /\ u[y].parent = tree[y].parent /\ u[y].name = tree[y].name
    BY <2>5
  <2>7. \A y \in DOMAIN u \ {e} :
              u[y].parent = p /\ Fold(u[y].name) = Fold(n)
                => \E x \in CaseConflicts(tree) : tree[x[1]].parent = p
    BY <1>7, <2>1, <2>5
  <2>8. OneNewName(tree, u, e, p, n)
    BY <2>4, <2>6, <2>7 DEF OneNewName
  <2>9. e \in DOMAIN v /\ e \in DOMAIN u /\ DOMAIN u \subseteq DOMAIN tree
    <3>1. op.kind = "move"
      BY <1>2 DEF IsMove, MoveEntry
    <3>2. op.id \in DOMAIN v
      BY <2>2, <3>1 DEF Allowed
    <3> QED
      BY <1>2, <1>7, <2>1, <2>2, <2>3, <3>2
  <2>10. u[e] = MovedTo(tree, e, p, named)
    BY <1>2, <1>7, <2>1, <2>2, <2>3, <2>9 DEF MovedTo
  <2>11. Outermost(tree, asked.what) = {e} /\ asked.to = p /\ asked.named = named
    BY OutermostEntries DEF Sent
  <2> HIDE DEF asked
  <2>12. Moved(tree, u, asked)
    BY <2>5, <2>9, <2>10, <2>11 DEF Moved
  <2> QED
    BY <2>8, <2>12, OneNewNameAddsNoConflict
<1>9. PlannedWell(tree, c, "move", asked, ops)
  <2> HIDE DEF asked
  <2> QED
    BY <1>6, <1>8, ClientsAssumption DEF PlannedWell, u
<1> QED
  BY <1>9 DEF ops, first, op

\* A client copies an entry to a destination, which is cleared first.
LEMMA WormholeCopyIsPlannedWell ==
    ASSUME IsTree(tree), DOMAIN tree \subseteq used, NEW c \in Clients,
           NEW e \in DOMAIN tree, NEW p \in DOMAIN tree, NEW n \in Names \cup {None},
           RoomFor(used, Cardinality(DownFrom(tree, {e}))), NEW named, named[e] = n
    PROVE  PlannedWell(tree, c, "copy", Sent({e}, p, named),
                       Replacing(p, n) \o CopyOperations(tree, used, e, p, n))
<1> DEFINE first == Replacing(p, n)
           more == CopyOperations(tree, used, e, p, n)
           ops == first \o more
           v == ApplySegment(tree, first)
           u == ApplySegment(tree, ops)
           made == CreatedIds(more)
<1>1. p \in EntryIds
  BY TreeFacts
<1>2. IsSegment(first) /\ CreatedIds(first) = {}
  BY DestinationIsCleared
<1>3. v # Refused =>
        /\ IsTree(v) /\ DOMAIN v \subseteq DOMAIN tree
        /\ \A y \in DOMAIN v : v[y] = tree[y]
        /\ \A y \in DOMAIN v : tree[y].parent = p /\ Fold(tree[y].name) = Fold(n)
              => \E x \in CaseConflicts(tree) : tree[x[1]].parent = p
  BY DestinationIsCleared
<1>4. IsSegment(more)
  <2>1. PICK order, new : IsCopyPlan(tree, e, p, n, more, order, new)
    BY CopyIsPlanned
  <2> HIDE DEF more
  <2>2. IsSegment(more) /\ CreatedIds(more) = {new[x] : x \in DownFrom(tree, {e})}
    BY <1>1, <2>1, CopyPlanIsSegment
  <2> QED
    BY <2>2
<1> HIDE DEF first
<1>5. u = ApplySegment(v, more) /\ IsSegment(ops)
  <2> HIDE DEF more
  <2> QED
    BY <1>2, <1>4, SegmentsAreAppliedInTurn, SegmentsJoin
<1> DEFINE asked == Sent({e}, p, named)
<1>6. ASSUME u # Refused PROVE AddsNoConflict(tree, u) /\ Copied(tree, u, asked)
  <2>1. v # Refused
    BY <1>4, <1>5, <1>6, RefusedStays
  <2> HIDE DEF v, u, ops
  <2>2. IsTree(v) /\ DOMAIN v \subseteq used
    BY <1>3, <2>1
  <2>3. /\ p \in DOMAIN v /\ v[p].content = None
        /\ \A d \in DOMAIN v : v[d].parent = p => v[d].name # n
    <3>1. more = CopyOperations(tree, used, e, p, n) /\ ApplySegment(v, more) # Refused
      BY <1>5, <1>6
    <3> HIDE DEF more
    <3> QED
      BY <1>1, <2>2, <3>1, AppliedCopyHadRoom
  <2>4. /\ made \cap used = {} /\ HasArrived(tree, e, v, p, n, u, made)
    <3>1. more = CopyOperations(tree, used, e, p, n)
      BY DEF more
    <3> HIDE DEF more
    <3>2. /\ IsSegment(more) /\ CreatedIds(more) \cap used = {} /\ CreatedIds(more) \subseteq EntryIds
          /\ HasArrived(tree, e, v, p, n, ApplySegment(v, more), CreatedIds(more))
      BY <2>2, <2>3, <3>1, CopyArrives
    <3> QED
      BY <1>5, <3>2
  <2> HIDE DEF made, more
  <2>5. Copied(tree, u, asked)
    <3> DEFINE pairs == {<<x, named[x]>> : x \in {e}}
    <3>1. SelectionArrived(tree, {}, v, p, v, {}, pairs)
      BY <2>2, NothingHasArrived
    <3>2. <<e, n>> \in pairs /\ e \notin {}
      OBVIOUS
    <3>3. {} \cup {e} = {e} /\ {} \cup made = made
      OBVIOUS
    <3> HIDE DEF pairs
    <3>4. SelectionArrived(tree, {} \cup {e}, v, p, u, {} \cup made, pairs)
      BY <2>2, <2>3, <2>4, <3>1, <3>2, OneMoreArrives
    <3>5. SelectionArrived(tree, {e}, v, p, u, made, pairs)
      BY <3>3, <3>4
    <3>6. made \cap DOMAIN tree = {} /\ DOMAIN v \subseteq DOMAIN tree
          /\ \A y \in DOMAIN v : v[y] = tree[y]
      BY <1>3, <2>1, <2>4
    <3>7. ArrivedWhole(tree, {e}, tree, u, p, pairs)
      BY <3>5, <3>6, ArrivedIsWhole
    <3>8. Outermost(tree, {e}) = {e}
      BY OutermostEntries
    <3>9. asked.what = {e} /\ asked.to = p /\ asked.named = named
      BY DEF Sent
    <3> HIDE DEF asked
    <3> QED
      BY <3>7, <3>8, <3>9 DEF Copied, pairs
  <2>6. AddsNoConflict(tree, u)
    <3>1. /\ DOMAIN u = DOMAIN v \cup made
          /\ \A y \in DOMAIN v : u[y] = v[y]
      BY <2>4 DEF HasArrived
    <3>2. PICK top \in made : /\ u[top].parent = p /\ u[top].name = n
                              /\ \A y \in made \ {top} : u[y].parent \in made
      BY <2>4 DEF HasArrived
    <3>3. \A y \in DOMAIN v : u[y] = tree[y] /\ y \in DOMAIN tree
      BY <1>3, <2>1, <3>1
    <3>4. \A y \in DOMAIN u \ {top} : y \in DOMAIN v \/ u[y].parent \notin DOMAIN tree
      BY <2>4, <3>1, <3>2
    <3>5. \A y \in DOMAIN u \ {top} :
              \/ u[y].parent \notin DOMAIN tree
              \/ y \in DOMAIN tree /\ u[y].parent = tree[y].parent /\ u[y].name = tree[y].name
      BY <3>3, <3>4
    <3>6. \A y \in DOMAIN u \ {top} :
              u[y].parent = p /\ Fold(u[y].name) = Fold(n)
                => \E x \in CaseConflicts(tree) : tree[x[1]].parent = p
      BY <1>3, <2>1, <3>3, <3>4
    <3>7. OneNewName(tree, u, top, p, n)
      BY <3>2, <3>5, <3>6 DEF OneNewName
    <3> QED
      BY <3>7, OneNewNameAddsNoConflict
  <2> QED
    BY <2>5, <2>6
<1> HIDE DEF u, more, asked
<1>7. PlannedWell(tree, c, "copy", asked, ops)
  BY <1>5, <1>6, ClientsAssumption DEF PlannedWell, u
<1> QED
  BY <1>7 DEF more, first, asked

\* The file manager copies several entries into a directory.
LEMMA CopiesArePlannedWell ==
    ASSUME NEW t, IsTree(t), NEW ids, DOMAIN t \subseteq ids, NEW S, NEW E \in SUBSET DOMAIN t,
           E = Outermost(t, S),
           NEW all \in SUBSET EntryIds, \A e \in E : DownFrom(t, {e}) \subseteq all,
           RoomFor(ids, Cardinality(all)),
           NEW p \in DOMAIN t, t[p].content = None, SpreadOut(t, E, p),
           NEW named, \A e \in E : named[e] = t[e].name,
           NEW ops, ops = CopyAll(t, ids, E, p)
    PROVE  PlannedWell(t, Manager, "copy", Sent(S, p, named), ops)
<1> DEFINE pairs == {<<e, named[e]>> : e \in S}
           u == ApplySegment(t, ops)
           made == CreatedIds(ops)
           asked == Sent(S, p, named)
<1>1. \A e \in E : e \in S /\ <<e, t[e].name>> \in pairs
  BY DEF Outermost
<1>2. pairs = {<<e, asked.named[e]>> : e \in asked.what} /\ asked.what = S /\ asked.to = p
  BY DEF Sent
<1> HIDE DEF pairs, asked
<1>3. /\ IsSegment(ops) /\ made \cap ids = {}
      /\ SelectionArrived(t, E, t, p, u, made, pairs)
  BY <1>1, CopyAllCopies
<1> HIDE DEF made, u
<1>4. made \cap DOMAIN t = {} /\ DOMAIN u = DOMAIN t \cup made
  BY <1>3 DEF SelectionArrived
<1>5. ArrivedWhole(t, E, t, u, p, pairs)
  BY <1>3, <1>4, ArrivedIsWhole
<1>6. Copied(t, u, asked)
  BY <1>2, <1>5 DEF Copied
<1>7. PlannedWell(t, Manager, "copy", asked, ops)
  BY <1>3, <1>4, <1>6, ClientsAssumption DEF PlannedWell, u
<1> QED
  BY <1>7 DEF asked

-----------------------------------------------------------------------------
(* Requests are planned well.                                              *)

\* A request is planned on the current tree: held to its revision, or it only
\* gives a file a new content.
GoodPlan(r) ==
    \E by, method, asked, ops, held :
       /\ Planned(r, by, method, asked, ops, held)
       /\ PlannedWell(tree, by, method, asked, ops)
       /\ \/ held = TRUE
          \/ /\ held = FALSE /\ method \notin {"copy", "move"}
             /\ \E e \in DOMAIN tree, c \in Contents :
                   /\ tree[e].content # None
                   /\ ops = <<SetContent(e, tree[e].content, c)>>

\* Such requests copy or move a selection, do neither, or only give a file a
\* new content.
LEMMA PlanIsGood ==
    ASSUME NEW r, NEW by, NEW method, NEW ops,
           Plan(r, by, method, ops, TRUE), PlannedWell(tree, by, method, None, ops)
    PROVE  GoodPlan(r)
<1>1. Planned(r, by, method, None, ops, TRUE)
  BY DEF Plan
<1> QED
  BY <1>1 DEF GoodPlan

LEMMA SelectionIsGood ==
    ASSUME NEW r, NEW by, NEW method, NEW ops, NEW E, NEW p, NEW named,
           PlanSelection(r, by, method, E, p, named, ops),
           PlannedWell(tree, by, method, Sent(E, p, named), ops)
    PROVE  GoodPlan(r)
<1>1. Planned(r, by, method, Sent(E, p, named), ops, TRUE)
  BY DEF PlanSelection, Sent
<1> QED
  BY <1>1 DEF GoodPlan

LEMMA WriteIsGood ==
    ASSUME NEW r, NEW by, NEW method, NEW ops, NEW e \in DOMAIN tree, NEW c \in Contents,
           Plan(r, by, method, ops, FALSE), PlannedWell(tree, by, method, None, ops),
           method \notin {"copy", "move"},
           tree[e].content # None, ops = <<SetContent(e, tree[e].content, c)>>
    PROVE  GoodPlan(r)
<1>1. \E d \in DOMAIN tree, x \in Contents :
         tree[d].content # None /\ ops = <<SetContent(d, tree[d].content, x)>>
  OBVIOUS
<1> DEFINE asked == None
           held == FALSE
<1>2. Planned(r, by, method, asked, ops, held) /\ PlannedWell(tree, by, method, asked, ops)
  BY DEF Plan
<1>3. held = FALSE
  OBVIOUS
<1> HIDE DEF asked, held
<1> QED
  BY <1>1, <1>2, <1>3 DEF GoodPlan

\* An id that is not in use.
LEMMA OneFreshId ==
    ASSUME RoomFor(used, 1)
    PROVE  FreshId(used, 1) \in EntryIds
<1>1. 1 \in Nat /\ 1 \in 1..1
  OBVIOUS
<1> QED
  BY <1>1, FreshIdsAreFree

\* What a requester sees: directories, and entries that are not the root.
LEMMA PlacesAreInTheTree ==
    ASSUME IsTree(tree)
    PROVE  /\ \A p \in Dirs : p \in DOMAIN tree /\ p \in EntryIds /\ tree[p].content = None
           /\ \A e \in Inner : e \in DOMAIN tree /\ e \in EntryIds /\ e # Root
                               /\ tree[e].content \in Contents \cup {None}
                               /\ tree[e].name \in Names \cup {None}
BY TreeFacts DEF Dirs, Inner, IsDirectory

\* createDirectory, createFile and copyFile of the file manager.
LEMMA ManagerCreatePlans ==
    ASSUME IsTree(tree), NEW r, ManagerCreate(r)
    PROVE  GoodPlan(r)
<1>1. PICK p \in Dirs, n \in Names, c \in {None, EmptyFile} \cup {tree[e].content : e \in Inner} :
         /\ RoomFor(used, 1)
         /\ Plan(r, Manager, "create", <<CreateEntry(FreshId(used, 1), p, n, c)>>, TRUE)
  BY DEF ManagerCreate
<1>2. p \in EntryIds /\ c \in Contents \cup {None} /\ n \in Names \cup {None}
  BY PlacesAreInTheTree, ClientsAssumption
<1>3. FreshId(used, 1) \in EntryIds
  BY <1>1, OneFreshId
<1>4. Manager \notin Clients
  BY ClientsAssumption
<1>5. PlannedWell(tree, Manager, "create", None, <<CreateEntry(FreshId(used, 1), p, n, c)>>)
  BY <1>2, <1>3, <1>4, CreationIsPlannedWell
<1> QED
  BY <1>1, <1>5, PlanIsGood

\* Renaming and moving one entry.
LEMMA ManagerMovePlans ==
    ASSUME IsTree(tree), NEW r, ManagerMove(r)
    PROVE  GoodPlan(r)
<1>1. PICK e \in Inner, p \in Dirs, n \in Names :
         PlanSelection(r, Manager, "move", {e}, p, [x \in {e} |-> n], <<MoveEntry(e, p, n)>>)
  BY DEF ManagerMove
<1>2. e \in DOMAIN tree /\ p \in EntryIds
  BY PlacesAreInTheTree
<1> DEFINE M == {e}
           named == [x \in {e} |-> n]
           list == [i \in 1..1 |-> e]
           ops == <<MoveEntry(e, p, n)>>
<1>3. /\ M \in SUBSET DOMAIN tree /\ M = Outermost(tree, {e})
      /\ 1 \in Nat /\ NamesFor(named, M)
  BY <1>2, OutermostEntries DEF NamesFor
<1>4. Lists(list, 1, M)
  <2>1. 1 \in 1..1 /\ list[1] = e /\ \A i \in 1..1 : list[i] \in M
    OBVIOUS
  <2> QED
    BY <2>1 DEF Lists
<1>5. ops = MoveAll(list, 1, p, named)
  <2>1. named[e] = n /\ \A i \in 1..1 : list[i] = e
    OBVIOUS
  <2> HIDE DEF named, list
  <2>2. [i \in 1..1 |-> MoveEntry(list[i], p, named[list[i]])] = [i \in 1..1 |-> MoveEntry(e, p, n)]
    BY <2>1
  <2> QED
    BY <2>2 DEF MoveAll
<1> HIDE DEF M, named, list, ops
<1>6. PlannedWell(tree, Manager, "move", Sent({e}, p, named), ops)
  BY <1>2, <1>3, <1>4, <1>5, MovesArePlannedWell
<1>7. PlanSelection(r, Manager, "move", {e}, p, named, ops)
  BY <1>1 DEF named, ops
<1> QED
  BY <1>6, <1>7, SelectionIsGood

\* Removing one entry.
LEMMA ManagerRemovePlans ==
    ASSUME IsTree(tree), NEW r, ManagerRemove(r)
    PROVE  GoodPlan(r)
<1>1. PICK e \in Inner, recursive \in BOOLEAN :
         Plan(r, Manager, "remove", <<RemoveEntry(e, recursive)>>, TRUE)
  BY DEF ManagerRemove
<1>2. e \in EntryIds
  BY PlacesAreInTheTree
<1>3. PlannedWell(tree, Manager, "remove", None, <<RemoveEntry(e, recursive)>>)
  BY <1>2, RemovalIsPlannedWell
<1> QED
  BY <1>1, <1>3, PlanIsGood

\* A selection in its order.
LEMMA SelectionIsListed ==
    ASSUME IsTree(tree), NEW E \in SUBSET Inner, NEW top, top = TopLevel(tree, E)
    PROVE  /\ top \in SUBSET DOMAIN tree /\ top \subseteq E /\ Cardinality(top) \in Nat
           /\ \A i \in 1..Cardinality(top) : Listed(top)[i] \in top
           /\ \A e \in top : \E i \in 1..Cardinality(top) : Listed(top)[i] = e
           /\ \A d, e \in top : d # e => /\ d \notin DownFrom(tree, {e})
                                         /\ DownFrom(tree, {d}) \cap DownFrom(tree, {e}) = {}
<1>1. E \in SUBSET DOMAIN tree /\ E \in SUBSET EntryIds
  BY PlacesAreInTheTree
<1>2. /\ top \subseteq E
      /\ \A d, e \in top : d # e => /\ d \notin DownFrom(tree, {e})
                                    /\ DownFrom(tree, {d}) \cap DownFrom(tree, {e}) = {}
  BY <1>1, TopLevelFacts
<1>3. top \in SUBSET EntryIds
  BY <1>1, <1>2
<1>4. IsFiniteSet(top) /\ IsOrder(top, ById(top))
  BY <1>3, ListedById
<1>5. /\ Cardinality(top) \in Nat
      /\ \A i \in 1..Cardinality(top) : InOrder(top, ById(top))[i] \in top
      /\ \A e \in top : \E i \in 1..Cardinality(top) : InOrder(top, ById(top))[i] = e
  BY <1>4, InOrderLists
<1> QED
  BY <1>1, <1>2, <1>5 DEF Listed

\* moveEntries.
LEMMA ManagerMoveEntriesPlans ==
    ASSUME IsTree(tree), NEW r, ManagerMoveEntries(r)
    PROVE  GoodPlan(r)
<1>1. PICK E \in (SUBSET Inner) \ {{}}, p \in Dirs :
         LET top == TopLevel(tree, E)
         IN  PlanSelection(r, Manager, "move", E, p, OwnNames(E),
                [i \in 1..Cardinality(top) |-> MoveEntry(Listed(top)[i], p, tree[Listed(top)[i]].name)])
  BY DEF ManagerMoveEntries
<1> DEFINE top == TopLevel(tree, E)
           k == Cardinality(top)
           list == Listed(top)
           named == OwnNames(E)
           ops == [i \in 1..k |-> MoveEntry(list[i], p, tree[list[i]].name)]
<1>2. /\ top \in SUBSET DOMAIN tree /\ top \subseteq E /\ k \in Nat
      /\ \A i \in 1..k : list[i] \in top
      /\ \A e \in top : \E i \in 1..k : list[i] = e
  <2>1. E \in SUBSET Inner /\ top = TopLevel(tree, E)
    OBVIOUS
  <2> HIDE DEF top
  <2>2. /\ top \in SUBSET DOMAIN tree /\ top \subseteq E /\ Cardinality(top) \in Nat
        /\ \A i \in 1..Cardinality(top) : Listed(top)[i] \in top
        /\ \A e \in top : \E i \in 1..Cardinality(top) : Listed(top)[i] = e
    BY <2>1, SelectionIsListed
  <2> QED
    BY <2>2
<1>3. top = Outermost(tree, E)
  BY OutermostEntries
<1> HIDE DEF top, k, list
<1>4. \A e \in E : named[e] = tree[e].name
  BY DEF OwnNames
<1> HIDE DEF named
<1>5. p \in EntryIds /\ NamesFor(named, top)
  BY <1>2, <1>4, TreeFacts, PlacesAreInTheTree DEF NamesFor
<1>6. ops = MoveAll(list, k, p, named)
  <2>1. \A i \in 1..k : tree[list[i]].name = named[list[i]]
    BY <1>2, <1>4
  <2> QED
    BY <2>1 DEF MoveAll
<1> HIDE DEF ops
<1>7. PlannedWell(tree, Manager, "move", Sent(E, p, named), ops)
  <2>1. Lists(list, k, top)
    BY <1>2 DEF Lists
  <2> QED
    BY <2>1, <1>2, <1>3, <1>5, <1>6, MovesArePlannedWell
<1>8. PlanSelection(r, Manager, "move", E, p, named, ops)
  BY <1>1 DEF ops, list, k, top, named
<1> QED
  BY <1>7, <1>8, SelectionIsGood

\* copyEntries: the names of the selection are different, and not in the
\* destination.
LEMMA ManagerCopyEntriesPlans ==
    ASSUME IsTree(tree), DOMAIN tree \subseteq used, NEW r, ManagerCopyEntries(r)
    PROVE  GoodPlan(r)
<1>1. PICK E \in (SUBSET Inner) \ {{}}, p \in Dirs :
         LET top == TopLevel(tree, E)
         IN  /\ DistinctNames(top)
             /\ \A e \in top : ~NameTaken(tree, p, tree[e].name, None)
             /\ RoomFor(used, Cardinality(DownFrom(tree, top)))
             /\ PlanSelection(r, Manager, "copy", E, p, OwnNames(E), CopyAll(tree, used, top, p))
  BY DEF ManagerCopyEntries
<1> DEFINE top == TopLevel(tree, E)
           all == DownFrom(tree, top)
           ops == CopyAll(tree, used, top, p)
           named == OwnNames(E)
<1>2. /\ top \in SUBSET DOMAIN tree /\ top \subseteq E
      /\ \A d, e \in top : d # e => DownFrom(tree, {d}) \cap DownFrom(tree, {e}) = {}
  BY SelectionIsListed
<1>3. top = Outermost(tree, E)
  BY OutermostEntries
<1> HIDE DEF top
<1>4. /\ \A d, e \in top : tree[d].name = tree[e].name => d = e
      /\ RoomFor(used, Cardinality(all))
      /\ PlanSelection(r, Manager, "copy", E, p, named, ops)
      /\ \A e \in top : ~NameTaken(tree, p, tree[e].name, None)
  BY <1>1 DEF DistinctNames, top
<1>5. p \in DOMAIN tree /\ tree[p].content = None
  BY PlacesAreInTheTree
<1>6. \A d \in DOMAIN tree : d # None
  BY TreeFacts, EntryIdsAreFinite
<1>7. \A e \in top : \A d \in Children(tree, p) : tree[d].name # tree[e].name
  BY <1>4, <1>6 DEF NameTaken, Children
<1>8. all \in SUBSET EntryIds /\ \A e \in top : DownFrom(tree, {e}) \subseteq all
  BY <1>2, TopLevelFacts
<1>9. \A e \in top : named[e] = tree[e].name
  BY <1>2 DEF OwnNames
<1> HIDE DEF all, ops, named
<1>10. ops = CopyAll(tree, used, top, p)
  BY DEF ops
<1>11. PlannedWell(tree, Manager, "copy", Sent(E, p, named), ops)
  <2>1. SpreadOut(tree, top, p)
    BY <1>2, <1>4, <1>7 DEF SpreadOut
  <2> QED
    BY <2>1, <1>2, <1>3, <1>4, <1>5, <1>8, <1>10, <1>9, CopiesArePlannedWell
<1> QED
  BY <1>4, <1>11, SelectionIsGood

\* removeEntries.
LEMMA ManagerRemoveEntriesPlans ==
    ASSUME IsTree(tree), NEW r, ManagerRemoveEntries(r)
    PROVE  GoodPlan(r)
<1>1. PICK E \in (SUBSET Inner) \ {{}} :
         LET top == TopLevel(tree, E)
         IN  Plan(r, Manager, "remove",
                  [i \in 1..Cardinality(top) |->
                     RemoveEntry(Listed(top)[i], IsDirectory(tree, Listed(top)[i]))], TRUE)
  BY DEF ManagerRemoveEntries
<1> DEFINE top == TopLevel(tree, E)
           k == Cardinality(top)
           list == Listed(top)
           deep == [i \in 1..k |-> IsDirectory(tree, list[i])]
           ops == [i \in 1..k |-> RemoveEntry(list[i], IsDirectory(tree, list[i]))]
<1>2. k \in Nat /\ \A i \in 1..k : list[i] \in EntryIds
  <2>1. E \in SUBSET Inner /\ top = TopLevel(tree, E)
    OBVIOUS
  <2> HIDE DEF top
  <2>2. /\ top \in SUBSET DOMAIN tree /\ top \subseteq E /\ Cardinality(top) \in Nat
        /\ \A i \in 1..Cardinality(top) : Listed(top)[i] \in top
        /\ \A d, e \in top : d # e => /\ d \notin DownFrom(tree, {e})
                                      /\ DownFrom(tree, {d}) \cap DownFrom(tree, {e}) = {}
    BY <2>1, SelectionIsListed
  <2> QED
    BY <2>2, TreeFacts
<1> HIDE DEF top, k, list
<1>3. ops = [i \in 1..k |-> RemoveEntry(list[i], deep[i])]
  OBVIOUS
<1> HIDE DEF deep, ops
<1>4. PlannedWell(tree, Manager, "remove", None, [i \in 1..k |-> RemoveEntry(list[i], deep[i])])
  BY <1>2, RemovalsArePlannedWell
<1>5. PlannedWell(tree, Manager, "remove", None, ops)
  BY <1>3, <1>4
<1>6. Plan(r, Manager, "remove", ops, TRUE)
  BY <1>1 DEF ops, list, k, top
<1> QED
  BY <1>5, <1>6, PlanIsGood

\* The file manager's requests.
LEMMA ManagerPlans ==
    ASSUME IsTree(tree), DOMAIN tree \subseteq used, NEW r, ManagerRequest(r)
    PROVE  GoodPlan(r)
BY ManagerCreatePlans, ManagerMovePlans, ManagerRemovePlans, ManagerMoveEntriesPlans,
   ManagerCopyEntriesPlans, ManagerRemoveEntriesPlans DEF ManagerRequest

\* An upload: a new file where nothing was found, or a new content.
LEMMA WormholePutPlans ==
    ASSUME IsTree(tree), NEW r, NEW c \in Clients, WormholePut(r, c)
    PROVE  GoodPlan(r)
<1>1. PICK p \in Dirs, n \in Names, body \in Contents :
         \/ /\ Found(tree, p, n) = None
            /\ RoomFor(used, 1)
            /\ Plan(r, c, "put", <<CreateEntry(FreshId(used, 1), p, n, body)>>, TRUE)
         \/ /\ Found(tree, p, n) # None /\ IsFile(tree, Found(tree, p, n))
            /\ Plan(r, c, "put",
                    <<SetContent(Found(tree, p, n), tree[Found(tree, p, n)].content, body)>>, FALSE)
  BY DEF WormholePut
<1>2. CASE /\ Found(tree, p, n) = None
           /\ RoomFor(used, 1)
           /\ Plan(r, c, "put", <<CreateEntry(FreshId(used, 1), p, n, body)>>, TRUE)
  <2>1. FreshId(used, 1) \in EntryIds
    BY <1>2, OneFreshId
  <2>2. p \in EntryIds
    BY PlacesAreInTheTree
  <2>3. PlannedWell(tree, c, "put", None, <<CreateEntry(FreshId(used, 1), p, n, body)>>)
    BY <1>2, <2>1, <2>2, CreationIsPlannedWell
  <2> QED
    BY <1>2, <2>3, PlanIsGood
<1>3. CASE /\ Found(tree, p, n) # None /\ IsFile(tree, Found(tree, p, n))
           /\ Plan(r, c, "put",
                   <<SetContent(Found(tree, p, n), tree[Found(tree, p, n)].content, body)>>, FALSE)
  <2> DEFINE e == Found(tree, p, n)
             old == tree[e].content
  <2>1. e \in DOMAIN tree /\ e \in EntryIds /\ old # None
    BY <1>3, TreeFacts DEF IsFile
  <2>2. Plan(r, c, "put", <<SetContent(e, old, body)>>, FALSE)
    BY <1>3
  <2> HIDE DEF e
  <2>3. PlannedWell(tree, c, "put", None, <<SetContent(e, old, body)>>)
    BY <2>1, ContentIsPlannedWell
  <2>4. "put" \notin {"copy", "move"}
    OBVIOUS
  <2> QED
    BY <2>1, <2>2, <2>3, <2>4, WriteIsGood
<1> QED
  BY <1>1, <1>2, <1>3

\* MKCOL.
LEMMA WormholeCreateDirectoryPlans ==
    ASSUME IsTree(tree), NEW r, NEW c \in Clients, WormholeCreateDirectory(r, c)
    PROVE  GoodPlan(r)
<1>1. PICK p \in Dirs, n \in Names :
         /\ Found(tree, p, n) = None
         /\ RoomFor(used, 1)
         /\ Plan(r, c, "mkcol", <<CreateEntry(FreshId(used, 1), p, n, None)>>, TRUE)
  BY DEF WormholeCreateDirectory, CreateDirectory
<1>2. FreshId(used, 1) \in EntryIds
  BY <1>1, OneFreshId
<1>3. p \in EntryIds
  BY PlacesAreInTheTree
<1>4. PlannedWell(tree, c, "mkcol", None, <<CreateEntry(FreshId(used, 1), p, n, None)>>)
  BY <1>1, <1>2, <1>3, CreationIsPlannedWell
<1> QED
  BY <1>1, <1>4, PlanIsGood

\* PROPPATCH.
LEMMA WormholeSetMtimePlans ==
    ASSUME IsTree(tree), NEW r, NEW c \in Clients, WormholeSetMtime(r, c)
    PROVE  GoodPlan(r)
<1>1. PICK e \in Inner :
         /\ IsFile(tree, e)
         /\ Plan(r, c, "proppatch", <<SetContent(e, tree[e].content, tree[e].content)>>, FALSE)
  BY DEF WormholeSetMtime
<1>2. e \in DOMAIN tree /\ e \in EntryIds /\ tree[e].content # None /\ tree[e].content \in Contents
  BY <1>1, PlacesAreInTheTree DEF IsFile
<1>3. PlannedWell(tree, c, "proppatch", None, <<SetContent(e, tree[e].content, tree[e].content)>>)
  BY <1>2, ContentIsPlannedWell
<1>4. "proppatch" \notin {"copy", "move"}
  OBVIOUS
<1> QED
  BY <1>1, <1>2, <1>3, <1>4, WriteIsGood

\* DELETE, MOVE and COPY.
LEMMA WormholeRemovePlans ==
    ASSUME IsTree(tree), NEW r, NEW c \in Clients, WormholeRemove(r, c)
    PROVE  GoodPlan(r)
<1>1. PICK e \in Inner : Plan(r, c, "remove", <<RemoveEntry(e, TRUE)>>, TRUE)
  BY DEF WormholeRemove
<1>2. e \in EntryIds
  BY PlacesAreInTheTree
<1>3. PlannedWell(tree, c, "remove", None, <<RemoveEntry(e, TRUE)>>)
  BY <1>2, RemovalIsPlannedWell
<1> QED
  BY <1>1, <1>3, PlanIsGood

\* A move to a destination that is cleared first.
LEMMA WormholeMovePlans ==
    ASSUME IsTree(tree), NEW r, NEW c \in Clients, WormholeMove(r, c)
    PROVE  GoodPlan(r)
<1>1. PICK e \in Inner, p \in Dirs, n \in Names :
         PlanSelection(r, c, "move", {e}, p, [x \in {e} |-> n],
                       Replacing(p, n) \o <<MoveEntry(e, p, n)>>)
  BY DEF WormholeMove
<1>2. e \in DOMAIN tree /\ p \in DOMAIN tree
  BY PlacesAreInTheTree
<1> DEFINE named == [x \in {e} |-> n]
<1>3. PlannedWell(tree, c, "move", Sent({e}, p, named), Replacing(p, n) \o <<MoveEntry(e, p, n)>>)
  BY <1>2, WormholeMoveIsPlannedWell
<1> QED
  BY <1>1, <1>3, SelectionIsGood

\* A copy to a destination that is cleared first.
LEMMA WormholeCopyPlans ==
    ASSUME IsTree(tree), DOMAIN tree \subseteq used, NEW r, NEW c \in Clients, WormholeCopy(r, c)
    PROVE  GoodPlan(r)
<1>1. PICK e \in Inner, p \in Dirs, n \in Names :
         /\ RoomFor(used, Cardinality(DownFrom(tree, {e})))
         /\ PlanSelection(r, c, "copy", {e}, p, [x \in {e} |-> n],
                          Replacing(p, n) \o CopyOperations(tree, used, e, p, n))
  BY DEF WormholeCopy
<1>2. e \in DOMAIN tree /\ p \in DOMAIN tree
  BY PlacesAreInTheTree
<1> DEFINE named == [x \in {e} |-> n]
<1>3. PlannedWell(tree, c, "copy", Sent({e}, p, named),
                  Replacing(p, n) \o CopyOperations(tree, used, e, p, n))
  BY <1>1, <1>2, WormholeCopyIsPlannedWell
<1> QED
  BY <1>1, <1>3, SelectionIsGood

\* The requests of a WebDAV client.
LEMMA WormholePlans ==
    ASSUME IsTree(tree), DOMAIN tree \subseteq used, NEW r, NEW c \in Clients, WormholeRequest(r, c)
    PROVE  GoodPlan(r)
BY WormholePutPlans, WormholeCreateDirectoryPlans, WormholeSetMtimePlans, WormholeRemovePlans,
   WormholeMovePlans, WormholeCopyPlans DEF WormholeRequest

-----------------------------------------------------------------------------
(* The inductive invariant.                                                *)

\* What is said of one request that is on its way.
RowIsGood(row) ==
    /\ PlannedOnItsIndex(row)
    /\ IsTree(row.seen)
    /\ PlannedWell(row.seen, row.by, row.method, row.asked, row.ops)
    /\ row.method \in {"copy", "move"} => row.expects # None

\* What is said of the rest of the state.
PlacesAreGood ==
    /\ IsTree(tree)
    /\ DOMAIN tree \subseteq used /\ used \subseteq EntryIds
    /\ revision \in 0..MaxRevision
    /\ enabled \in BOOLEAN
    /\ \A p \in DOMAIN locks : locks[p] \in Tokens
    /\ holds \in [Clients -> SUBSET Tokens]

\* The inductive invariant, one request at a time.
LEMMA ClientsInductiveByRow ==
    ClientsInductive <=>
      /\ PlacesAreGood /\ DOMAIN request = RequestIds
      /\ \A r \in RequestIds : Waiting(r) => RowIsGood(request[r])
<1>1. ClientsInductive =>
        /\ PlacesAreGood /\ DOMAIN request = RequestIds
        /\ \A r \in RequestIds : Waiting(r) => RowIsGood(request[r])
  BY DEF ClientsInductive, TreeClientsTypeOK, RequestsInductive, PlansArrive, RowIsGood, PlacesAreGood
<1>2. ASSUME PlacesAreGood, DOMAIN request = RequestIds,
             \A r \in RequestIds : Waiting(r) => RowIsGood(request[r])
      PROVE  ClientsInductive
  <2>1. RequestsInductive /\ PlansArrive
    BY <1>2 DEF RequestsInductive, PlansArrive, RowIsGood
  <2>2. \A r \in RequestIds : Waiting(r) =>
          /\ request[r].expects \in 0..revision \cup {None}
          /\ request[r].loaded \in 0..revision \cup {None}
    BY <1>2 DEF RowIsGood, PlannedOnItsIndex
  <2>3. TreeClientsTypeOK
    BY <1>2, <2>2 DEF TreeClientsTypeOK, PlacesAreGood
  <2> QED
    BY <2>1, <2>3 DEF ClientsInductive
<1> QED
  BY <1>1, <1>2

\* The same of the next state.
LEMMA NextClientsInductiveByRow ==
    ASSUME PlacesAreGood', (DOMAIN request = RequestIds)',
           \A r \in RequestIds : Waiting(r)' => RowIsGood(request[r])'
    PROVE  ClientsInductive'
<1>1. RequestsInductive' /\ PlansArrive'
  BY DEF RequestsInductive, PlansArrive, RowIsGood
<1>2. \A r \in RequestIds : Waiting(r)' =>
        /\ request'[r].expects \in 0..revision' \cup {None}
        /\ request'[r].loaded \in 0..revision' \cup {None}
  BY DEF RowIsGood, PlannedOnItsIndex
<1>3. TreeClientsTypeOK'
  BY <1>2 DEF TreeClientsTypeOK, PlacesAreGood
<1> QED
  BY <1>1, <1>3 DEF ClientsInductive

\* None is no revision.
LEMMA NoneIsNoRevision ==
    ASSUME revision \in 0..MaxRevision
    PROVE  None # revision /\ \A k \in 0..revision : None # k /\ k \in 0..MaxRevision
BY ClientsAssumption

\* At the start nothing is asked.
LEMMA ClientsInitHolds == TreeClientsInit => ClientsInductive
<1> SUFFICES ASSUME TreeClientsInit PROVE ClientsInductive
  OBVIOUS
<1>1. IsTree(tree)
  BY ClientsAssumption DEF TreeClientsInit
<1>2. DOMAIN tree \subseteq EntryIds
  BY <1>1 DEF IsTree
<1>3. revision \in 0..MaxRevision
  BY ClientsAssumption DEF TreeClientsInit
<1>4. \A p \in DOMAIN locks : locks[p] \in Tokens
  <2>1. DOMAIN << >> = {}
    OBVIOUS
  <2> QED
    BY <2>1 DEF TreeClientsInit
<1>5. PlacesAreGood
  BY <1>1, <1>2, <1>3, <1>4 DEF TreeClientsInit, PlacesAreGood
<1>6. DOMAIN request = RequestIds /\ \A r \in RequestIds : ~Waiting(r)
  BY DEF TreeClientsInit, Waiting
<1> QED
  BY <1>5, <1>6, ClientsInductiveByRow

\* A request that is planned well is good.
LEMMA GoodPlanKeeps ==
    ASSUME ClientsInductive, NEW r \in RequestIds, GoodPlan(r)
    PROVE  ClientsInductive'
<1>1. /\ PlacesAreGood /\ DOMAIN request = RequestIds
      /\ \A x \in RequestIds : Waiting(x) => RowIsGood(request[x])
  BY ClientsInductiveByRow
<1>2. PICK by, method, asked, ops, held :
         /\ Planned(r, by, method, asked, ops, held)
         /\ PlannedWell(tree, by, method, asked, ops)
         /\ \/ held = TRUE
            \/ /\ held = FALSE /\ method \notin {"copy", "move"}
               /\ \E e \in DOMAIN tree, c \in Contents :
                     /\ tree[e].content # None
                     /\ ops = <<SetContent(e, tree[e].content, c)>>
  BY DEF GoodPlan
<1> DEFINE to == IF held THEN revision ELSE None
           row == [by |-> by, method |-> method, asked |-> asked, ops |-> ops, expects |-> to,
                   seen |-> tree, loaded |-> None, aborted |-> FALSE]
<1>3. /\ request' = [request EXCEPT ![r] = row]
      /\ UNCHANGED <<tree, revision, used, enabled, locks, holds>>
  BY <1>2 DEF Planned
<1>4. to \in {None} \cup 0..revision /\ (to = None => held = FALSE)
  BY <1>1, <1>2, NoneIsNoRevision DEF PlacesAreGood
<1> HIDE DEF to
<1>5. /\ row.by = by /\ row.method = method /\ row.asked = asked /\ row.ops = ops
      /\ row.expects = to /\ row.seen = tree
      /\ row.loaded = None
      /\ IsAsked(row)
  BY DEF IsAsked
<1> HIDE DEF row
<1>6. to = None => OnlySetsContent(row)
  BY <1>2, <1>4, <1>5 DEF OnlySetsContent
<1>7. RowIsGood(row)
  <2>1. PlannedOnItsIndex(row)
    BY <1>4, <1>5, <1>6 DEF PlannedOnItsIndex
  <2>2. row.method \in {"copy", "move"} => row.expects # None
    BY <1>2, <1>4, <1>5
  <2>3. IsTree(row.seen)
    BY <1>1, <1>5 DEF PlacesAreGood
  <2>4. PlannedWell(row.seen, row.by, row.method, row.asked, row.ops)
    BY <1>2, <1>5
  <2> QED
    BY <2>1, <2>2, <2>3, <2>4 DEF RowIsGood
<1>8. PlacesAreGood'
  BY <1>1, <1>3 DEF PlacesAreGood
<1>9. ASSUME NEW x \in RequestIds, Waiting(x)' PROVE RowIsGood(request[x])'
  <2>1. CASE x = r
    <3>1. request'[x] = row
      BY <1>1, <1>3, <2>1
    <3> QED
      BY <1>3, <1>7, <3>1 DEF RowIsGood, PlannedOnItsIndex
  <2>2. CASE x # r
    <3>1. request'[x] = request[x] /\ Waiting(x)
      BY <1>1, <1>3, <1>9, <2>2 DEF Waiting
    <3> QED
      BY <1>1, <1>3, <3>1 DEF RowIsGood, PlannedOnItsIndex
  <2> QED
    BY <2>1, <2>2
<1>10. (DOMAIN request = RequestIds)'
  BY <1>1, <1>3
<1> QED
  BY <1>8, <1>9, <1>10, NextClientsInductiveByRow

\* A step in which requests only end keeps the invariant of the requests.
LEMMA EndingKeeps ==
    ASSUME ClientsInductive, NEW r \in RequestIds, End(r),
           UNCHANGED <<tree, revision, used, enabled, locks, holds>>
    PROVE  ClientsInductive'
<1>1. /\ PlacesAreGood /\ DOMAIN request = RequestIds
      /\ \A x \in RequestIds : Waiting(x) => RowIsGood(request[x])
  BY ClientsInductiveByRow
<1>2. PlacesAreGood' /\ (DOMAIN request = RequestIds)'
  BY <1>1 DEF PlacesAreGood, End
<1>3. ASSUME NEW x \in RequestIds, Waiting(x)' PROVE RowIsGood(request[x])'
  <2>1. request'[x] = request[x] /\ Waiting(x)
    BY <1>1, <1>3 DEF End, Waiting
  <2> QED
    BY <1>1, <2>1 DEF RowIsGood, PlannedOnItsIndex
<1> QED
  BY <1>2, <1>3, NextClientsInductiveByRow

\* LoadState: what has loaded a revision is held to no other.
LEMMA LoadStateKeeps ==
    ASSUME ClientsInductive, NEW r \in RequestIds, LoadState(r)
    PROVE  ClientsInductive'
<1>1. /\ PlacesAreGood /\ DOMAIN request = RequestIds
      /\ \A x \in RequestIds : Waiting(x) => RowIsGood(request[x])
  BY ClientsInductiveByRow
<1>2. /\ Waiting(r) /\ UNCHANGED <<tree, revision, used, enabled, locks, holds>>
      /\ \/ End(r)
         \/ /\ request[r].expects \in {None, revision}
            /\ request' = [request EXCEPT ![r].loaded = revision]
  BY DEF LoadState
<1>3. CASE End(r)
  BY <1>2, <1>3, EndingKeeps
<1>4. CASE /\ request[r].expects \in {None, revision}
           /\ request' = [request EXCEPT ![r].loaded = revision]
  <2> DEFINE old == request[r]
             row == [old EXCEPT !.loaded = revision]
  <2>1. request' = [request EXCEPT ![r] = row]
    BY <1>4
  <2>2. RowIsGood(old) /\ IsAsked(old)
    BY <1>1, <1>2 DEF RowIsGood, PlannedOnItsIndex
  <2>3. /\ row.by = old.by /\ row.method = old.method /\ row.asked = old.asked /\ row.ops = old.ops
        /\ row.expects = old.expects /\ row.seen = old.seen /\ row.loaded = revision
        /\ IsAsked(row)
    <3> DEFINE b == old.by
               m == old.method
               q == old.asked
               o == old.ops
               x == old.expects
               s == old.seen
               a == old.aborted
               l == old.loaded
    <3>1. old = [by |-> b, method |-> m, asked |-> q, ops |-> o, expects |-> x, seen |-> s, loaded |-> l,
                 aborted |-> a]
      BY <2>2 DEF IsAsked
    <3> HIDE DEF b, m, q, o, x, s, a, l, old
    <3>2. row = [by |-> b, method |-> m, asked |-> q, ops |-> o, expects |-> x, seen |-> s,
                 loaded |-> revision, aborted |-> a]
      BY <3>1
    <3> HIDE DEF row
    <3>3. /\ old.by = b /\ old.method = m /\ old.asked = q /\ old.ops = o /\ old.expects = x /\ old.seen = s
      BY <3>1
    <3> QED
      BY <3>2, <3>3 DEF IsAsked
  <2>4. old.expects \in {None, revision} /\ revision \in 0..revision
    BY <1>1, <1>4 DEF PlacesAreGood
  <2> HIDE DEF row, old
  <2>5. PlannedOnItsIndex(row)
    <3>1. OnlySetsContent(old) => OnlySetsContent(row)
      BY <2>3 DEF OnlySetsContent
    <3> QED
      BY <2>2, <2>3, <2>4, <3>1 DEF PlannedOnItsIndex, RowIsGood
  <2>6. RowIsGood(row)
    BY <2>2, <2>3, <2>5 DEF RowIsGood
  <2>7. PlacesAreGood' /\ (DOMAIN request = RequestIds)'
    BY <1>1, <1>2, <2>1 DEF PlacesAreGood
  <2>8. ASSUME NEW x \in RequestIds, Waiting(x)' PROVE RowIsGood(request[x])'
    <3>1. CASE x = r
      <4>1. request'[x] = row
        BY <1>1, <2>1, <3>1
      <4> QED
        BY <1>2, <2>6, <4>1 DEF RowIsGood, PlannedOnItsIndex
    <3>2. CASE x # r
      <4>1. request'[x] = request[x] /\ Waiting(x)
        BY <1>1, <2>1, <2>8, <3>2 DEF Waiting
      <4> QED
        BY <1>1, <1>2, <4>1 DEF RowIsGood, PlannedOnItsIndex
    <3> QED
      BY <3>1, <3>2
  <2> QED
    BY <2>7, <2>8, NextClientsInductiveByRow
<1> QED
  BY <1>2, <1>3, <1>4

\* PublishTree: the segment leaves a tree, and nobody else is held to the
\* revision that is new.
LEMMA PublishTreeKeeps ==
    ASSUME ClientsInductive, NEW r \in RequestIds, PublishTree(r)
    PROVE  ClientsInductive'
<1>1. /\ PlacesAreGood /\ DOMAIN request = RequestIds
      /\ \A x \in RequestIds : Waiting(x) => RowIsGood(request[x])
  BY ClientsInductiveByRow
<1> DEFINE ops == request[r].ops
           next == ApplySegment(tree, ops)
<1>2. /\ Waiting(r) /\ End(r) /\ UNCHANGED <<enabled, locks, holds>>
      /\ \/ UNCHANGED <<tree, revision, used>>
         \/ /\ next # Refused /\ revision < MaxRevision
            /\ tree' = next /\ revision' = revision + 1
            /\ used' = used \cup CreatedIds(ops)
  BY DEF PublishTree
<1>3. CASE UNCHANGED <<tree, revision, used>>
  BY <1>2, <1>3, EndingKeeps
<1>4. CASE /\ next # Refused /\ revision < MaxRevision
           /\ tree' = next /\ revision' = revision + 1
           /\ used' = used \cup CreatedIds(ops)
  <2>1. IsTree(tree) /\ IsSegment(ops)
    BY <1>1, <1>2 DEF RowIsGood, PlannedWell, PlacesAreGood
  <2> HIDE DEF ops
  <2>2. /\ IsTree(next) /\ DOMAIN next \subseteq DOMAIN tree \cup CreatedIds(ops)
        /\ CreatedIds(ops) \subseteq EntryIds
    BY <1>4, <2>1, SegmentKeepsTree
  <2>3. IsTree(tree')
    BY <1>4, <2>2 DEF IsTree, ValidTree
  <2> HIDE DEF next
  <2>4. /\ MaxRevision \in Nat /\ revision \in Nat /\ revision' \in 0..MaxRevision
        /\ \A k \in {None} \cup 0..revision : k \in {None} \cup 0..revision' /\ k # revision'
    <3>1. MaxRevision \in Nat /\ revision \in 0..MaxRevision /\ None \notin 0..MaxRevision
      BY <1>1, ClientsAssumption DEF PlacesAreGood
    <3>2. revision' \in 0..MaxRevision /\ \A k \in 0..revision : k \in 0..revision' /\ k # revision'
      BY <1>4, <3>1
    <3> QED
      BY <3>1, <3>2
  <2>5. PlacesAreGood'
    BY <1>1, <1>2, <1>4, <2>2, <2>3, <2>4 DEF PlacesAreGood
  <2>6. (DOMAIN request = RequestIds)'
    BY <1>1, <1>2 DEF End
  <2>7. ASSUME NEW x \in RequestIds, Waiting(x)' PROVE RowIsGood(request[x])'
    <3>1. request'[x] = request[x] /\ Waiting(x)
      BY <1>1, <1>2, <2>7 DEF End, Waiting
    <3> DEFINE row == request[x]
    <3>2. RowIsGood(row)
      BY <1>1, <3>1
    <3>3. request'[x] = row
      BY <3>1
    <3> HIDE DEF row
    <3>4. row.expects # revision' /\ row.expects \in {None} \cup 0..revision'
          /\ row.loaded \in {None} \cup 0..revision'
      BY <2>4, <3>2 DEF RowIsGood, PlannedOnItsIndex
    <3>5. /\ IsAsked(row) /\ (row.loaded # None => row.expects \in {None, row.loaded})
          /\ (row.expects = None => OnlySetsContent(row))
          /\ IsTree(row.seen) /\ PlannedWell(row.seen, row.by, row.method, row.asked, row.ops)
          /\ row.method \in {"copy", "move"} => row.expects # None
      BY <3>2 DEF RowIsGood, PlannedOnItsIndex
    <3> QED
      BY <3>3, <3>4, <3>5 DEF RowIsGood, PlannedOnItsIndex
  <2> QED
    BY <2>5, <2>6, <2>7, NextClientsInductiveByRow
<1> QED
  BY <1>2, <1>3, <1>4

\* Requests that stay as they are, whatever happens to the locks.
LEMMA LocksKeep ==
    ASSUME ClientsInductive, UNCHANGED <<tree, revision, used, request>>,
           enabled' \in BOOLEAN, \A p \in DOMAIN locks' : locks'[p] \in Tokens,
           holds' \in [Clients -> SUBSET Tokens]
    PROVE  ClientsInductive'
<1>1. /\ PlacesAreGood /\ DOMAIN request = RequestIds
      /\ \A x \in RequestIds : Waiting(x) => RowIsGood(request[x])
  BY ClientsInductiveByRow
<1>2. PlacesAreGood' /\ (DOMAIN request = RequestIds)'
  BY <1>1 DEF PlacesAreGood
<1>3. ASSUME NEW x \in RequestIds, Waiting(x)' PROVE RowIsGood(request[x])'
  BY <1>1, <1>3 DEF RowIsGood, PlannedOnItsIndex, Waiting
<1> QED
  BY <1>2, <1>3, NextClientsInductiveByRow

\* A lock that goes leaves the others their tokens.
LEMMA WithoutLockKeeps ==
    ASSUME ClientsInductive, NEW path, WithoutLock(path), OnlyLocks, UNCHANGED holds
    PROVE  ClientsInductive'
<1>1. /\ \A p \in DOMAIN locks : locks[p] \in Tokens
      /\ holds \in [Clients -> SUBSET Tokens] /\ enabled \in BOOLEAN
  BY DEF ClientsInductive, TreeClientsTypeOK
<1>2. UNCHANGED <<tree, revision, used, request>> /\ enabled' \in BOOLEAN
  BY <1>1 DEF OnlyLocks
<1>3. \A p \in DOMAIN locks' : locks'[p] \in Tokens
  BY <1>1 DEF WithoutLock
<1> QED
  BY <1>1, <1>2, <1>3, LocksKeep

\* A lock that is there has a token.
LEMMA LockKeeps ==
    ASSUME ClientsInductive, NEW c \in Clients, NEW path, Lock(c, path)
    PROVE  ClientsInductive'
<1>1. /\ \A p \in DOMAIN locks : locks[p] \in Tokens
      /\ holds \in [Clients -> SUBSET Tokens] /\ enabled \in BOOLEAN
  BY DEF ClientsInductive, TreeClientsTypeOK
<1>2. PICK k \in Tokens :
        /\ locks' = [p \in DOMAIN locks \cup {path} |-> IF p = path THEN k ELSE locks[p]]
        /\ holds' = [holds EXCEPT ![c] = @ \cup {k}]
  BY DEF Lock
<1>3. \A p \in DOMAIN locks' : locks'[p] \in Tokens
  BY <1>1, <1>2
<1>4. holds' \in [Clients -> SUBSET Tokens]
  BY <1>1, <1>2
<1>5. UNCHANGED <<tree, revision, used, request>> /\ enabled' \in BOOLEAN
  BY <1>1 DEF Lock, OnlyLocks
<1> QED
  BY <1>3, <1>4, <1>5, LocksKeep

\* Revoke and Enable: an aborted request is otherwise as it was.
LEMMA RevokeKeeps ==
    ASSUME ClientsInductive, Enable \/ \E again \in BOOLEAN : Revoke(again)
    PROVE  ClientsInductive'
<1>1. /\ PlacesAreGood /\ DOMAIN request = RequestIds
      /\ \A x \in RequestIds : Waiting(x) => RowIsGood(request[x])
  BY ClientsInductiveByRow
<1>2. CASE Enable
  <2>1. /\ UNCHANGED <<tree, revision, used, request>> /\ enabled' \in BOOLEAN
        /\ locks' = locks /\ holds' = holds
    BY <1>2 DEF Enable
  <2> QED
    BY <1>1, <2>1, LocksKeep DEF PlacesAreGood
<1>3. ASSUME NEW again \in BOOLEAN, Revoke(again) PROVE ClientsInductive'
  <2>1. /\ UNCHANGED <<tree, revision, used, holds>> /\ enabled' \in BOOLEAN /\ locks' = << >>
        /\ request' = [r \in RequestIds |->
                        IF Waiting(r) /\ request[r].by \in Clients
                        THEN [request[r] EXCEPT !.aborted = TRUE]
                        ELSE request[r]]
    BY <1>3 DEF Revoke
  <2>2. DOMAIN << >> = {}
    OBVIOUS
  <2>3. PlacesAreGood' /\ (DOMAIN request = RequestIds)'
    BY <1>1, <2>1, <2>2 DEF PlacesAreGood
  <2>4. ASSUME NEW x \in RequestIds, Waiting(x)' PROVE RowIsGood(request[x])'
    <3> DEFINE old == request[x]
               yes == TRUE
               row == [old EXCEPT !.aborted = yes]
    <3>1. Waiting(x) /\ request'[x] \in {old, row}
      BY <2>1, <2>4 DEF Waiting
    <3>2. RowIsGood(old) /\ IsAsked(old)
      BY <1>1, <3>1 DEF RowIsGood, PlannedOnItsIndex
    <3>3. /\ row.by = old.by /\ row.method = old.method /\ row.asked = old.asked /\ row.ops = old.ops
          /\ row.expects = old.expects /\ row.seen = old.seen /\ row.loaded = old.loaded
          /\ IsAsked(row)
      <4> DEFINE b == old.by
                 m == old.method
               q == old.asked
                 o == old.ops
                 e == old.expects
                 s == old.seen
                 a == old.aborted
                 l == old.loaded
      <4>1. old = [by |-> b, method |-> m, asked |-> q, ops |-> o, expects |-> e, seen |-> s, loaded |-> l,
                   aborted |-> a]
        BY <3>2 DEF IsAsked
      <4> HIDE DEF b, m, q, o, e, s, a, l, old, yes
      <4>2. row = [by |-> b, method |-> m, asked |-> q, ops |-> o, expects |-> e, seen |-> s,
                   loaded |-> l, aborted |-> yes]
        BY <4>1
      <4> HIDE DEF row
      <4>3. /\ old.by = b /\ old.method = m /\ old.asked = q /\ old.ops = o /\ old.expects = e /\ old.seen = s
            /\ old.loaded = l
        BY <4>1
      <4> QED
        BY <4>2, <4>3 DEF IsAsked
    <3> HIDE DEF row, old
    <3>4. OnlySetsContent(old) => OnlySetsContent(row)
      BY <3>3 DEF OnlySetsContent
    <3>5. PlannedOnItsIndex(row)
      BY <3>2, <3>3, <3>4 DEF PlannedOnItsIndex, RowIsGood
    <3>6. RowIsGood(row)
      BY <3>2, <3>3, <3>5 DEF RowIsGood
    <3> QED
      BY <2>1, <3>1, <3>2, <3>6 DEF RowIsGood, PlannedOnItsIndex
  <2> QED
    BY <2>3, <2>4, NextClientsInductiveByRow
<1> QED
  BY <1>2, <1>3

\* Every step keeps the inductive invariant.
LEMMA ClientsStepHolds == ClientsInductive /\ [TreeClientsNext]_treeVars => ClientsInductive'
<1> SUFFICES ASSUME ClientsInductive, [TreeClientsNext]_treeVars PROVE ClientsInductive'
  OBVIOUS
<1>1. IsTree(tree) /\ DOMAIN tree \subseteq used
  BY DEF ClientsInductive, TreeClientsTypeOK
<1>2. ASSUME NEW r \in RequestIds, LoadState(r) \/ PublishTree(r) \/ BreakOff(r)
      PROVE  ClientsInductive'
  BY <1>2, LoadStateKeeps, PublishTreeKeeps, EndingKeeps DEF BreakOff
<1>3. ASSUME NEW r \in RequestIds, ManagerRequest(r) PROVE ClientsInductive'
  BY <1>1, <1>3, ManagerPlans, GoodPlanKeeps
<1>4. ASSUME NEW r \in RequestIds, NEW c \in Clients, WormholeRequest(r, c) PROVE ClientsInductive'
  BY <1>1, <1>4, WormholePlans, GoodPlanKeeps
<1>5. ASSUME NEW c \in Clients, NEW path \in LockPaths, Lock(c, path) \/ Unlock(c, path)
      PROVE  ClientsInductive'
  BY <1>5, LockKeeps, WithoutLockKeeps DEF Unlock
<1>6. ASSUME NEW path \in DOMAIN locks, LockExpires(path) PROVE ClientsInductive'
  BY <1>6, WithoutLockKeeps DEF LockExpires
<1>7. CASE Enable \/ \E again \in BOOLEAN : Revoke(again)
  BY <1>7, RevokeKeeps
<1>8. CASE UNCHANGED treeVars
  BY <1>8, LocksKeep DEF treeVars, ClientsInductive, TreeClientsTypeOK
<1> QED
  BY <1>2, <1>3, <1>4, <1>5, <1>6, <1>7, <1>8 DEF TreeClientsNext

\* The requests of the file manager and of the WebDAV clients: the tree stays
\* a tree, and each request on its way leaves, if it is applied to what it has
\* seen, what it is for.
THEOREM ClientsInductiveHolds == TreeClientsSpec => []ClientsInductive
<1>1. TreeClientsInit => ClientsInductive
  BY ClientsInitHolds
<1>2. ClientsInductive /\ [TreeClientsNext]_treeVars => ClientsInductive'
  BY ClientsStepHolds
<1> QED
  BY <1>1, <1>2, PTL DEF TreeClientsSpec

-----------------------------------------------------------------------------
(* What a step that publishes does.                                        *)

\* Only the transaction of a request that has loaded the ref moves the ref.
LEMMA OnlyPublishTreeMoves ==
    ASSUME ClientsInductive, [TreeClientsNext]_treeVars, NEW r \in RequestIds, Publishes(r)
    PROVE  PublishTree(r)
<1>1. /\ IsTree(tree) /\ DOMAIN tree \subseteq used /\ DOMAIN request = RequestIds
      /\ Waiting(r) /\ request'[r] = Ended /\ revision' # revision
  BY DEF ClientsInductive, TreeClientsTypeOK, RequestsInductive, Publishes
<1>2. ASSUME NEW x \in RequestIds, PublishTree(x) PROVE x = r
  <2>1. request' = [request EXCEPT ![x] = Ended]
    BY <1>2 DEF PublishTree, End
  <2> QED
    BY <1>1, <2>1 DEF Waiting
<1>3. ASSUME NEW x \in RequestIds, LoadState(x) \/ BreakOff(x) PROVE revision' = revision
  BY <1>3 DEF LoadState, BreakOff
<1>4. ASSUME NEW x \in RequestIds, ManagerRequest(x) PROVE revision' = revision
  <2>1. GoodPlan(x)
    BY <1>1, <1>4, ManagerPlans
  <2> QED
    BY <2>1 DEF GoodPlan, Planned
<1>5. ASSUME NEW x \in RequestIds, NEW c \in Clients, WormholeRequest(x, c) PROVE revision' = revision
  <2>1. GoodPlan(x)
    BY <1>1, <1>5, WormholePlans
  <2> QED
    BY <2>1 DEF GoodPlan, Planned
<1>6. ASSUME NEW c \in Clients, NEW path, Lock(c, path) \/ Unlock(c, path) PROVE revision' = revision
  BY <1>6 DEF Lock, Unlock, OnlyLocks
<1>7. ASSUME NEW path, LockExpires(path) PROVE revision' = revision
  BY <1>7 DEF LockExpires, OnlyLocks
<1>8. ASSUME Enable \/ \E again \in BOOLEAN : Revoke(again) PROVE revision' = revision
  BY <1>8 DEF Enable, Revoke
<1>9. UNCHANGED treeVars => revision' = revision
  BY DEF treeVars
<1> QED
  BY <1>1, <1>2, <1>3, <1>4, <1>5, <1>6, <1>7, <1>8, <1>9 DEF TreeClientsNext

\* It publishes what its operations leave of the tree, which is the tree it
\* was planned on, or it only gives a file that it has seen a new content.
LEMMA WhatIsPublished ==
    ASSUME ClientsInductive, [TreeClientsNext]_treeVars, NEW r \in RequestIds, Publishes(r)
    PROVE  /\ RowIsGood(request[r]) /\ IsTree(tree)
           /\ tree' = ApplySegment(tree, request[r].ops)
           /\ ApplySegment(tree, request[r].ops) # Refused
           /\ \/ request[r].seen = tree
              \/ request[r].expects = None /\ OnlySetsContent(request[r])
<1> DEFINE row == request[r]
<1>1. /\ PlacesAreGood
      /\ \A x \in RequestIds : Waiting(x) => RowIsGood(request[x])
  BY ClientsInductiveByRow
<1>2. PublishTree(r) /\ revision' # revision /\ Waiting(r)
  BY OnlyPublishTreeMoves DEF Publishes
<1>3. RowIsGood(row)
  BY <1>1, <1>2
<1>4. /\ row.loaded # None /\ row.loaded = revision
      /\ tree' = ApplySegment(tree, row.ops) /\ ApplySegment(tree, row.ops) # Refused
  BY <1>2 DEF PublishTree
<1> HIDE DEF row
<1>5. row.expects \in {None, revision}
  BY <1>3, <1>4 DEF RowIsGood, PlannedOnItsIndex
<1>6. row.seen = tree \/ (row.expects = None /\ OnlySetsContent(row))
  BY <1>3, <1>5 DEF RowIsGood, PlannedOnItsIndex
<1> QED
  BY <1>1, <1>3, <1>4, <1>6 DEF PlacesAreGood, row

\* A new content is only given to the file with the content that was seen.
LEMMA ANewContentChangesOneFile ==
    ASSUME NEW row, IsTree(row.seen), OnlySetsContent(row),
           NEW u, IsTree(u), NEW v, v = ApplySegment(u, row.ops), v # Refused
    PROVE  /\ AddsNoConflict(u, v) /\ DOMAIN v = DOMAIN u
           /\ \A e \in DOMAIN u : v[e] # u[e] => /\ e \in DOMAIN row.seen
                                                 /\ row.seen[e].content = u[e].content
<1>1. PICK e \in DOMAIN row.seen, c \in Contents :
         row.ops = <<SetContent(e, row.seen[e].content, c)>>
  BY DEF OnlySetsContent
<1>2. e \in EntryIds
  BY TreeFacts
<1> DEFINE old == row.seen[e].content
           op == SetContent(e, old, c)
<1>3. op = SetContent(e, old, c) /\ v = ApplySegment(u, <<op>>)
  BY <1>1
<1> HIDE DEF op, old
<1>4. /\ AddsNoConflict(u, v) /\ DOMAIN v = DOMAIN u
      /\ e \in DOMAIN u /\ u[e].content = old
      /\ \A d \in DOMAIN u \ {e} : v[d] = u[d]
  BY <1>2, <1>3, ContentChangesOneFile
<1> QED
  BY <1>4 DEF old

\* No request removes or changes anything but what its index showed.
THEOREM NothingUnseenIsLostHolds == TreeClientsSpec => NothingUnseenIsLost
<1> DEFINE Kept == \A r \in RequestIds : Publishes(r) =>
                     \A e \in DOMAIN tree :
                        (e \notin DOMAIN tree' \/ tree'[e] # tree[e])
                          => /\ e \in DOMAIN request[r].seen
                             /\ request[r].seen[e].content = tree[e].content
<1>1. ClientsInductive /\ [TreeClientsNext]_treeVars => [Kept]_treeVars
  <2> SUFFICES ASSUME ClientsInductive, [TreeClientsNext]_treeVars,
                      NEW r \in RequestIds, Publishes(r), NEW e \in DOMAIN tree,
                      e \notin DOMAIN tree' \/ tree'[e] # tree[e]
               PROVE  e \in DOMAIN request[r].seen /\ request[r].seen[e].content = tree[e].content
    OBVIOUS
  <2>1. /\ RowIsGood(request[r]) /\ IsTree(tree)
        /\ tree' = ApplySegment(tree, request[r].ops)
        /\ ApplySegment(tree, request[r].ops) # Refused
        /\ \/ request[r].seen = tree
           \/ request[r].expects = None /\ OnlySetsContent(request[r])
    BY WhatIsPublished
  <2> DEFINE row == request[r]
             v == tree'
  <2>2. CASE row.seen = tree
    BY <2>2
  <2>3. CASE OnlySetsContent(row)
    <3>1. IsTree(row.seen) /\ v = ApplySegment(tree, row.ops) /\ v # Refused
      BY <2>1 DEF RowIsGood
    <3>2. e \notin DOMAIN v \/ v[e] # tree[e]
      OBVIOUS
    <3> HIDE DEF row, v
    <3>3. /\ AddsNoConflict(tree, v) /\ DOMAIN v = DOMAIN tree
          /\ \A x \in DOMAIN tree : v[x] # tree[x] => /\ x \in DOMAIN row.seen
                                                      /\ row.seen[x].content = tree[x].content
      BY <2>1, <2>3, <3>1, ANewContentChangesOneFile
    <3>4. e \in DOMAIN row.seen /\ row.seen[e].content = tree[e].content
      BY <3>2, <3>3
    <3> QED
      BY <3>4 DEF row
  <2> QED
    BY <2>1, <2>2, <2>3
<1>2. ClientsInductive /\ [TreeClientsNext]_treeVars => ClientsInductive'
  BY ClientsStepHolds
<1> QED
  BY <1>1, <1>2, ClientsInitHolds, PTL DEF TreeClientsSpec, NothingUnseenIsLost

\* What a transaction publishes of a copy or a move is what its operations
\* leave of the tree its client has seen: the selection arrives whole.
THEOREM SelectionArrivesWholeHolds == TreeClientsSpec => SelectionArrivesWhole
<1> DEFINE Whole == \A r \in RequestIds : (Publishes(r) /\ request[r].method \in {"copy", "move"}) =>
              LET seen == request[r].seen
              IN  /\ request[r].method = "copy" => Copied(seen, tree', request[r].asked)
                  /\ request[r].method = "move" => Moved(seen, tree', request[r].asked)
                  /\ request[r].by = Manager => DOMAIN seen \subseteq DOMAIN tree'
<1>1. ClientsInductive /\ [TreeClientsNext]_treeVars => [Whole]_treeVars
  <2> SUFFICES ASSUME ClientsInductive, [TreeClientsNext]_treeVars,
                      NEW r \in RequestIds, Publishes(r), request[r].method \in {"copy", "move"}
               PROVE  LET seen == request[r].seen
                      IN  /\ request[r].method = "copy" => Copied(seen, tree', request[r].asked)
                          /\ request[r].method = "move" => Moved(seen, tree', request[r].asked)
                          /\ request[r].by = Manager => DOMAIN seen \subseteq DOMAIN tree'
    OBVIOUS
  <2> DEFINE row == request[r]
  <2>1. /\ RowIsGood(row) /\ tree' = ApplySegment(tree, row.ops)
        /\ ApplySegment(tree, row.ops) # Refused
        /\ row.seen = tree \/ row.expects = None
    BY WhatIsPublished
  <2>2. row.seen = tree
    BY <2>1 DEF RowIsGood
  <2>3. PlannedWell(row.seen, row.by, row.method, row.asked, row.ops)
    BY <2>1 DEF RowIsGood
  <2> QED
    BY <2>1, <2>2, <2>3 DEF PlannedWell
<1>2. ClientsInductive /\ [TreeClientsNext]_treeVars => ClientsInductive'
  BY ClientsStepHolds
<1> QED
  BY <1>1, <1>2, ClientsInitHolds, PTL DEF TreeClientsSpec, SelectionArrivesWhole

\* A WebDAV client's write adds no two names that differ in case only.
THEOREM WormholeAddsNoCaseConflictHolds == TreeClientsSpec => WormholeAddsNoCaseConflict
<1> DEFINE Apart == \A r \in RequestIds : (Publishes(r) /\ request[r].by \in Clients) =>
                      \A x \in CaseConflicts(tree') :
                         \/ tree'[x[1]].parent \notin DOMAIN tree
                         \/ \E y \in CaseConflicts(tree) : tree[y[1]].parent = tree'[x[1]].parent
<1>1. ClientsInductive /\ [TreeClientsNext]_treeVars => [Apart]_treeVars
  <2> SUFFICES ASSUME ClientsInductive, [TreeClientsNext]_treeVars,
                      NEW r \in RequestIds, Publishes(r), request[r].by \in Clients
               PROVE  AddsNoConflict(tree, tree')
    BY DEF AddsNoConflict
  <2>1. /\ RowIsGood(request[r]) /\ IsTree(tree)
        /\ tree' = ApplySegment(tree, request[r].ops)
        /\ ApplySegment(tree, request[r].ops) # Refused
        /\ \/ request[r].seen = tree
           \/ request[r].expects = None /\ OnlySetsContent(request[r])
    BY WhatIsPublished
  <2> DEFINE row == request[r]
             v == tree'
  <2>2. CASE row.seen = tree
    BY <2>1, <2>2 DEF RowIsGood, PlannedWell
  <2>3. CASE OnlySetsContent(row)
    <3>1. IsTree(row.seen) /\ v = ApplySegment(tree, row.ops) /\ v # Refused
      BY <2>1 DEF RowIsGood
    <3> HIDE DEF row, v
    <3>2. /\ AddsNoConflict(tree, v) /\ DOMAIN v = DOMAIN tree
          /\ \A x \in DOMAIN tree : v[x] # tree[x] => /\ x \in DOMAIN row.seen
                                                      /\ row.seen[x].content = tree[x].content
      BY <2>1, <2>3, <3>1, ANewContentChangesOneFile
    <3> QED
      BY <3>2 DEF v
  <2> QED
    BY <2>1, <2>2, <2>3
<1>2. ClientsInductive /\ [TreeClientsNext]_treeVars => ClientsInductive'
  BY ClientsStepHolds
<1> QED
  BY <1>1, <1>2, ClientsInitHolds, PTL DEF TreeClientsSpec, WormholeAddsNoCaseConflict
=============================================================================
