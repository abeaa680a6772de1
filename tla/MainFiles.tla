----------------------------- MODULE MainFiles -----------------------------
(***************************************************************************)
(* The main Workspace as the file capabilities, the resource sessions and  *)
(* the other services above it see it: the content of each file and the    *)
(* revision of the ref, changed by anybody.  A file is an entry id, which  *)
(* is random and never used again: a file that is removed stays Gone, and  *)
(* Unborn is the free name a save target was issued for.                   *)
(*                                                                         *)
(* A transaction of FileSystemTransactions has two steps, LoadState and    *)
(* Publish: it reads the ref, awaits the objects it needs, and publishes   *)
(* with a compare-and-swap on the revision it read.                        *)
(***************************************************************************)
EXTENDS Naturals, FiniteSets, Functions

CONSTANTS
    Files,          \* entry ids
    Contents,       \* content ids (fidHex), a hash of the bytes
    Unborn, Gone,   \* no such file yet, no such file any more
    None,           \* no value
    MaxClock,       \* bound of the clock
    MaxRevision     \* bound of the revisions

ASSUME FilesAssumption ==
    /\ {Unborn, Gone, None} \cap Contents = {}
    /\ Unborn # Gone
    /\ MaxClock \in Nat
    /\ MaxRevision \in Nat

VARIABLES
    clock,          \* Date.now()
    content,        \* the content of each file in the main Workspace
    revision        \* the revision of its ref

mainFiles == <<clock, content, revision>>

\* A JavaScript Map without some keys, and with one more.
Drop(map, keys) == Restrict(map, DOMAIN map \ keys)
Bind(map, key, value) == [x \in DOMAIN map \cup {key} |-> IF x = key THEN value ELSE map[x]]

Exists(f) == content[f] \in Contents

\* A save target is issued for a free name; a file is only issued if it exists.
MainFilesInit ==
    /\ clock = 0
    /\ content \in [Files -> Contents \cup {Unborn}]
    /\ revision = 0

MainFilesTypeOK ==
    /\ clock \in 0..MaxClock
    /\ content \in [Files -> Contents \cup {Unborn, Gone}]
    /\ revision \in 0..MaxRevision

\* Mutant of Applies: the transaction does not compare contents.
AppliesToAnything(f, expected) == expected # Gone

\* What createFile and setFileContent require of the tree they loaded: a
\* free name, or the content the caller expects (applySegment checks both).
Applies(f, expected) == content[f] = expected /\ expected # Gone

\* After the compare-and-swap the index is loaded once more, and the file
\* looked up in it: somebody may have removed it by then.
StillThere(f) == Exists(f)

\* compareAndSwap on the revision the transaction loaded.
Publish(f, new, loaded) ==
    /\ revision = loaded
    /\ revision < MaxRevision
    /\ content' = [content EXCEPT ![f] = new]
    /\ revision' = revision + 1

\* Any other client of the main Workspace writes, creates or removes a file.
OtherCommit ==
    /\ revision < MaxRevision
    /\ \E f \in Files :
         \E new \in (IF Exists(f) THEN Contents \cup {Gone} ELSE Contents) :
            /\ content[f] # Gone
            /\ content' = [content EXCEPT ![f] = new]
    /\ revision' = revision + 1
    /\ UNCHANGED clock

Tick ==
    /\ clock < MaxClock
    /\ clock' = clock + 1
    /\ UNCHANGED <<content, revision>>
=============================================================================
