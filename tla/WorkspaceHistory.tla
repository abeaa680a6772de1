-------------------------- MODULE WorkspaceHistory --------------------------
(***************************************************************************)
(* What the control database promises, without leases, applications or     *)
(* instances: every Ref has a linear history of versions, and work done in *)
(* a Workspace ends in exactly one of three ways.  It becomes the version  *)
(* that directly follows the one it started from, it is found to have      *)
(* changed nothing, or it is discarded.  In between, nobody else changes   *)
(* or removes the Workspace.                                               *)
(***************************************************************************)
EXTENDS Integers

CONSTANTS
    RefIds,      \* Refs, the Workspaces among them
    Workspaces,
    Runs,
    Heads,       \* head objects
    Revisions,   \* revision numbers a new Ref may start with
    NoFid,       \* no head
    None         \* no Workspace

VARIABLES
    current,    \* the version a Ref shows
    history,    \* every version it has shown
    work        \* what became of each Run

historyVars == <<current, history, work>>

NoVersion == [head |-> NoFid, revision |-> 0]
NoWork    == [phase |-> "none", workspace |-> None, input |-> NoFid]

Exists(ref)  == current[ref].head # NoFid
PendingOn(w) == {r \in Runs : work[r].phase = "pending" /\ work[r].workspace = w}

Create(ref, version) ==
    /\ ~Exists(ref)
    /\ current' = [current EXCEPT ![ref] = version]
    /\ history' = [history EXCEPT ![ref] = {version}]
    /\ UNCHANGED work

\* A new version: its head is in no history, its number is the next one.
Append(ref, head) ==
    LET next == [head |-> head, revision |-> current[ref].revision + 1]
    IN  /\ Exists(ref)
        /\ \A other \in RefIds : \A v \in history[other] : v.head # head
        /\ current' = [current EXCEPT ![ref] = next]
        /\ history' = [history EXCEPT ![ref] = @ \cup {next}]

Edit(ref, head) ==
    /\ PendingOn(ref) = {}
    /\ Append(ref, head)
    /\ UNCHANGED work

\* The work of past Runs is forgotten with the Workspace, pending work is not.
Drop(w) ==
    /\ Exists(w)
    /\ PendingOn(w) = {}
    /\ current' = [current EXCEPT ![w] = NoVersion]
    /\ history' = [history EXCEPT ![w] = {}]
    /\ \E forgotten \in SUBSET Runs :
          work' = [r \in Runs |-> IF r \in forgotten THEN NoWork ELSE work[r]]
    /\ \A r \in Runs : work[r].phase = "pending" => work'[r] = work[r]

Begin(r, w) ==
    /\ work[r].phase = "none"
    /\ Exists(w)
    /\ PendingOn(w) = {}
    /\ work' = [work EXCEPT ![r] = [phase |-> "pending", workspace |-> w,
                                    input |-> current[w].head]]
    /\ UNCHANGED <<current, history>>

Publish(r, head) ==
    /\ work[r].phase = "pending"
    /\ current[work[r].workspace].head = work[r].input
    /\ Append(work[r].workspace, head)
    /\ work' = [work EXCEPT ![r].phase = "done"]

FindUnchanged(r) ==
    /\ work[r].phase = "pending"
    /\ current[work[r].workspace].head = work[r].input
    /\ work' = [work EXCEPT ![r].phase = "done"]
    /\ UNCHANGED <<current, history>>

Discard(r) ==
    /\ work[r].phase = "pending"
    /\ work' = [work EXCEPT ![r].phase = "discarded"]
    /\ UNCHANGED <<current, history>>

Init ==
    /\ current \in [RefIds -> {NoVersion} \cup [head : Heads, revision : {0}]]
    /\ history = [ref \in RefIds |-> IF Exists(ref) THEN {current[ref]} ELSE {}]
    /\ work = [r \in Runs |-> NoWork]

Next ==
    \/ \E ref \in RefIds, v \in [head : Heads, revision : Revisions] : Create(ref, v)
    \/ \E ref \in RefIds, head \in Heads : Edit(ref, head)
    \/ \E w \in Workspaces : Drop(w)
    \/ \E r \in Runs, w \in Workspaces : Begin(r, w)
    \/ \E r \in Runs, head \in Heads : Publish(r, head)
    \/ \E r \in Runs : FindUnchanged(r) \/ Discard(r)

Spec == Init /\ [][Next]_historyVars
=============================================================================
