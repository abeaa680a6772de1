-------------------------- MODULE MCWorkspaceTrees --------------------------
(***************************************************************************)
(* The commit of a Run, and the exchange between main and a Workspace, in  *)
(* one run.  A behaviour is one of either: "part" says of which, and the   *)
(* state of the other stays as it was.                                     *)
(***************************************************************************)
EXTENDS WorkspaceCommit, WorkspaceExchange, TLC

CONSTANTS
    a, A, b, z, c1,
    MaxRevisions    \* bound of the commits to main and the Workspace together

VARIABLE part

D(p, n) == [parent |-> p, name |-> n, content |-> None]
F(p, n, c) == [parent |-> p, name |-> n, content |-> c]
RootEntry == D(None, None)

\* Nothing; a file and an empty directory; a file in a directory, and one
\* beside it.
MCBaseTrees ==
    {1 :> RootEntry,
     (1 :> RootEntry) @@ (2 :> F(1, a, c1)) @@ (3 :> D(1, b)),
     (1 :> RootEntry) @@ (2 :> D(1, a)) @@ (3 :> F(2, b, c1)) @@ (4 :> F(1, b, c1))}
MCRunPaths == {<<a>>, <<b>>, <<z>>, <<a, b>>, <<a, a>>, <<b, a>>, <<A>>, <<a, a, b>>}

\* A name of a file in one tree differs in case only from a directory's in
\* the other, and each tree has an entry that can be selected with the
\* directory it is in.
MCCrossed == {<<A, b>>}

MCMainTrees == {(1 :> RootEntry) @@ (2 :> D(1, a)) @@ (3 :> F(2, A, c1))}
MCExchangeTrees ==
    {(1 :> RootEntry) @@ (2 :> F(1, A, c1)),
     (1 :> RootEntry) @@ (2 :> D(1, b)) @@ (3 :> F(2, a, c1))}

MCInit ==
    /\ part \in {"commit", "exchange"}
    /\ CommitInit /\ ExchangeInit
    /\ part = "commit" => main = CHOOSE t \in MainTrees : TRUE
    /\ part = "commit" => ws = CHOOSE t \in WorkspaceTrees : TRUE
    /\ part = "exchange" => base = CHOOSE t \in BaseTrees : TRUE

\* An exchange is over when every request is answered.
MCNext ==
    \/ /\ part = "commit" /\ CommitNext
       /\ UNCHANGED exchangeVars
    \/ /\ part = "exchange" /\ ExchangeNext
       /\ \E x \in ExchangeIds : exchange[x] # Answered
       /\ mainRev' + wsRev' <= MaxRevisions
       /\ UNCHANGED commitVars

\* The trees are trees at every moment; a commit takes the bytes it scanned,
\* and leaves the ids of what the Run did not replace alone, which handles and
\* links refer to (TargetTreeProjector, planCommitOperations, verifyStat).
TreesInvariant ==
    /\ WorkspaceCommitTypeOK /\ ExchangeTypeOK
    /\ MaterializedAsScanned /\ EntriesKeepTheirIdentity

MCSpec == MCInit /\ [][MCNext /\ part' = part]_<<commitVars, exchangeVars, part>>
=============================================================================
