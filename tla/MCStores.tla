------------------------------ MODULE MCStores ------------------------------
(***************************************************************************)
(* Three parts of the server that share no state, in one run: the trees    *)
(* and their clients, the object store, and the installed applications.    *)
(* "part" says whose behaviour it is; the others stay as they were.        *)
(*                                                                         *)
(* The trees are small: the root, a directory, and a third entry, with     *)
(* every name and place.                                                   *)
(***************************************************************************)
EXTENDS TreeClients, ObjectStorage, InstalledApps, TLC

VARIABLE part

SmallTrees ==
    LET dir == [parent |-> Root, name |-> LowerName, content |-> None]
        third == [parent : {1, 2}, name : {UpperName}, content : {None, EmptyFile}]
    IN  {t \in {<<GenesisTree[Root], dir, x>> : x \in third} : ValidTree(t)}

OneLockPath == {<<LowerName>>}

EqualPieces == [c \in FileContents |-> Pieces]

StoresInit ==
    /\ part \in {"trees", "objects", "apps"}
    /\ TreeClientsInit /\ StorageInit /\ InstalledAppsInit
    /\ part # "trees" => tree = CHOOSE first \in FirstTrees : TRUE

StoresNext ==
    \/ part = "trees" /\ TreeClientsNext /\ UNCHANGED <<storageVars, appVars>>
    \/ part = "objects" /\ StorageNext /\ UNCHANGED <<treeVars, appVars>>
    \/ part = "apps" /\ InstalledAppsNext /\ UNCHANGED <<treeVars, storageVars>>

StoresSpec ==
    /\ StoresInit
    /\ [][StoresNext /\ part' = part]_<<treeVars, storageVars, appVars, part>>

\* Trees, objects and records keep their types; an installed application has
\* its files, and torn ones only after a late installation, though each of
\* the steps in between may fail (AppService, FileAppStore).
StoresInvariant ==
    /\ TreeClientsTypeOK /\ StorageTypeOK /\ AppsTypeOK
    /\ InstalledAppHasFiles /\ OnlyALateInstallIsTorn

\* Permutations that leave the values of one part alone serve two parts at
\* once: the configuration names Commits and RequestIds alike, and so on.
StoresSymmetry == Permutations(RequestIds) \cup Permutations(HeadIds) \cup Permutations(Refs)
=============================================================================
