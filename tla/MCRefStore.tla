---------------------------- MODULE MCRefStore ----------------------------
(***************************************************************************)
(* RefStore on a small instance.                                           *)
(***************************************************************************)
EXTENDS RefStore, TLC

\* Ids are compared for equality only.  Main is not interchangeable with a
\* Workspace, and the sets are disjoint, so permuting each is sound.
Symmetry == Permutations(Workspaces) \cup Permutations(Runs)
              \cup Permutations(Instances) \cup Permutations(Digests)
=============================================================================
