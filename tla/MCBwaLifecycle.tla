--------------------------- MODULE MCBwaLifecycle ---------------------------
(***************************************************************************)
(* BwaLifecycle where more goes wrong than one crash, in two parts that    *)
(* share no behaviour: "torn", two Runs one after the other, with          *)
(* directories that a crash leaves half removed but a docker that works,   *)
(* and "docker", a single Run with every failure of docker and of the file *)
(* system.  The constants of the configuration are those of "torn".        *)
(***************************************************************************)
EXTENDS BwaLifecycle, TLC

VARIABLE part

Docker == INSTANCE BwaLifecycle WITH
    DockerMayFail <- TRUE, CrashTearsRemoval <- FALSE, DaemonMayClose <- TRUE,
    Requests <- Requests \cup {"OPEN"}

FailuresNext ==
    \/ part = "torn" /\ LifecycleNext
    \/ part = "docker" /\ Docker!LifecycleNext /\ Cardinality({r \in Runs : runs'[r] # NoRun}) <= 1

FailuresSpec ==
    /\ LifecycleInit /\ part \in {"torn", "docker"}
    /\ [][FailuresNext /\ part' = part]_<<lifecycleVars, part>>

\* Run ids are random and compared for equality only.
Symmetry == Permutations(Runs)
=============================================================================
