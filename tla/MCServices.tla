----------------------------- MODULE MCServices -----------------------------
(***************************************************************************)
(* Two services of the BWA manager that share no state, in one run: image  *)
(* updates of an Application, and its environment.  "part" says whose      *)
(* behaviour it is; the other stays as it was, where nothing of it is due, *)
(* so that the fairness of image updates asks nothing of the environment.  *)
(***************************************************************************)
EXTENDS BwaImageUpdate, BwaEnvironment

VARIABLE part

ServicesInit ==
    /\ part \in {"update", "environment"}
    /\ ImageUpdateInit /\ EnvironmentInit
    /\ part = "environment" =>
          /\ installed = CHOOSE d \in Digests : TRUE
          /\ \A i \in Instances : run[i].state = "RUNNING"

ServicesNext ==
    \/ part = "update" /\ ImageUpdateNext /\ UNCHANGED environmentVars
    \/ part = "environment" /\ EnvironmentNext /\ UNCHANGED imageVars

ServicesSpec ==
    /\ ServicesInit
    /\ [][ServicesNext /\ part' = part]_<<imageVars, environmentVars, part>>
    /\ ImageUpdateFairness
=============================================================================
