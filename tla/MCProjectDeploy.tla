--------------------------- MODULE MCProjectDeploy ---------------------------
(* A project for TLC: its releases and their deployment (ProjectDeploy), or   *)
(* the repository behind it (SourceControl).  A behaviour is one of the two:  *)
(* a deployment looks at the outcome of provisioning only.                    *)
EXTENDS ProjectDeploy, SourceControl, TLC

CONSTANTS r1, r2, d1, d2, d3, h1, h2, p1, p2

VARIABLE part

Symmetric == Permutations({r1, r2}) \cup Permutations({d1, d2, d3}) \cup Permutations({h1, h2})
             \cup Permutations({p1, p2})

\* Two faults with a deletion or a mirror, or a mirror that is configured and removed.
MCScmBudget == {<<2, 1>>, <<0, 2>>}

MCInit == Init /\ ScmInit /\ part \in {"deploy", "scm"}
          /\ (part = "deploy" => scmFaults = 0 /\ world.repo.by = "nobody")
MCNext ==
    \/ part = "deploy" /\ Next /\ UNCHANGED <<scmVars, part>>
    \/ part = "scm" /\ ScmNext /\ UNCHANGED <<vars, part>>
MCSpec == MCInit /\ [][MCNext]_<<vars, scmVars, part>>

=============================================================================
