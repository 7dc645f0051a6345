----------------------------- MODULE MCRequests -----------------------------
(***************************************************************************)
(* Long work that a request started, for TLC: applying the plans of an     *)
(* exposure (Exposure), or taking, verifying and pruning backups           *)
(* (BackupRuns).  A behaviour is one of a single part, which "part" names: *)
(* the two share no state.                                                 *)
(***************************************************************************)
EXTENDS Exposure, BackupRuns

CONSTANTS a1, a2, c1, c2, v1, immich, karakeep

VARIABLE part

\* Karakeep is the application whose index meilisearch.service keeps.
TwoApps == <<karakeep, immich>>
OneApp  == <<karakeep>>

Symmetric == Permutations({a1, a2}) \cup Permutations({c1, c2})

-----------------------------------------------------------------------------
MCVars == <<vars, runVars, part>>

MCInit ==
    /\ part \in {"exposure", "backups"}
    /\ Init /\ RunsInit
    /\ part = "exposure" \/ live.gate = "none"
    /\ part = "backups" \/ \A a \in Writer : ~app[a].desired

MCNext ==
    \/ part = "exposure" /\ Next     /\ UNCHANGED <<runVars, part>>
    \/ part = "backups"  /\ RunsNext /\ UNCHANGED <<vars, part>>

MCSpec == MCInit /\ [][MCNext]_MCVars

=============================================================================
