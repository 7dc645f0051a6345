-------------------------- MODULE MCAppMaintenance --------------------------
(* Instances of AppMaintenance for TLC. *)
EXTENDS AppMaintenance

CONSTANTS db, app

\* Two bundles, one of which depends on the other.
MCDeps == [b \in {db, app} |-> IF b = app THEN {db} ELSE {}]

=============================================================================
